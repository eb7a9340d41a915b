------------------------- MODULE AdaptiveExecutorProofs -------------------------
(***************************************************************************)
(* Proofs about AdaptiveExecutor, for every value of its constants.        *)
(***************************************************************************)
EXTENDS AdaptiveExecutor, SumTheorems

Locals == {"tier", "allow", "month", "riskOff", "orders", "pos", "cash", "todo",
           "current", "sold", "bought", "blocked", "spendable"}

\* The locals of the running invocation.
LocalsOK ==
  /\ DOMAIN run = Locals
  /\ run.tier \in Tiers /\ run.month \in Nat
  /\ run.pos \in [Symbols -> Int] /\ run.todo \subseteq Symbols
  /\ pc = "submit" => run.current.intent \in [sym : Symbols, side : Sides, qty : Nat \ {0}]
  /\ pc \in {"target", "account", "sell", "submit", "buy", "finish"} => plan \in Plans

TypeInv == TypeOK /\ LocalsOK

\* Between invocations the locals have their types.
LEMMA BlankLocals == DOMAIN Blank = Locals /\ Blank.tier \in Tiers /\ Blank.month \in Nat
                     /\ Blank.pos \in [Symbols -> Int] /\ Blank.todo \subseteq Symbols
                     /\ ~Blank.riskOff
  BY DEF Blank, Locals, Tiers, Flat

\* The account and state file of a first invocation have their types.
LEMMA TypeInit == Init => TypeInv
  <1> SUFFICES ASSUME Init PROVE TypeInv
    OBVIOUS
  <1>1. PICK a \in InitialAccounts : pos = a.pos /\ cash = a.cash /\ book = a.book /\ plan = a.plan
    BY DEF Init
  <1>2. pos \in [Symbols -> Int] /\ cash \in Int /\ IsBook(book) /\ plan \in Plans \cup {NoPlan}
    BY <1>1, AccountsAssumption
  <1>3. day \in SessionsPerMonth .. MaxDay /\ release \in 1 .. MaxRelease
        /\ moves \in 0 .. MaxMoves /\ faults \in 0 .. MaxFaults
    BY BoundsAssumption DEF Init
  <1>4. tier \in Tiers /\ above \in BOOLEAN /\ gate \in BOOLEAN
        /\ lastRebal \in Nat /\ latch \in BOOLEAN
    BY DEF Init, Tiers
  <1>5. \A i \in DOMAIN attempts : attempts[i] \in Nat \ {0}
    BY DEF Init, NoAttempts
  <1>6. TypeOK
    BY <1>2, <1>3, <1>4, <1>5 DEF TypeOK
  <1>7. LocalsOK
    BY BlankLocals DEF Init, LocalsOK
  <1> QED BY <1>6, <1>7 DEF TypeInv

\* The calendar month of a session is a number.
LEMMA MonthType == \A d \in Nat : Month(d) \in Nat
  BY BoundsAssumption DEF Month

\* Halving a target for CAUTIOUS leaves a whole number of lots.
LEMMA SizedType ==
  ASSUME NEW w \in [Symbols -> Nat], NEW t PROVE Sized(w, t) \in [Symbols -> Nat]
  BY DEF Sized

\* A frozen plan is a well-formed plan.
LEMMA NewPlanType ==
  ASSUME TypeOK, NEW m \in Nat, NEW sig \in Nat, NEW w \in [Symbols -> Nat],
         NEW b \in BOOLEAN, NEW t \in Tiers
  PROVE NewPlan(m, sig, w, b, t) \in Plans
  BY BoundsAssumption DEF TypeOK, NewPlan, Plans

\* So is the zero-target plan of a risk-off decision.
LEMMA ZeroPlanType ==
  ASSUME TypeInv PROVE ZeroPlan(Signal) \in Plans
  <1>1. Signal \in Nat
    BY BoundsAssumption DEF TypeInv, TypeOK, Signal
  <1>2. Flat \in [Symbols -> Nat]
    BY DEF Flat
  <1> QED
    BY <1>1, <1>2, NewPlanType DEF TypeInv, LocalsOK, ZeroPlan

\* A cancel request changes the status of working orders only.
LEMMA CancelType ==
  ASSUME IsBook(book), NEW S PROVE IsBook(CancelRequested(S))
  BY DEF IsBook, CancelRequested, Orders, OpenStatuses, RetryStatuses

\* A working order that is cancelled or expires keeps what it filled.
LEMMA CloseType ==
  ASSUME IsBook(book), NEW c \in DOMAIN book, NEW st \in RetryStatuses,
         book' = [book EXCEPT ![c].status = st]
  PROVE  IsBook(book')
  <1>1. book[c] \in Orders /\ book[c].filled <= book[c].qty
    BY DEF IsBook
  <1> DEFINE o == [book[c] EXCEPT !.status = st]
  <1>2. o \in Orders /\ o.filled <= o.qty /\ o.status \notin OpenStatuses
    BY <1>1 DEF Orders, OpenStatuses, RetryStatuses
  <1>3. DOMAIN book' = DOMAIN book
        /\ \A d \in DOMAIN book : book'[d] = IF d = c THEN o ELSE book[d]
    OBVIOUS
  <1> HIDE DEF o
  <1> QED BY <1>2, <1>3 DEF IsBook

\* The last lot of an order fills it.
LEMMA FillType ==
  ASSUME IsBook(book), NEW c \in OpenOrders(book),
         book' = [book EXCEPT ![c].filled = @ + 1,
                              ![c].status = IF Remaining(book[c]) = 1 THEN "filled" ELSE @]
  PROVE  IsBook(book')
  <1> DEFINE st == IF Remaining(book[c]) = 1 THEN "filled" ELSE book[c].status
             n  == book[c].filled + 1
             o  == [[book[c] EXCEPT !.filled = n] EXCEPT !.status = st]
  <1>1. c \in DOMAIN book /\ book[c] \in Orders /\ book[c].filled < book[c].qty
    BY DEF OpenOrders, IsBook
  <1>2. n \in Nat /\ n <= book[c].qty /\ (st # "filled" => n < book[c].qty)
    BY <1>1 DEF Remaining, Orders
  <1>3. st \in OpenStatuses \cup {"filled"}
    BY DEF OpenOrders
  <1>4. /\ DOMAIN book' = DOMAIN book /\ book'[c] = o
        /\ \A d \in DOMAIN book : d # c => book'[d] = book[d]
    BY <1>1
  <1> HIDE DEF st, n
  <1>5. /\ o \in Orders /\ o.filled <= o.qty
        /\ o.status \in OpenStatuses => o.filled < o.qty
    BY <1>1, <1>2, <1>3 DEF Orders, OpenStatuses, RetryStatuses
  <1> HIDE DEF o
  <1> QED BY <1>1, <1>4, <1>5 DEF IsBook

\* A submitted order enters the book with nothing filled.
LEMMA PlaceType ==
  ASSUME IsBook(book), NEW c, Place(c), c.intent \in [sym : Symbols, side : Sides, qty : Nat \ {0}]
  PROVE IsBook(book')
  <1> DEFINE o == NewOrder(c.intent)
  <1>1. o \in Orders /\ o.filled < o.qty /\ o.filled <= o.qty
    BY DEF NewOrder, Orders, OpenStatuses
  <1>2. DOMAIN book' = DOMAIN book \cup {c}
        /\ \A d \in DOMAIN book' : book'[d] = IF d = c THEN o ELSE book[d]
    BY DEF Place
  <1> HIDE DEF o
  <1> QED
    BY <1>1, <1>2 DEF IsBook

\* Requests, stops and moves leave every type alone.
LEMMA StopType ==
  ASSUME Stop, LocalsOK PROVE LocalsOK'
  BY BlankLocals DEF Stop, Goto, LocalsOK

\* Cancelling any set of orders, wholly or in part, keeps the types.
LEMMA CancelAndStopType ==
  ASSUME TypeInv, NEW S, CancelAndStop(S) PROVE TypeInv'
  <1>1. PICK sent \in SUBSET S : (IF sent = S THEN UNCHANGED faults ELSE Fault)
                                 /\ book' = CancelRequested(sent)
    BY DEF CancelAndStop
  <1>2. IsBook(book') /\ faults' \in 0 .. MaxFaults
    BY <1>1, CancelType, BoundsAssumption DEF TypeInv, TypeOK, Fault
  <1> QED
    BY <1>2, StopType DEF CancelAndStop, TypeInv, TypeOK, world, durable

\* Reserving an intent starts or advances its attempt number.
LEMMA ReserveType ==
  ASSUME TypeInv, NEW i, ReserveIntent(i),
         i \in [sym : Symbols, side : Sides, qty : Nat \ {0}], plan \in Plans,
         UNCHANGED <<broker, world, plan, lastRebal, latch, done, faults>>
  PROVE  TypeInv'
  <1>1. \A j \in DOMAIN attempts' : attempts'[j] \in Nat \ {0}
    <2>1. NextAttempt(i) \in Nat \ {0}
      BY DEF TypeInv, TypeOK, NextAttempt
    <2> QED BY <2>1 DEF ReserveIntent, TypeInv, TypeOK
  <1>2. TypeOK'
    BY <1>1 DEF TypeInv, TypeOK, broker, world
  <1>3. ClientOrderId(plan, i, NextAttempt(i)).intent = i
    BY DEF ClientOrderId
  <1>4. LocalsOK'
    BY <1>3 DEF ReserveIntent, Goto, TypeInv, LocalsOK, Locals
  <1> QED BY <1>2, <1>4 DEF TypeInv

\* Reserving an intent, or leaving it to a later cycle, keeps the types.
LEMMA TryIntentType ==
  ASSUME TypeInv, pc # "submit", NEW i, TryIntent(i),
         i \in [sym : Symbols, side : Sides, qty : Nat \ {0}], plan \in Plans,
         UNCHANGED <<broker, world, plan, lastRebal, latch, done, faults>>
  PROVE  TypeInv'
  <1>1. CASE ReserveIntent(i)
    BY <1>1, ReserveType
  <1>2. CASE Block(i.sym) /\ UNCHANGED <<pc, attempts>>
    <2>1. TypeOK'
      BY <1>2 DEF TypeInv, TypeOK, broker, world
    <2>2. LocalsOK'
      BY <1>2 DEF Block, TypeInv, LocalsOK, Locals
    <2> QED BY <2>1, <2>2 DEF TypeInv
  <1> QED BY <1>1, <1>2 DEF TryIntent

\* After a submission the cycle goes back to the phase of its order.
LEMMA AfterSubmitType ==
  ASSUME LocalsOK, pc = "submit", NEW accepted \in BOOLEAN, AfterSubmit(accepted),
         plan' = plan
  PROVE  LocalsOK'
  <1>1. pc' \in Sides
    BY DEF LocalsOK, AfterSubmit, Goto
  <1>2. /\ DOMAIN run' = DOMAIN run
        /\ run'.tier = run.tier /\ run'.month = run.month
        /\ run'.pos = run.pos /\ run'.todo = run.todo
    BY DEF LocalsOK, Locals, AfterSubmit, Goto
  <1> QED BY <1>1, <1>2 DEF LocalsOK, Sides

\* Every action keeps the types.
LEMMA TypeStep == TypeInv /\ [Next]_vars => TypeInv'
  <1> SUFFICES ASSUME TypeInv, [Next]_vars PROVE TypeInv'
    OBVIOUS
  <1> USE DEF TypeInv
  <1>1. CASE CapacityPreflight
    <2>1. TypeOK'
      BY <1>1 DEF CapacityPreflight, TypeOK, broker, world, durable
    <2>2. LocalsOK'
      BY <1>1 DEF CapacityPreflight, Goto, LocalsOK, Locals, TypeOK, broker, world, durable
    <2> QED BY <2>1, <2>2
  <1>2. CASE BuyPreflightPasses
    <2>1. TypeOK'
      BY <1>2 DEF BuyPreflightPasses, TypeOK, broker, world, durable
    <2>2. LocalsOK'
      BY <1>2 DEF BuyPreflightPasses, Goto, LocalsOK, Locals, TypeOK, broker, world, durable
    <2> QED BY <2>1, <2>2
  <1>3. CASE ReadOrders
    <2>1. TypeOK'
      BY <1>3 DEF ReadOrders, TypeOK, broker, world, durable
    <2>2. LocalsOK'
      BY <1>3, MonthType, BoundsAssumption DEF ReadOrders, Goto, LocalsOK, Locals, TypeOK, broker, world, durable
    <2> QED BY <2>1, <2>2
  <1>4. CASE ReadPositions
    <2>1. TypeOK'
      BY <1>4 DEF ReadPositions, TypeOK, broker, world, durable
    <2>2. LocalsOK'
      BY <1>4 DEF ReadPositions, Goto, LocalsOK, Locals, TypeOK, broker, world, durable
    <2> QED BY <2>1, <2>2
  <1>5. CASE SellCapacityHolds
    <2>1. TypeOK'
      BY <1>5 DEF SellCapacityHolds, TypeOK, broker, world, durable
    <2>2. LocalsOK'
      BY <1>5 DEF SellCapacityHolds, Goto, LocalsOK, Locals, TypeOK, broker, world, durable
    <2> QED BY <2>1, <2>2
  <1>6. CASE StayRiskOn
    <2>1. TypeOK'
      BY <1>6 DEF StayRiskOn, TypeOK, broker, world, durable
    <2>2. LocalsOK'
      BY <1>6 DEF StayRiskOn, Goto, LocalsOK, Locals, TypeOK, broker, world, durable
    <2> QED BY <2>1, <2>2
  <1>7. CASE NothingToCancel
    <2>1. TypeOK'
      BY <1>7 DEF NothingToCancel, TypeOK, broker, world, durable
    <2>2. LocalsOK'
      BY <1>7 DEF NothingToCancel, Goto, LocalsOK, Locals, TypeOK, broker, world, durable
    <2> QED BY <2>1, <2>2
  <1>8. CASE UseStoredPlan
    <2>1. TypeOK'
      BY <1>8 DEF UseStoredPlan, TypeOK, broker, world, durable
    <2>2. LocalsOK'
      BY <1>8 DEF UseStoredPlan, Goto, LocalsOK, Locals, TypeOK, broker, world, durable
    <2> QED BY <2>1, <2>2
  <1>9. CASE ReadAccount
    <2>1. TypeOK'
      BY <1>9 DEF ReadAccount, TypeOK, broker, world, durable
    <2>2. LocalsOK'
      BY <1>9 DEF ReadAccount, Goto, LocalsOK, Locals, TypeOK, broker, world, durable, DirectionalLongs
    <2> QED BY <2>1, <2>2
  <1>10. CASE BuysDone
    <2>1. TypeOK'
      BY <1>10 DEF BuysDone, TypeOK, broker, world, durable
    <2>2. LocalsOK'
      BY <1>10 DEF BuysDone, Goto, LocalsOK, Locals, TypeOK, broker, world, durable
    <2> QED BY <2>1, <2>2
  <1>11. CASE SellsDone
    <2>1. TypeOK'
      BY <1>11 DEF SellsDone, TypeOK, broker, world, durable
    <2>2. pc' \in {"buy", "finish"} /\ plan' = plan /\ pc = "sell"
      BY <1>11 DEF SellsDone, Goto, durable
    <2>3. DOMAIN run' = Locals /\ run'.tier = run.tier /\ run'.month = run.month
          /\ run'.pos = run.pos /\ run'.todo \subseteq Symbols
      BY <1>11 DEF SellsDone, Goto, LocalsOK, Locals
    <2>4. LocalsOK'
      BY <2>2, <2>3 DEF LocalsOK
    <2> QED BY <2>1, <2>4
  <1>12. CASE WaitForStalePlan
    BY <1>12, StopType DEF WaitForStalePlan, TypeOK, broker, world, durable
  <1>13. CASE AbortInvalidPlan
    BY <1>13, StopType DEF AbortInvalidPlan, TypeOK, broker, world, durable
  <1>14. CASE DeferPlan
    BY <1>14, StopType DEF DeferPlan, TypeOK, broker, world, durable
  <1>15. CASE AlreadyRebalanced
    BY <1>15, StopType DEF AlreadyRebalanced, TypeOK, broker, world, durable
  <1>16. CASE KeepPlan
    BY <1>16, StopType DEF KeepPlan, TypeOK, broker, world, durable
  <1>17. CASE ReconcileSellCapacity
    BY <1>17, CancelAndStopType DEF ReconcileSellCapacity
  <1>18. CASE BuyPreflightCancels
    BY <1>18, CancelAndStopType DEF BuyPreflightCancels
  <1>19. CASE CancelUntrusted
    BY <1>19, CancelAndStopType DEF CancelUntrusted
  <1>20. CASE StartCycle
    <2>1. faults' \in 0 .. MaxFaults
      BY <1>20, BoundsAssumption DEF StartCycle, Fault, TypeOK
    <2>2. TypeOK'
      BY <1>20, <2>1 DEF StartCycle, TypeOK, broker, world, durable
    <2>3. PICK available \in BOOLEAN, t \in Tiers :
            Goto("capacity", [Blank EXCEPT !.tier = t, !.pos = pos,
                                           !.allow = available /\ t # "HALT"])
      BY <1>20 DEF StartCycle
    <2>4. LocalsOK'
      BY <2>3, BlankLocals DEF Goto, LocalsOK, Locals, TypeOK
    <2> QED BY <2>2, <2>4
  <1>21. CASE PersistRiskOff
    <2>1. plan' \in Plans \cup {NoPlan}
          /\ \A i \in DOMAIN attempts' : attempts'[i] \in Nat \ {0}
      BY <1>21, ZeroPlanType DEF PersistRiskOff, StorePlan, NoAttempts, TypeOK
    <2>2. TypeOK'
      BY <1>21, <2>1 DEF PersistRiskOff, TypeOK, broker, world
    <2>3. LocalsOK'
      BY <1>21 DEF PersistRiskOff, Goto, LocalsOK, Locals
    <2> QED BY <2>2, <2>3
  <1>22. CASE DropStalePlan
    BY <1>22 DEF DropStalePlan, StorePlan, NoAttempts, TypeOK, LocalsOK, broker, world
  <1>23. CASE RescalePlan
    <2>1. plan \in Plans
      BY <1>23 DEF RescalePlan, StricterTier, TypeOK
    <2>2. NewPlan(plan.month, plan.signal, Sized(plan.weights, "CAUTIOUS"), FALSE, "CAUTIOUS")
            \in Plans
      BY <2>1, SizedType, NewPlanType DEF Plans, Tiers
    <2>3. TypeOK'
      BY <1>23, <2>2 DEF RescalePlan, StorePlan, NoAttempts, TypeOK, broker, world
    <2>4. LocalsOK'
      BY <1>23, <2>2 DEF RescalePlan, StorePlan, Goto, LocalsOK
    <2> QED BY <2>3, <2>4
  <1>24. CASE ConsumeLatch
    BY <1>24 DEF ConsumeLatch, TypeOK, LocalsOK, broker, world
  <1>25. CASE FreezeNewPlan
    <2>1. PICK w \in Targets :
            StorePlan(NewPlan(run.month, day, Sized(w, run.tier), FALSE, run.tier))
      BY <1>25 DEF FreezeNewPlan
    <2>2. w \in [Symbols -> Nat] /\ day \in Nat
      BY TargetsAssumption, BoundsAssumption DEF TypeOK
    <2>3. plan' \in Plans
      BY <2>1, <2>2, SizedType, NewPlanType DEF StorePlan, LocalsOK
    <2>4. TypeOK'
      BY <1>25, <2>1, <2>3 DEF FreezeNewPlan, StorePlan, NoAttempts, TypeOK, broker, world
    <2>5. LocalsOK'
      BY <1>25, <2>3 DEF FreezeNewPlan, Goto, LocalsOK
    <2> QED BY <2>4, <2>5
  <1>26. CASE ReplaceByZeroPlan
    <2>1. TypeOK'
      BY <1>26, ZeroPlanType DEF ReplaceByZeroPlan, StorePlan, NoAttempts, TypeOK, broker, world
    <2>2. LocalsOK'
      BY <1>26, ZeroPlanType DEF ReplaceByZeroPlan, StorePlan, Goto, LocalsOK
    <2> QED BY <2>1, <2>2
  <1>27. CASE SelectSell
    <2> USE <1>27 DEF SelectSell
    <2>1. PICK s \in run.todo :
            \/ (Block(s) \/ Skip(s)) /\ UNCHANGED <<pc, attempts>>
            \/ \E q \in 1 .. run.pos[s] : TryIntent(Intent(s, "sell", q))
      OBVIOUS
    <2>2. s \in Symbols /\ run.pos[s] \in Int /\ plan \in Plans
      BY DEF LocalsOK
    <2>3. CASE (Block(s) \/ Skip(s)) /\ UNCHANGED <<pc, attempts>>
      <3>1. TypeOK'
        BY <2>3 DEF TypeOK, broker, world
      <3>2. LocalsOK'
        BY <2>3 DEF Block, Skip, LocalsOK, Locals
      <3> QED BY <3>1, <3>2
    <2>4. CASE \E q \in 1 .. run.pos[s] : TryIntent(Intent(s, "sell", q))
      <3>1. PICK q \in 1 .. run.pos[s] : TryIntent(Intent(s, "sell", q))
        BY <2>4
      <3>2. Intent(s, "sell", q) \in [sym : Symbols, side : Sides, qty : Nat \ {0}]
        BY <2>2 DEF Intent, Sides
      <3> QED BY <3>1, <3>2, <2>2, TryIntentType
    <2> QED BY <2>1, <2>3, <2>4
  <1>28. CASE SelectBuy
    <2> USE <1>28 DEF SelectBuy
    <2>1. PICK s \in run.todo :
            \/ (Block(s) \/ Skip(s) \/ run' = [run EXCEPT !.todo = {}, !.blocked = TRUE])
               /\ UNCHANGED <<pc, attempts>>
            \/ \E q \in 1 .. plan.weights[s] : TryIntent(Intent(s, "buy", q))
      OBVIOUS
    <2>2. s \in Symbols /\ plan \in Plans /\ plan.weights[s] \in Nat
      BY DEF LocalsOK, Plans
    <2>3. CASE (Block(s) \/ Skip(s) \/ run' = [run EXCEPT !.todo = {}, !.blocked = TRUE])
               /\ UNCHANGED <<pc, attempts>>
      <3>1. TypeOK'
        BY <2>3 DEF TypeOK, broker, world
      <3>2. LocalsOK'
        BY <2>3 DEF Block, Skip, LocalsOK, Locals
      <3> QED BY <3>1, <3>2
    <2>4. CASE \E q \in 1 .. plan.weights[s] : TryIntent(Intent(s, "buy", q))
      <3>1. PICK q \in 1 .. plan.weights[s] : TryIntent(Intent(s, "buy", q))
        BY <2>4
      <3>2. Intent(s, "buy", q) \in [sym : Symbols, side : Sides, qty : Nat \ {0}]
        BY <2>2 DEF Intent, Sides
      <3> QED BY <3>1, <3>2, <2>2, TryIntentType
    <2> QED BY <2>1, <2>3, <2>4
  <1>29. CASE SubmitAccepted
    <2>1. IsBook(book')
      BY <1>29, PlaceType DEF SubmitAccepted, LocalsOK, TypeOK
    <2>2. TypeOK'
      BY <1>29, <2>1 DEF SubmitAccepted, TypeOK, world, durable
    <2>3. LocalsOK'
      BY <1>29, AfterSubmitType DEF SubmitAccepted, durable
    <2> QED BY <2>2, <2>3
  <1>30. CASE SubmitRefused
    <2>1. TypeOK'
      BY <1>30 DEF SubmitRefused, TypeOK, broker, world, durable
    <2>2. LocalsOK'
      BY <1>30, AfterSubmitType DEF SubmitRefused, durable
    <2> QED BY <2>1, <2>2
  <1>31. CASE CompletePlan
    <2>1. plan \in Plans
      BY <1>31 DEF CompletePlan, LocalsOK
    <2>2. TypeOK'
      BY <1>31, <2>1 DEF CompletePlan, StorePlan, NoAttempts, Plans, TypeOK, broker, world
    <2>3. LocalsOK'
      BY <1>31, StopType DEF CompletePlan
    <2> QED BY <2>2, <2>3
  <1>32. CASE ReadFails
    <2>1. IsBook(book') /\ faults' \in 0 .. MaxFaults
      BY <1>32, CancelType, BoundsAssumption DEF ReadFails, Fault, TypeOK
    <2>2. TypeOK'
      BY <1>32, <2>1 DEF ReadFails, TypeOK, world, durable
    <2> QED BY <1>32, <2>2, StopType DEF ReadFails
  <1>33. CASE PlanningFails
    <2>1. faults' \in 0 .. MaxFaults
      BY <1>33, BoundsAssumption DEF PlanningFails, Fault, TypeOK
    <2>2. TypeOK'
      BY <1>33, <2>1 DEF PlanningFails, TypeOK, broker, world, durable
    <2> QED BY <1>33, <2>2, StopType DEF PlanningFails
  <1>34. CASE Crash
    <2>1. faults' \in 0 .. MaxFaults
      BY <1>34, BoundsAssumption DEF Crash, Fault, TypeOK
    <2>2. TypeOK'
      BY <1>34, <2>1 DEF Crash, TypeOK, broker, world, durable
    <2> QED BY <1>34, <2>2, StopType DEF Crash
  <1>35. CASE SymbolFails
    <2>1. faults' \in 0 .. MaxFaults
      BY <1>35, BoundsAssumption DEF SymbolFails, Fault, TypeOK
    <2>2. TypeOK'
      BY <1>35, <2>1 DEF SymbolFails, TypeOK, broker, world, durable
    <2>3. DOMAIN run' = DOMAIN run /\ run'.tier = run.tier /\ run'.month = run.month
          /\ run'.pos = run.pos /\ run'.todo \subseteq run.todo
      BY <1>35 DEF SymbolFails, LocalsOK, Locals
    <2>4. LocalsOK'
      BY <1>35, <2>3 DEF SymbolFails, LocalsOK, durable
    <2> QED BY <2>2, <2>4
  <1>36. CASE SubmitAmbiguous
    <2>1. IsBook(book') /\ faults' \in 0 .. MaxFaults
      BY <1>36, PlaceType, BoundsAssumption DEF SubmitAmbiguous, LocalsOK, Fault, TypeOK
    <2>2. TypeOK'
      BY <1>36, <2>1 DEF SubmitAmbiguous, TypeOK, world, durable
    <2>3. LocalsOK'
      BY <1>36, AfterSubmitType DEF SubmitAmbiguous, durable
    <2> QED BY <2>2, <2>3
  <1>37. CASE \E c \in DOMAIN book : FillLot(c)
    <2>1. PICK c \in DOMAIN book : FillLot(c)
      BY <1>37
    <2>2. IsBook(book')
      BY <2>1, FillType DEF FillLot, TypeOK
    <2>3. pos' \in [Symbols -> Int] /\ cash' \in Int
      BY <2>1 DEF FillLot, Signed, TypeOK, IsBook, Orders
    <2>4. TypeOK'
      BY <2>1, <2>2, <2>3 DEF FillLot, TypeOK, world, durable
    <2>5. LocalsOK'
      BY <2>1 DEF FillLot, LocalsOK, durable
    <2> QED BY <2>4, <2>5
  <1>38. CASE \E c \in DOMAIN book : ConfirmCancel(c)
    <2>1. PICK c \in DOMAIN book : ConfirmCancel(c)
      BY <1>38
    <2>2. IsBook(book')
      BY <2>1, CloseType DEF ConfirmCancel, TypeOK, RetryStatuses
    <2>3. faults' \in 0 .. MaxFaults
      BY <2>1, BoundsAssumption DEF ConfirmCancel, Fault, TypeOK
    <2>4. TypeOK'
      BY <2>1, <2>2, <2>3 DEF ConfirmCancel, TypeOK, world, durable
    <2>5. LocalsOK'
      BY <2>1 DEF ConfirmCancel, LocalsOK, durable
    <2> QED BY <2>4, <2>5
  <1>39. CASE \E c \in DOMAIN book : Expire(c)
    <2>1. PICK c \in DOMAIN book : Expire(c)
      BY <1>39
    <2>2. IsBook(book')
      BY <2>1, CloseType DEF Expire, TypeOK, RetryStatuses
    <2>3. faults' \in 0 .. MaxFaults
      BY <2>1, BoundsAssumption DEF Expire, Fault, TypeOK
    <2>4. TypeOK'
      BY <2>1, <2>2, <2>3 DEF Expire, TypeOK, world, durable
    <2>5. LocalsOK'
      BY <2>1 DEF Expire, LocalsOK, durable
    <2> QED BY <2>4, <2>5
  <1>40. CASE World
    <2> USE <1>40, BoundsAssumption
    <2>1. LocalsOK'
      BY DEF World, NextDay, Deploy, Reassess, CrossAverage, ToggleGate, LocalsOK, durable
    <2>2. moves' \in 0 .. MaxMoves /\ day' \in SessionsPerMonth .. MaxDay
          /\ release' \in 1 .. MaxRelease /\ tier' \in Tiers
      BY DEF World, NextDay, Deploy, Reassess, CrossAverage, ToggleGate, Move, TypeOK
    <2>3. above' \in BOOLEAN /\ gate' \in BOOLEAN
      BY DEF World, NextDay, Deploy, Reassess, CrossAverage, ToggleGate, TypeOK
    <2>4. UNCHANGED <<broker, durable, pc, run, faults>>
      BY DEF World, NextDay, Deploy, Reassess, CrossAverage, ToggleGate
    <2>5. TypeOK'
      BY <2>2, <2>3, <2>4 DEF TypeOK, broker, durable
    <2> QED BY <2>1, <2>5
  <1>41. CASE UNCHANGED vars
    BY <1>41 DEF vars, broker, world, durable, TypeOK, LocalsOK
  <1> QED
    BY <1>1, <1>2, <1>3, <1>4, <1>5, <1>6, <1>7, <1>8, <1>9, <1>10, <1>11, <1>12, <1>13, <1>14, <1>15, <1>16, <1>17, <1>18, <1>19, <1>20, <1>21, <1>22, <1>23, <1>24, <1>25, <1>26, <1>27, <1>28, <1>29, <1>30, <1>31, <1>32, <1>33, <1>34, <1>35, <1>36, <1>37, <1>38, <1>39, <1>40, <1>41
    DEF Next, Executor, Preflight, Snapshot, Decide, Trade, Failure, Broker

\* Every variable keeps its type; no order is filled beyond its size.
THEOREM TypeCorrect == Spec => []TypeOK
  <1>1. TypeInv => TypeOK
    BY DEF TypeInv
  <1> QED
    BY TypeInit, TypeStep, <1>1, PTL DEF Spec

(***************************************************************************)
(* The decision's snapshot.  Orders are read before positions,             *)
(* so when no order was working at the first read and none was sent since, *)
(* no fill can have moved a position between the reads or after them.      *)
(***************************************************************************)
SnapInv ==
  /\ pc = "positions" /\ run.orders = NoOrders => OpenOrders(book) = {}
  /\ SnapshotExact

\* A step of a cycle that leaves the account, and what the cycle read, alone.
LEMMA SnapFrame ==
  ASSUME SnapInv, UNCHANGED <<pos, book>>, pc \in Deciding \/ pc' \notin Deciding,
         pc' # "positions", run'.orders = run.orders, run'.pos = run.pos, Quiet' => Quiet
  PROVE  SnapInv'
  BY DEF SnapInv, SnapshotExact, OpenOrders

\* Nothing is claimed of a cycle that has stopped.
LEMMA SnapStop == ASSUME Stop PROVE SnapInv'
  BY DEF Stop, Goto, SnapInv, SnapshotExact, Deciding

\* Nor of a cycle that has sent an order or left one to a later cycle.
LEMMA SnapBlocked ==
  ASSUME run'.sold \/ run'.bought \/ run'.blocked, pc' # "positions" PROVE SnapInv'
  BY DEF SnapInv, SnapshotExact, Quiet

\* Whatever a submission answers, the cycle is no longer quiet.
LEMMA SnapSubmit ==
  ASSUME LocalsOK, pc = "submit", NEW accepted \in BOOLEAN, AfterSubmit(accepted)
  PROVE  SnapInv'
  <1>1. pc' \in Sides /\ pc' = run.current.intent.side
    BY DEF LocalsOK, AfterSubmit, Goto
  <1>2. run'.sold \/ run'.bought \/ run'.blocked
    BY <1>1 DEF LocalsOK, Locals, AfterSubmit, Goto, Sides
  <1> QED BY <1>1, <1>2, SnapBlocked DEF Sides

\* Reserving an intent moves no position and no order.
LEMMA SnapTryIntent ==
  ASSUME LocalsOK, SnapInv, NEW i, TryIntent(i), pc \in {"sell", "buy"},
         UNCHANGED <<pos, book>>
  PROVE  SnapInv'
  <1>1. CASE ReserveIntent(i)
    <2>1. /\ pc' = "submit" /\ run'.orders = run.orders /\ run'.pos = run.pos
          /\ run'.sold = run.sold /\ run'.bought = run.bought /\ run'.blocked = run.blocked
      BY <1>1 DEF ReserveIntent, Goto, LocalsOK, Locals
    <2> QED BY <2>1, SnapFrame DEF Deciding, Quiet
  <1>2. CASE Block(i.sym) /\ UNCHANGED <<pc, attempts>>
    BY <1>2, SnapBlocked DEF Block, LocalsOK, Locals
  <1> QED BY <1>1, <1>2 DEF TryIntent

\* While an order is working, nothing is claimed of the positions read.
LEMMA SnapBroker ==
  ASSUME SnapInv, OpenOrders(book) # {}, UNCHANGED <<pc, run>> PROVE SnapInv'
  BY DEF SnapInv, SnapshotExact, Quiet

\* Every action keeps the snapshot of a quiet cycle exact.
LEMMA SnapStep == TypeInv /\ SnapInv /\ [Next]_vars => SnapInv'
  <1> SUFFICES ASSUME TypeInv, SnapInv, [Next]_vars PROVE SnapInv'
    OBVIOUS
  <1>0. LocalsOK
    BY DEF TypeInv
  <1>1. CASE CapacityPreflight
    <2>1. /\ pc' # "positions" /\ (pc \in Deciding \/ pc' \notin Deciding)
          /\ UNCHANGED <<pos, book>>
      BY <1>1 DEF CapacityPreflight, Goto, Deciding, broker
    <2>2. /\ run'.orders = run.orders /\ run'.pos = run.pos
          /\ run'.sold = run.sold /\ run'.bought = run.bought /\ run'.blocked = run.blocked
      BY <1>1, <1>0 DEF CapacityPreflight, Goto, LocalsOK, Locals
    <2> QED BY <2>1, <2>2, SnapFrame DEF Quiet
  <1>2. CASE BuyPreflightPasses
    <2>1. /\ pc' # "positions" /\ (pc \in Deciding \/ pc' \notin Deciding)
          /\ UNCHANGED <<pos, book>>
      BY <1>2 DEF BuyPreflightPasses, Goto, Deciding, broker
    <2>2. /\ run'.orders = run.orders /\ run'.pos = run.pos
          /\ run'.sold = run.sold /\ run'.bought = run.bought /\ run'.blocked = run.blocked
      BY <1>2, <1>0 DEF BuyPreflightPasses, Goto, LocalsOK, Locals
    <2> QED BY <2>1, <2>2, SnapFrame DEF Quiet
  <1>3. CASE SellCapacityHolds
    <2>1. /\ pc' # "positions" /\ (pc \in Deciding \/ pc' \notin Deciding)
          /\ UNCHANGED <<pos, book>>
      BY <1>3 DEF SellCapacityHolds, Goto, Deciding, broker
    <2>2. /\ run'.orders = run.orders /\ run'.pos = run.pos
          /\ run'.sold = run.sold /\ run'.bought = run.bought /\ run'.blocked = run.blocked
      BY <1>3, <1>0 DEF SellCapacityHolds, Goto, LocalsOK, Locals
    <2> QED BY <2>1, <2>2, SnapFrame DEF Quiet
  <1>4. CASE StayRiskOn
    <2>1. /\ pc' # "positions" /\ (pc \in Deciding \/ pc' \notin Deciding)
          /\ UNCHANGED <<pos, book>>
      BY <1>4 DEF StayRiskOn, Goto, Deciding, broker
    <2>2. /\ run'.orders = run.orders /\ run'.pos = run.pos
          /\ run'.sold = run.sold /\ run'.bought = run.bought /\ run'.blocked = run.blocked
      BY <1>4, <1>0 DEF StayRiskOn, Goto, LocalsOK, Locals
    <2> QED BY <2>1, <2>2, SnapFrame DEF Quiet
  <1>5. CASE NothingToCancel
    <2>1. /\ pc' # "positions" /\ (pc \in Deciding \/ pc' \notin Deciding)
          /\ UNCHANGED <<pos, book>>
      BY <1>5 DEF NothingToCancel, Goto, Deciding, broker
    <2>2. /\ run'.orders = run.orders /\ run'.pos = run.pos
          /\ run'.sold = run.sold /\ run'.bought = run.bought /\ run'.blocked = run.blocked
      BY <1>5, <1>0 DEF NothingToCancel, Goto, LocalsOK, Locals
    <2> QED BY <2>1, <2>2, SnapFrame DEF Quiet
  <1>6. CASE UseStoredPlan
    <2>1. /\ pc' # "positions" /\ (pc \in Deciding \/ pc' \notin Deciding)
          /\ UNCHANGED <<pos, book>>
      BY <1>6 DEF UseStoredPlan, Goto, Deciding, broker
    <2>2. /\ run'.orders = run.orders /\ run'.pos = run.pos
          /\ run'.sold = run.sold /\ run'.bought = run.bought /\ run'.blocked = run.blocked
      BY <1>6, <1>0 DEF UseStoredPlan, Goto, LocalsOK, Locals
    <2> QED BY <2>1, <2>2, SnapFrame DEF Quiet
  <1>7. CASE ReadAccount
    <2>1. /\ pc' # "positions" /\ (pc \in Deciding \/ pc' \notin Deciding)
          /\ UNCHANGED <<pos, book>>
      BY <1>7 DEF ReadAccount, Goto, Deciding, broker
    <2>2. /\ run'.orders = run.orders /\ run'.pos = run.pos
          /\ run'.sold = run.sold /\ run'.bought = run.bought /\ run'.blocked = run.blocked
      BY <1>7, <1>0 DEF ReadAccount, Goto, LocalsOK, Locals
    <2> QED BY <2>1, <2>2, SnapFrame DEF Quiet
  <1>8. CASE BuysDone
    <2>1. /\ pc' # "positions" /\ (pc \in Deciding \/ pc' \notin Deciding)
          /\ UNCHANGED <<pos, book>>
      BY <1>8 DEF BuysDone, Goto, Deciding, broker
    <2>2. /\ run'.orders = run.orders /\ run'.pos = run.pos
          /\ run'.sold = run.sold /\ run'.bought = run.bought /\ run'.blocked = run.blocked
      BY <1>8, <1>0 DEF BuysDone, Goto, LocalsOK, Locals
    <2> QED BY <2>1, <2>2, SnapFrame DEF Quiet
  <1>9. CASE SellsDone
    <2>1. /\ pc' # "positions" /\ (pc \in Deciding \/ pc' \notin Deciding)
          /\ UNCHANGED <<pos, book>>
      BY <1>9 DEF SellsDone, Goto, Deciding, broker
    <2>2. /\ run'.orders = run.orders /\ run'.pos = run.pos
          /\ run'.sold = run.sold /\ run'.bought = run.bought /\ run'.blocked = run.blocked
      BY <1>9, <1>0 DEF SellsDone, Goto, LocalsOK, Locals
    <2> QED BY <2>1, <2>2, SnapFrame DEF Quiet
  <1>10. CASE PersistRiskOff
    <2>1. /\ pc' # "positions" /\ (pc \in Deciding \/ pc' \notin Deciding)
          /\ UNCHANGED <<pos, book>>
      BY <1>10 DEF PersistRiskOff, Goto, Deciding, broker
    <2>2. /\ run'.orders = run.orders /\ run'.pos = run.pos
          /\ run'.sold = run.sold /\ run'.bought = run.bought /\ run'.blocked = run.blocked
      BY <1>10, <1>0 DEF PersistRiskOff, Goto, LocalsOK, Locals
    <2> QED BY <2>1, <2>2, SnapFrame DEF Quiet
  <1>11. CASE RescalePlan
    <2>1. /\ pc' # "positions" /\ (pc \in Deciding \/ pc' \notin Deciding)
          /\ UNCHANGED <<pos, book>>
      BY <1>11 DEF RescalePlan, Goto, Deciding, broker
    <2>2. /\ run'.orders = run.orders /\ run'.pos = run.pos
          /\ run'.sold = run.sold /\ run'.bought = run.bought /\ run'.blocked = run.blocked
      BY <1>11, <1>0 DEF RescalePlan, Goto, LocalsOK, Locals
    <2> QED BY <2>1, <2>2, SnapFrame DEF Quiet
  <1>12. CASE FreezeNewPlan
    <2>1. /\ pc' # "positions" /\ (pc \in Deciding \/ pc' \notin Deciding)
          /\ UNCHANGED <<pos, book>>
      BY <1>12 DEF FreezeNewPlan, Goto, Deciding, broker, NoPlanRiskOn
    <2>2. /\ run'.orders = run.orders /\ run'.pos = run.pos
          /\ run'.sold = run.sold /\ run'.bought = run.bought /\ run'.blocked = run.blocked
      BY <1>12, <1>0 DEF FreezeNewPlan, Goto, LocalsOK, Locals
    <2> QED BY <2>1, <2>2, SnapFrame DEF Quiet
  <1>13. CASE ReplaceByZeroPlan
    <2>1. /\ pc' # "positions" /\ (pc \in Deciding \/ pc' \notin Deciding)
          /\ UNCHANGED <<pos, book>>
      BY <1>13 DEF ReplaceByZeroPlan, Goto, Deciding, broker
    <2>2. /\ run'.orders = run.orders /\ run'.pos = run.pos
          /\ run'.sold = run.sold /\ run'.bought = run.bought /\ run'.blocked = run.blocked
      BY <1>13, <1>0 DEF ReplaceByZeroPlan, Goto, LocalsOK, Locals
    <2> QED BY <2>1, <2>2, SnapFrame DEF Quiet
  <1>14. CASE DropStalePlan
    <2>1. /\ pc' # "positions" /\ (pc \in Deciding \/ pc' \notin Deciding)
          /\ UNCHANGED <<pos, book>>
      BY <1>14 DEF DropStalePlan, Goto, Deciding, broker
    <2>2. /\ run'.orders = run.orders /\ run'.pos = run.pos
          /\ run'.sold = run.sold /\ run'.bought = run.bought /\ run'.blocked = run.blocked
      BY <1>14, <1>0 DEF DropStalePlan, Goto, LocalsOK, Locals
    <2> QED BY <2>1, <2>2, SnapFrame DEF Quiet
  <1>15. CASE ConsumeLatch
    <2>1. /\ pc' # "positions" /\ (pc \in Deciding \/ pc' \notin Deciding)
          /\ UNCHANGED <<pos, book>>
      BY <1>15 DEF ConsumeLatch, Goto, Deciding, broker
    <2>2. /\ run'.orders = run.orders /\ run'.pos = run.pos
          /\ run'.sold = run.sold /\ run'.bought = run.bought /\ run'.blocked = run.blocked
      BY <1>15, <1>0 DEF ConsumeLatch, Goto, LocalsOK, Locals
    <2> QED BY <2>1, <2>2, SnapFrame DEF Quiet
  <1>16. CASE WaitForStalePlan
    BY <1>16, SnapStop DEF WaitForStalePlan
  <1>17. CASE AbortInvalidPlan
    BY <1>17, SnapStop DEF AbortInvalidPlan
  <1>18. CASE DeferPlan
    BY <1>18, SnapStop DEF DeferPlan
  <1>19. CASE AlreadyRebalanced
    BY <1>19, SnapStop DEF AlreadyRebalanced
  <1>20. CASE KeepPlan
    BY <1>20, SnapStop DEF KeepPlan
  <1>21. CASE CompletePlan
    BY <1>21, SnapStop DEF CompletePlan
  <1>22. CASE ReadFails
    BY <1>22, SnapStop DEF ReadFails
  <1>23. CASE PlanningFails
    BY <1>23, SnapStop DEF PlanningFails
  <1>24. CASE Crash
    BY <1>24, SnapStop DEF Crash
  <1>25. CASE ReconcileSellCapacity
    BY <1>25, SnapStop DEF ReconcileSellCapacity, CancelAndStop
  <1>26. CASE BuyPreflightCancels
    BY <1>26, SnapStop DEF BuyPreflightCancels, CancelAndStop
  <1>27. CASE CancelUntrusted
    BY <1>27, SnapStop DEF CancelUntrusted, CancelAndStop
  <1>28. CASE StartCycle
    BY <1>28 DEF StartCycle, Goto, SnapInv, SnapshotExact, Deciding
  <1>29. CASE ReadOrders
    <2>1. run'.orders = [c \in OpenOrders(book) |-> book[c]] /\ pc' = "positions" /\ book' = book
      BY <1>29, <1>0 DEF ReadOrders, Goto, LocalsOK, Locals, broker
    <2>2. run'.orders = NoOrders => OpenOrders(book) = {}
      BY <2>1 DEF NoOrders
    <2> QED BY <2>1, <2>2 DEF SnapInv, SnapshotExact, Deciding, OpenOrders
  <1>30. CASE ReadPositions
    <2>1. /\ run'.pos = pos /\ run'.orders = run.orders /\ pc = "positions"
          /\ pc' = "reconcile" /\ UNCHANGED <<pos, book>>
      BY <1>30, <1>0 DEF ReadPositions, Goto, LocalsOK, Locals, broker
    <2> QED BY <2>1 DEF SnapInv, SnapshotExact, Quiet, OpenOrders
  <1>31. CASE SelectSell
    <2> USE <1>31, <1>0 DEF SelectSell
    <2>1. PICK s \in run.todo :
            \/ (Block(s) \/ Skip(s))
               /\ UNCHANGED <<pc, attempts>>
            \/ \E q \in 1 .. run.pos[s] : TryIntent(Intent(s, "sell", q))
      OBVIOUS
    <2>2. UNCHANGED <<pos, book>> /\ pc \in {"sell", "buy"}
      BY DEF broker
    <2>3. CASE Skip(s) /\ UNCHANGED <<pc, attempts>>
      <3>1. /\ run'.orders = run.orders /\ run'.pos = run.pos
            /\ run'.sold = run.sold /\ run'.bought = run.bought /\ run'.blocked = run.blocked
        BY <2>3 DEF Skip, LocalsOK, Locals
      <3> QED BY <2>2, <2>3, <3>1, SnapFrame DEF Deciding, Quiet
    <2>4. CASE (Block(s)) /\ UNCHANGED <<pc, attempts>>
      BY <2>2, <2>4, SnapBlocked DEF Block, LocalsOK, Locals
    <2>5. CASE \E q \in 1 .. run.pos[s] : TryIntent(Intent(s, "sell", q))
      BY <2>2, <2>5, SnapTryIntent
    <2> QED BY <2>1, <2>3, <2>4, <2>5
  <1>32. CASE SelectBuy
    <2> USE <1>32, <1>0 DEF SelectBuy
    <2>1. PICK s \in run.todo :
            \/ (Block(s) \/ Skip(s) \/ run' = [run EXCEPT !.todo = {}, !.blocked = TRUE])
               /\ UNCHANGED <<pc, attempts>>
            \/ \E q \in 1 .. plan.weights[s] : TryIntent(Intent(s, "buy", q))
      OBVIOUS
    <2>2. UNCHANGED <<pos, book>> /\ pc \in {"sell", "buy"}
      BY DEF broker
    <2>3. CASE Skip(s) /\ UNCHANGED <<pc, attempts>>
      <3>1. /\ run'.orders = run.orders /\ run'.pos = run.pos
            /\ run'.sold = run.sold /\ run'.bought = run.bought /\ run'.blocked = run.blocked
        BY <2>3 DEF Skip, LocalsOK, Locals
      <3> QED BY <2>2, <2>3, <3>1, SnapFrame DEF Deciding, Quiet
    <2>4. CASE (Block(s) \/ run' = [run EXCEPT !.todo = {}, !.blocked = TRUE]) /\ UNCHANGED <<pc, attempts>>
      BY <2>2, <2>4, SnapBlocked DEF Block, LocalsOK, Locals
    <2>5. CASE \E q \in 1 .. plan.weights[s] : TryIntent(Intent(s, "buy", q))
      BY <2>2, <2>5, SnapTryIntent
    <2> QED BY <2>1, <2>3, <2>4, <2>5
  <1>33. CASE SubmitAccepted
    BY <1>33, <1>0, SnapSubmit DEF SubmitAccepted
  <1>34. CASE SubmitRefused
    BY <1>34, <1>0, SnapSubmit DEF SubmitRefused
  <1>35. CASE SubmitAmbiguous
    BY <1>35, <1>0, SnapSubmit DEF SubmitAmbiguous
  <1>36. CASE SymbolFails
    <2>1. run'.blocked /\ pc' \in {"sell", "buy"}
      BY <1>36, <1>0 DEF SymbolFails, LocalsOK, Locals
    <2> QED BY <2>1, SnapBlocked
  <1>37. CASE \E c \in DOMAIN book : FillLot(c)
    BY <1>37, SnapBroker DEF FillLot
  <1>38. CASE \E c \in DOMAIN book : ConfirmCancel(c)
    BY <1>38, SnapBroker DEF ConfirmCancel
  <1>39. CASE \E c \in DOMAIN book : Expire(c)
    BY <1>39, SnapBroker DEF Expire
  <1>40. CASE World
    <2>1. UNCHANGED <<pos, book, pc, run>>
      BY <1>40 DEF World, NextDay, Deploy, Reassess, CrossAverage, ToggleGate, broker
    <2> QED BY <2>1 DEF SnapInv, SnapshotExact, Quiet, OpenOrders
  <1>41. CASE UNCHANGED vars
    BY <1>41 DEF vars, broker, SnapInv, SnapshotExact, Quiet, OpenOrders
  <1> QED
    BY <1>1, <1>2, <1>3, <1>4, <1>5, <1>6, <1>7, <1>8, <1>9, <1>10, <1>11, <1>12,
       <1>13, <1>14, <1>15, <1>16, <1>17, <1>18, <1>19, <1>20, <1>21, <1>22, <1>23,
       <1>24, <1>25, <1>26, <1>27, <1>28, <1>29, <1>30, <1>31, <1>32, <1>33, <1>34,
       <1>35, <1>36, <1>37, <1>38, <1>39, <1>40, <1>41
    DEF Next, Executor, Preflight, Snapshot, Decide, Trade, Failure, Broker

\* A cycle that read no working order and sent none decides on the positions
\* the account really has, under every interleaving of fills and failures.
THEOREM SnapshotCorrect == Spec => []SnapshotExact
  <1>1. Init => SnapInv
    BY DEF Init, SnapInv, SnapshotExact, Deciding
  <1>2. SnapInv => SnapshotExact
    BY DEF SnapInv
  <1> QED
    BY TypeInit, TypeStep, <1>1, SnapStep, <1>2, PTL DEF Spec

(***************************************************************************)
(* Risk-off intent.  Without the hard SMA200 gate, and                     *)
(* starting from plans of the current schema, a zero-target plan is always *)
(* one that HALT froze, and the tier it carries keeps every other branch   *)
(* away from it until the account is in cash.                              *)
(***************************************************************************)
SoundPlan(p) == p.valid /\ (p.riskOff => p.tier = "HALT" /\ p.weights = Flat)

RiskInv ==
  /\ plan # NoPlan => SoundPlan(plan)
  /\ run.riskOff => run.tier = "HALT"

\* What a step has to show: the invariant, and intent given up only in cash.
RiskStep ==
  /\ RiskInv'
  /\ ZeroTargetIntent /\ ~ZeroTargetIntent' => pos = Flat /\ OpenOrders(book) = {}

\* A step that keeps the plan, and the tier of a risk-off decision.
LEMMA RiskFrame ==
  ASSUME RiskInv, UNCHANGED plan, run'.riskOff => run.riskOff /\ run'.tier = run.tier
  PROVE  RiskStep
  BY DEF RiskInv, RiskStep, ZeroTargetIntent

\* A cycle that stops leaves the stored plan as it is.
LEMMA RiskStop == ASSUME RiskInv, Stop, UNCHANGED plan PROVE RiskStep
  BY BlankLocals, RiskFrame DEF Stop, Goto

\* A plan is sound when only HALT freezes a zero target.
LEMMA NewPlanSound ==
  ASSUME NEW m, NEW sig, NEW w, NEW b \in BOOLEAN, NEW t, b => t = "HALT" /\ w = Flat
  PROVE  SoundPlan(NewPlan(m, sig, w, b, t))
  BY DEF SoundPlan, NewPlan

\* Only a quiet cycle whose positions match the plan retires it.
LEMMA RiskComplete ==
  ASSUME TypeInv, SnapInv, RiskInv, CompletePlan PROVE RiskStep
  <1>1. RiskInv'
    BY BlankLocals DEF CompletePlan, StorePlan, Stop, Goto, RiskInv
  <1>2. OpenOrders(book) = {} /\ run.pos = pos
    BY DEF CompletePlan, SnapInv, SnapshotExact, Deciding, Quiet
  <1>3. ASSUME ZeroTargetIntent PROVE pos = Flat
    <2>1. \A s \in Symbols : pos[s] = Flat[s]
      BY <1>2, <1>3 DEF CompletePlan, Converged, ZeroTargetIntent
    <2> QED BY <2>1 DEF Flat, TypeInv, TypeOK
  <1> QED BY <1>1, <1>2, <1>3 DEF RiskStep

\* Reserving an intent does not touch the plan.
LEMMA RiskTryIntent ==
  ASSUME LocalsOK, RiskInv, NEW i, TryIntent(i), UNCHANGED plan PROVE RiskStep
  <1>1. run'.riskOff = run.riskOff /\ run'.tier = run.tier
    BY DEF TryIntent, ReserveIntent, Block, Goto, LocalsOK, Locals
  <1> QED BY <1>1, RiskFrame

\* Submitting an order does not touch the plan.
LEMMA RiskSubmit ==
  ASSUME LocalsOK, RiskInv, NEW accepted, AfterSubmit(accepted), UNCHANGED plan
  PROVE  RiskStep
  <1>1. run'.riskOff = run.riskOff /\ run'.tier = run.tier
    BY DEF AfterSubmit, Goto, LocalsOK, Locals
  <1> QED BY <1>1, RiskFrame

\* Every action keeps risk-off intent until the account is in cash.
LEMMA RiskNext ==
  ASSUME ~HardGate PROVE TypeInv /\ SnapInv /\ RiskInv /\ [Next]_vars => RiskStep
  <1> SUFFICES ASSUME TypeInv, SnapInv, RiskInv, [Next]_vars PROVE RiskStep
    OBVIOUS
  <1>0. LocalsOK
    BY DEF TypeInv
  <1>1. CASE CapacityPreflight
    <2>1. UNCHANGED plan /\ run'.riskOff = run.riskOff /\ run'.tier = run.tier
      BY <1>1, <1>0 DEF CapacityPreflight, Goto, LocalsOK, Locals, durable
    <2> QED BY <2>1, RiskFrame
  <1>2. CASE BuyPreflightPasses
    <2>1. UNCHANGED plan /\ run'.riskOff = run.riskOff /\ run'.tier = run.tier
      BY <1>2, <1>0 DEF BuyPreflightPasses, Goto, LocalsOK, Locals, durable
    <2> QED BY <2>1, RiskFrame
  <1>3. CASE SellCapacityHolds
    <2>1. UNCHANGED plan /\ run'.riskOff = run.riskOff /\ run'.tier = run.tier
      BY <1>3, <1>0 DEF SellCapacityHolds, Goto, LocalsOK, Locals, durable
    <2> QED BY <2>1, RiskFrame
  <1>4. CASE StayRiskOn
    <2>1. UNCHANGED plan /\ run'.riskOff = run.riskOff /\ run'.tier = run.tier
      BY <1>4, <1>0 DEF StayRiskOn, Goto, LocalsOK, Locals, durable
    <2> QED BY <2>1, RiskFrame
  <1>5. CASE NothingToCancel
    <2>1. UNCHANGED plan /\ run'.riskOff = run.riskOff /\ run'.tier = run.tier
      BY <1>5, <1>0 DEF NothingToCancel, Goto, LocalsOK, Locals, durable
    <2> QED BY <2>1, RiskFrame
  <1>6. CASE UseStoredPlan
    <2>1. UNCHANGED plan /\ run'.riskOff = run.riskOff /\ run'.tier = run.tier
      BY <1>6, <1>0 DEF UseStoredPlan, Goto, LocalsOK, Locals, durable
    <2> QED BY <2>1, RiskFrame
  <1>7. CASE ReadAccount
    <2>1. UNCHANGED plan /\ run'.riskOff = run.riskOff /\ run'.tier = run.tier
      BY <1>7, <1>0 DEF ReadAccount, Goto, LocalsOK, Locals, durable
    <2> QED BY <2>1, RiskFrame
  <1>8. CASE BuysDone
    <2>1. UNCHANGED plan /\ run'.riskOff = run.riskOff /\ run'.tier = run.tier
      BY <1>8, <1>0 DEF BuysDone, Goto, LocalsOK, Locals, durable
    <2> QED BY <2>1, RiskFrame
  <1>9. CASE SellsDone
    <2>1. UNCHANGED plan /\ run'.riskOff = run.riskOff /\ run'.tier = run.tier
      BY <1>9, <1>0 DEF SellsDone, Goto, LocalsOK, Locals, durable
    <2> QED BY <2>1, RiskFrame
  <1>10. CASE ReadOrders
    <2>1. UNCHANGED plan /\ run'.riskOff = run.riskOff /\ run'.tier = run.tier
      BY <1>10, <1>0 DEF ReadOrders, Goto, LocalsOK, Locals, durable
    <2> QED BY <2>1, RiskFrame
  <1>11. CASE ReadPositions
    <2>1. UNCHANGED plan /\ run'.riskOff = run.riskOff /\ run'.tier = run.tier
      BY <1>11, <1>0 DEF ReadPositions, Goto, LocalsOK, Locals, durable
    <2> QED BY <2>1, RiskFrame
  <1>12. CASE SymbolFails
    <2>1. UNCHANGED plan /\ run'.riskOff = run.riskOff /\ run'.tier = run.tier
      BY <1>12, <1>0 DEF SymbolFails, Goto, LocalsOK, Locals, durable
    <2> QED BY <2>1, RiskFrame
  <1>13. CASE ConsumeLatch
    <2>1. UNCHANGED plan /\ run'.riskOff = run.riskOff /\ run'.tier = run.tier
      BY <1>13, <1>0 DEF ConsumeLatch, Goto, LocalsOK, Locals, durable
    <2> QED BY <2>1, RiskFrame
  <1>14. CASE WaitForStalePlan
    BY <1>14, RiskStop DEF WaitForStalePlan, durable
  <1>15. CASE AbortInvalidPlan
    BY <1>15, RiskStop DEF AbortInvalidPlan, durable
  <1>16. CASE DeferPlan
    BY <1>16, RiskStop DEF DeferPlan, durable
  <1>17. CASE AlreadyRebalanced
    BY <1>17, RiskStop DEF AlreadyRebalanced, durable
  <1>18. CASE KeepPlan
    BY <1>18, RiskStop DEF KeepPlan, durable
  <1>19. CASE ReadFails
    BY <1>19, RiskStop DEF ReadFails, durable
  <1>20. CASE PlanningFails
    BY <1>20, RiskStop DEF PlanningFails, durable
  <1>21. CASE Crash
    BY <1>21, RiskStop DEF Crash, durable
  <1>22. CASE ReconcileSellCapacity
    BY <1>22, RiskStop DEF ReconcileSellCapacity, CancelAndStop, durable
  <1>23. CASE BuyPreflightCancels
    BY <1>23, RiskStop DEF BuyPreflightCancels, CancelAndStop, durable
  <1>24. CASE CancelUntrusted
    BY <1>24, RiskStop DEF CancelUntrusted, CancelAndStop, durable
  <1>25. CASE StartCycle
    <2>1. UNCHANGED plan /\ ~run'.riskOff
      BY <1>25, BlankLocals DEF StartCycle, Goto, durable, Locals
    <2> QED BY <2>1, RiskFrame
  <1>26. CASE PersistRiskOff
    <2>1. run'.tier = run.tier /\ run'.riskOff = RiskOff
      BY <1>26, <1>0 DEF PersistRiskOff, Goto, LocalsOK, Locals
    <2>2. RiskOff <=> run.tier = "HALT"
      BY DEF RiskOff
    <2>3. CASE plan # NoPlan /\ plan.valid /\ plan.riskOff
      BY <1>26, <2>1, <2>2, <2>3 DEF PersistRiskOff, RiskStep, RiskInv, ZeroTargetIntent
    <2>4. CASE ~(plan # NoPlan /\ plan.valid /\ plan.riskOff)
      <3>1. ~ZeroTargetIntent
        BY <2>4 DEF RiskInv, SoundPlan, ZeroTargetIntent
      <3>2. plan' = ZeroPlan(Signal) /\ run.tier = "HALT"
        BY <1>26, <2>2, <2>4, <3>1 DEF PersistRiskOff, StorePlan
      <3>3. SoundPlan(plan')
        BY <3>2, NewPlanSound DEF ZeroPlan
      <3> QED BY <2>1, <3>1, <3>2, <3>3 DEF RiskStep, RiskInv
    <2> QED BY <2>3, <2>4
  <1>27. CASE DropStalePlan
    BY <1>27 DEF DropStalePlan, StorePlan, StalePlan, RiskStep, RiskInv, ZeroTargetIntent
  <1>28. CASE RescalePlan
    <2>1. ~ZeroTargetIntent
      BY <1>28 DEF RescalePlan, StricterTier, RiskInv, SoundPlan, ZeroTargetIntent
    <2>2. SoundPlan(plan')
      BY <1>28, NewPlanSound DEF RescalePlan, StorePlan
    <2> QED BY <1>28, <2>1, <2>2 DEF RescalePlan, Goto, RiskStep, RiskInv
  <1>29. CASE FreezeNewPlan
    <2>1. ~ZeroTargetIntent
      BY <1>29 DEF FreezeNewPlan, NoPlanRiskOn, ZeroTargetIntent
    <2>2. SoundPlan(plan')
      BY <1>29, NewPlanSound DEF FreezeNewPlan, StorePlan
    <2> QED BY <1>29, <2>1, <2>2 DEF FreezeNewPlan, Goto, RiskStep, RiskInv
  <1>30. CASE ReplaceByZeroPlan
    <2>1. ~ZeroTargetIntent /\ run.tier = "HALT"
      BY <1>30 DEF ReplaceByZeroPlan, ZeroTargetIntent, RiskInv
    <2>2. SoundPlan(plan')
      BY <1>30, <2>1, NewPlanSound DEF ReplaceByZeroPlan, StorePlan, ZeroPlan
    <2> QED BY <1>30, <2>1, <2>2 DEF ReplaceByZeroPlan, Goto, RiskStep, RiskInv
  <1>31. CASE SelectSell
    <2>1. PICK s \in run.todo :
            \/ Block(s) \/ Skip(s)
            \/ \E q \in 1 .. run.pos[s] : TryIntent(Intent(s, "sell", q))
      BY <1>31 DEF SelectSell
    <2>2. UNCHANGED plan
      BY <1>31 DEF SelectSell
    <2>3. CASE Block(s) \/ Skip(s)
      <3>1. run'.riskOff = run.riskOff /\ run'.tier = run.tier
        BY <2>3, <1>0 DEF Block, Skip, LocalsOK, Locals
      <3> QED BY <2>2, <3>1, RiskFrame
    <2>4. CASE \E q \in 1 .. run.pos[s] : TryIntent(Intent(s, "sell", q))
      BY <1>0, <2>2, <2>4, RiskTryIntent
    <2> QED BY <2>1, <2>3, <2>4
  <1>32. CASE SelectBuy
    <2>1. PICK s \in run.todo :
            \/ Block(s) \/ Skip(s) \/ run' = [run EXCEPT !.todo = {}, !.blocked = TRUE]
            \/ \E q \in 1 .. plan.weights[s] : TryIntent(Intent(s, "buy", q))
      BY <1>32 DEF SelectBuy
    <2>2. UNCHANGED plan
      BY <1>32 DEF SelectBuy
    <2>3. CASE Block(s) \/ Skip(s) \/ run' = [run EXCEPT !.todo = {}, !.blocked = TRUE]
      <3>1. run'.riskOff = run.riskOff /\ run'.tier = run.tier
        BY <2>3, <1>0 DEF Block, Skip, LocalsOK, Locals
      <3> QED BY <2>2, <3>1, RiskFrame
    <2>4. CASE \E q \in 1 .. plan.weights[s] : TryIntent(Intent(s, "buy", q))
      BY <1>0, <2>2, <2>4, RiskTryIntent
    <2> QED BY <2>1, <2>3, <2>4
  <1>33. CASE SubmitAccepted
    BY <1>33, <1>0, RiskSubmit DEF SubmitAccepted, durable
  <1>34. CASE SubmitRefused
    BY <1>34, <1>0, RiskSubmit DEF SubmitRefused, durable
  <1>35. CASE SubmitAmbiguous
    BY <1>35, <1>0, RiskSubmit DEF SubmitAmbiguous, durable
  <1>36. CASE CompletePlan
    BY <1>36, RiskComplete
  <1>37. CASE \E c \in DOMAIN book : FillLot(c) \/ ConfirmCancel(c) \/ Expire(c)
    BY <1>37, RiskFrame DEF FillLot, ConfirmCancel, Expire, durable
  <1>38. CASE World
    BY <1>38, RiskFrame DEF World, NextDay, Deploy, Reassess, CrossAverage, ToggleGate, durable
  <1>39. CASE UNCHANGED vars
    BY <1>39, RiskFrame DEF vars, durable
  <1> QED
    BY <1>1, <1>2, <1>3, <1>4, <1>5, <1>6, <1>7, <1>8, <1>9, <1>10, <1>11, <1>12,
       <1>13, <1>14, <1>15, <1>16, <1>17, <1>18, <1>19, <1>20, <1>21, <1>22, <1>23,
       <1>24, <1>25, <1>26, <1>27, <1>28, <1>29, <1>30, <1>31, <1>32, <1>33, <1>34,
       <1>35, <1>36, <1>37, <1>38, <1>39
    DEF Next, Executor, Preflight, Snapshot, Decide, Trade, Failure, Broker

\* Under HALT alone the README's promise holds: a stored zero-target plan is
\* given up only when the account is flat and nothing is working.
THEOREM RiskOffSurvivesHalt ==
  ASSUME ~HardGate, \A a \in InitialAccounts : a.plan # NoPlan => SoundPlan(a.plan)
  PROVE  Spec => RiskOffSurvives
  <1>1. Init => TypeInv /\ SnapInv /\ RiskInv
    <2>1. Init => SnapInv
      BY DEF Init, SnapInv, SnapshotExact, Deciding
    <2>2. Init => RiskInv
      BY BlankLocals DEF Init, RiskInv
    <2> QED BY <2>1, <2>2, TypeInit
  <1>2. TypeInv /\ SnapInv /\ RiskInv /\ [Next]_vars => (TypeInv /\ SnapInv /\ RiskInv)'
    BY TypeStep, SnapStep, RiskNext DEF RiskStep
  <1>3. TypeInv /\ SnapInv /\ RiskInv /\ [Next]_vars =>
          [ZeroTargetIntent /\ ~ZeroTargetIntent' => pos = Flat /\ OpenOrders(book) = {}]_vars
    BY RiskNext DEF RiskStep
  <1> QED
    BY <1>1, <1>2, <1>3, PTL DEF Spec, RiskOffSurvives

(***************************************************************************)
(* What the orders can do to the account: no oversold symbol, no           *)
(* self-cross, no BUY beyond its target, its plan or the settled cash.     *)
(***************************************************************************)

(***************************************************************************)
(* The order book as a set of lots still to trade.                         *)
(***************************************************************************)
BuyLots(b) == SumFunctionOnSet(Lots(b), OpenBuys(b))

\* A working order asks for at least one lot.
LEMMA OpenLots ==
  ASSUME NEW b, IsBook(b), NEW c \in OpenOrders(b)
  PROVE  c \in DOMAIN b /\ Lots(b)[c] = Remaining(b[c]) /\ Lots(b)[c] \in Nat \ {0}
  BY DEF IsBook, Orders, OpenOrders, Lots, Remaining

\* The working orders of a finite book are finitely many.
LEMMA FiniteOrders ==
  ASSUME NEW b, IsFiniteSet(DOMAIN b), NEW s, NEW side
  PROVE  IsFiniteSet(Working(b, s, side)) /\ IsFiniteSet(OpenBuys(b))
  <1>1. Working(b, s, side) \in SUBSET DOMAIN b /\ OpenBuys(b) \in SUBSET DOMAIN b
    BY DEF Working, OpenBuys, OpenOrders
  <1> QED BY <1>1, FS_Subset

\* The lots working for a symbol on a side: none exactly when no order is.
LEMMA PendingNumber ==
  ASSUME NEW b, IsBook(b), IsFiniteSet(DOMAIN b), NEW s, NEW side
  PROVE  /\ Pending(b, s, side) \in Nat /\ BuyLots(b) \in Nat
         /\ Pending(b, s, side) = 0 <=> Working(b, s, side) = {}
  <1> DEFINE W == Working(b, s, side)
  <1>1. IsFiniteSet(W) /\ IsFiniteSet(OpenBuys(b))
    BY FiniteOrders
  <1>2. \A c \in W : Lots(b)[c] \in Nat /\ Lots(b)[c] # 0
    BY OpenLots DEF Working
  <1>3. \A c \in OpenBuys(b) : Lots(b)[c] \in Nat
    BY OpenLots DEF OpenBuys
  <1>4. /\ SumFunctionOnSet(Lots(b), W) \in Nat
        /\ \A c \in W : Lots(b)[c] <= SumFunctionOnSet(Lots(b), W)
    BY <1>1, <1>2, SumOfNumbers
  <1>5. BuyLots(b) \in Nat
    BY <1>1, <1>3, SumOfNumbers DEF BuyLots
  <1>6. W = {} => SumFunctionOnSet(Lots(b), W) = 0
    BY SumEmpty
  <1>7. W # {} => SumFunctionOnSet(Lots(b), W) # 0
    BY <1>2, <1>4
  <1> QED BY <1>4, <1>5, <1>6, <1>7 DEF Pending

\* What a sum over orders becomes when one of them fills a lot, and drops out
\* with its last one.
LEMMA FillSum ==
  ASSUME NEW S, IsFiniteSet(S), NEW w, NEW v, NEW c \in S,
         \A x \in S : w[x] \in Nat \ {0}, \A x \in S : x # c => v[x] = w[x],
         v[c] = w[c] - 1,
         NEW T \in SUBSET S, \A x \in S : x \in T <=> x # c \/ v[c] # 0
  PROVE  SumFunctionOnSet(v, T) = SumFunctionOnSet(w, S) - 1
  <1>1. \A x \in S : w[x] \in Int /\ v[x] \in Int
    OBVIOUS
  <1>2. SumFunctionOnSet(w, S) \in Int /\ w[c] \in Nat
    BY <1>1, SumType
  <1>3. CASE v[c] # 0
    <2>1. T = S
      BY <1>3
    <2>2. SumFunctionOnSet(v, S) = SumFunctionOnSet(w, S) + v[c] - w[c]
      BY <1>1, SumChange
    <2> QED BY <1>2, <2>1, <2>2
  <1>4. CASE v[c] = 0
    <2>1. T = S \ {c}
      BY <1>4
    <2>2. IsFiniteSet(S \ {c}) /\ \A x \in S \ {c} : w[x] \in Int /\ v[x] = w[x]
      BY <1>1, FS_RemoveElement
    <2>3. SumFunctionOnSet(v, S \ {c}) = SumFunctionOnSet(w, S \ {c})
      BY <2>2, SumSame
    <2>4. SumFunctionOnSet(w, S) = w[c] + SumFunctionOnSet(w, S \ {c})
      BY <1>1, SumRemove
    <2>5. SumFunctionOnSet(w, S \ {c}) \in Int
      BY <2>2, SumType
    <2>6. w[c] - 1 = 0
      BY <1>4
    <2>7. SumFunctionOnSet(w, S \ {c}) = SumFunctionOnSet(w, S) - 1
      BY <1>2, <2>4, <2>5, <2>6
    <2> QED BY <2>1, <2>3, <2>7
  <1> QED BY <1>3, <1>4

(***************************************************************************)
(* Steps that settle: fills, cancellations and expiries, and whatever      *)
(* leaves the account alone.                                               *)
(***************************************************************************)
\* No working order of `a' is new or larger than it was in `b'.
Shrinks(b, a) ==
  \A c \in OpenOrders(a) :
    /\ c \in OpenOrders(b)
    /\ a[c].sym = b[c].sym /\ a[c].side = b[c].side
    /\ Remaining(a[c]) <= Remaining(b[c])
    /\ ~a[c].foreign => ~b[c].foreign
    /\ a[c].status = "new" => b[c].status = "new"

Settles ==
  /\ Shrinks(book, book') /\ IsFiniteSet(DOMAIN book')
  /\ \A s \in Symbols :
       /\ pos'[s] - Pending(book', s, "sell") >= pos[s] - Pending(book, s, "sell")
       /\ pos'[s] + Pending(book', s, "buy") <= pos[s] + Pending(book, s, "buy")
       /\ (\A c \in OpenOrders(book) : book[c].sym # s) => pos'[s] = pos[s]
  /\ cash' - BuyLots(book') >= cash - BuyLots(book)
  /\ OpenOrders(book) = {} => cash' = cash

\* Nothing happens to the account.
LEMMA SettlesAlone ==
  ASSUME TypeOK, IsFiniteSet(DOMAIN book), UNCHANGED broker PROVE Settles
  <1>1. pos' = pos /\ cash' = cash /\ book' = book
    BY DEF broker
  <1>2. ASSUME NEW s \in Symbols, NEW side
        PROVE  Pending(book', s, side) = Pending(book, s, side)
               /\ Pending(book, s, side) \in Nat /\ pos[s] \in Int
    BY <1>1, PendingNumber DEF TypeOK
  <1>3. BuyLots(book') = BuyLots(book) /\ BuyLots(book) \in Nat
    BY <1>1, PendingNumber DEF TypeOK
  <1>4. \A c \in OpenOrders(book) : Remaining(book[c]) \in Nat
    BY OpenLots DEF TypeOK
  <1>5. Shrinks(book, book')
    BY <1>1, <1>4 DEF Shrinks
  <1> QED
    BY <1>1, <1>2, <1>3, <1>5 DEF Settles, TypeOK

\* A book that shrinks asks for no more lots than before.
LEMMA SmallerBook ==
  ASSUME NEW b, IsBook(b), IsFiniteSet(DOMAIN b), NEW a, IsBook(a), IsFiniteSet(DOMAIN a),
         Shrinks(b, a), NEW s, NEW side
  PROVE  Pending(a, s, side) <= Pending(b, s, side) /\ BuyLots(a) <= BuyLots(b)
  <1>1. \A c \in OpenOrders(b) : Lots(b)[c] \in Nat
    BY OpenLots
  <1>2. \A c \in OpenOrders(a) : Lots(a)[c] \in Nat /\ Lots(a)[c] <= Lots(b)[c]
    BY OpenLots DEF Shrinks
  <1>3. Pending(a, s, side) <= Pending(b, s, side)
    <2> DEFINE S == Working(b, s, side)
               T == Working(a, s, side)
    <2>1. T \in SUBSET S /\ S \subseteq OpenOrders(b) /\ T \subseteq OpenOrders(a)
      BY DEF Working, Shrinks
    <2>2. IsFiniteSet(S)
      BY FiniteOrders
    <2> HIDE DEF S, T
    <2>3. /\ \A c \in S : Lots(b)[c] \in Nat
          /\ \A c \in T : Lots(a)[c] \in Nat /\ Lots(a)[c] <= Lots(b)[c]
      BY <1>1, <1>2, <2>1
    <2>4. SumFunctionOnSet(Lots(a), T) <= SumFunctionOnSet(Lots(b), S)
      BY <2>1, <2>2, <2>3, SumMonotone
    <2> QED BY <2>4 DEF Pending, S, T
  <1>4. BuyLots(a) <= BuyLots(b)
    <2> DEFINE S == OpenBuys(b)
               T == OpenBuys(a)
    <2>1. T \in SUBSET S /\ S \subseteq OpenOrders(b) /\ T \subseteq OpenOrders(a)
      BY DEF OpenBuys, Shrinks
    <2>2. IsFiniteSet(S)
      BY FiniteOrders
    <2> HIDE DEF S, T
    <2>3. /\ \A c \in S : Lots(b)[c] \in Nat
          /\ \A c \in T : Lots(a)[c] \in Nat /\ Lots(a)[c] <= Lots(b)[c]
      BY <1>1, <1>2, <2>1
    <2>4. SumFunctionOnSet(Lots(a), T) <= SumFunctionOnSet(Lots(b), S)
      BY <2>1, <2>2, <2>3, SumMonotone
    <2> QED BY <2>4 DEF BuyLots, S, T
  <1> QED BY <1>3, <1>4

\* A book that shrinks while positions and cash stay settles.
LEMMA SettlesSmaller ==
  ASSUME TypeOK, IsFiniteSet(DOMAIN book), IsBook(book'), DOMAIN book' = DOMAIN book,
         Shrinks(book, book'), UNCHANGED <<pos, cash>>
  PROVE  Settles
  <1>1. IsBook(book) /\ IsFiniteSet(DOMAIN book')
    BY DEF TypeOK
  <1>2. ASSUME NEW s \in Symbols
        PROVE  /\ pos'[s] - Pending(book', s, "sell") >= pos[s] - Pending(book, s, "sell")
               /\ pos'[s] + Pending(book', s, "buy") <= pos[s] + Pending(book, s, "buy")
    <2>1. /\ Pending(book', s, "sell") <= Pending(book, s, "sell")
          /\ Pending(book', s, "buy") <= Pending(book, s, "buy")
      BY <1>1, SmallerBook
    <2>2. /\ Pending(book, s, "sell") \in Nat /\ Pending(book', s, "sell") \in Nat
          /\ Pending(book, s, "buy") \in Nat /\ Pending(book', s, "buy") \in Nat
      BY <1>1, PendingNumber
    <2>3. pos'[s] = pos[s] /\ pos[s] \in Int
      BY DEF TypeOK
    <2> HIDE DEF Settles
    <2> QED BY <2>1, <2>2, <2>3
  <1>3. cash' - BuyLots(book') >= cash - BuyLots(book)
    <2>1. BuyLots(book') <= BuyLots(book)
      BY <1>1, SmallerBook
    <2>2. BuyLots(book) \in Nat /\ BuyLots(book') \in Nat
      BY <1>1, PendingNumber
    <2>3. cash' = cash /\ cash \in Int
      BY DEF TypeOK
    <2> QED BY <2>1, <2>2, <2>3
  <1>4. pos' = pos /\ cash' = cash
    OBVIOUS
  <1> QED BY <1>1, <1>2, <1>3, <1>4 DEF Settles

\* An order asked to cancel stays in the book with what it still asks for.
LEMMA SettlesRequests ==
  ASSUME TypeOK, IsFiniteSet(DOMAIN book), NEW S, book' = CancelRequested(S),
         UNCHANGED <<pos, cash>>
  PROVE  Settles
  <1>1. DOMAIN book' = DOMAIN book /\ IsBook(book')
    BY CancelType DEF CancelRequested, TypeOK
  <1>2. \A c \in DOMAIN book :
          /\ book'[c].sym = book[c].sym /\ book'[c].side = book[c].side
          /\ book'[c].qty = book[c].qty /\ book'[c].filled = book[c].filled
          /\ book'[c].foreign = book[c].foreign
          /\ book'[c].status = "new" => book[c].status = "new"
          /\ book'[c].status \in OpenStatuses => book[c].status \in OpenStatuses
    BY DEF CancelRequested, TypeOK, IsBook, Orders, OpenStatuses
  <1>3. \A c \in OpenOrders(book) : c \in DOMAIN book /\ Remaining(book[c]) \in Nat
    BY OpenLots DEF TypeOK
  <1>4. \A c \in OpenOrders(book') : c \in OpenOrders(book)
    BY <1>1, <1>2 DEF OpenOrders
  <1>5. \A c \in OpenOrders(book) : Remaining(book'[c]) = Remaining(book[c])
    BY <1>2, <1>3 DEF Remaining
  <1>6. Shrinks(book, book')
    BY <1>2, <1>3, <1>4, <1>5 DEF Shrinks
  <1> QED BY <1>1, <1>6, SettlesSmaller

\* A cancelled or expired order gives up what it still asked for.
LEMMA SettlesClosed ==
  ASSUME TypeOK, IsFiniteSet(DOMAIN book), NEW c \in OpenOrders(book), NEW st \in RetryStatuses,
         book' = [book EXCEPT ![c].status = st], UNCHANGED <<pos, cash>>
  PROVE  Settles
  <1> DEFINE o == [book[c] EXCEPT !.status = st]
  <1>1. c \in DOMAIN book /\ book[c] \in Orders /\ st \notin OpenStatuses
    BY DEF TypeOK, IsBook, OpenOrders, RetryStatuses, OpenStatuses
  <1>2. o.status = st
    BY <1>1 DEF Orders
  <1>3. DOMAIN book' = DOMAIN book /\ book'[c] = o
        /\ \A d \in DOMAIN book : d # c => book'[d] = book[d]
    BY <1>1
  <1> HIDE DEF o
  <1>4. OpenOrders(book') = OpenOrders(book) \ {c}
    BY <1>1, <1>2, <1>3 DEF OpenOrders
  <1>5. \A d \in OpenOrders(book') : book'[d] = book[d] /\ d # c
    BY <1>3, <1>4 DEF OpenOrders
  <1>6. \A d \in OpenOrders(book) : Remaining(book[d]) \in Nat
    BY OpenLots DEF TypeOK
  <1>7. Shrinks(book, book')
    BY <1>4, <1>5, <1>6 DEF Shrinks
  <1>8. IsBook(book')
    BY <1>1, CloseType DEF TypeOK
  <1> QED BY <1>3, <1>7, <1>8, SettlesSmaller

\* A fill takes one lot out of the sums its order is part of.
LEMMA FillSums ==
  ASSUME NEW b, IsBook(b), IsFiniteSet(DOMAIN b), NEW c \in OpenOrders(b), NEW a,
         DOMAIN a = DOMAIN b, \A d \in DOMAIN b : d # c => a[d] = b[d],
         a[c].sym = b[c].sym, a[c].side = b[c].side,
         Remaining(a[c]) = Remaining(b[c]) - 1,
         a[c].status \in OpenStatuses <=> Remaining(a[c]) # 0
  PROVE  /\ \A s, side : Pending(a, s, side) =
              Pending(b, s, side) - (IF s = b[c].sym /\ side = b[c].side THEN 1 ELSE 0)
         /\ BuyLots(a) = BuyLots(b) - (IF b[c].side = "buy" THEN 1 ELSE 0)
  <1> DEFINE w == Lots(b)
             v == Lots(a)
             Left(S) == {x \in S : x # c \/ v[c] # 0}
  <1>1. /\ \A d \in OpenOrders(b) : d \in DOMAIN b /\ w[d] \in Nat \ {0}
        /\ \A d \in DOMAIN b : d # c => v[d] = w[d]
        /\ v[c] = w[c] - 1 /\ v[c] = Remaining(a[c])
    <2>1. \A d \in OpenOrders(b) : d \in DOMAIN b /\ w[d] \in Nat \ {0}
      BY OpenLots
    <2>2. \A d \in DOMAIN b : v[d] = Remaining(a[d]) /\ w[d] = Remaining(b[d])
      BY DEF Lots
    <2> QED BY <2>1, <2>2
  <1>2. OpenOrders(a) = Left(OpenOrders(b))
    BY <1>1 DEF OpenOrders
  <1> HIDE DEF w, v
  <1>3. ASSUME NEW S \in SUBSET OpenOrders(b), IsFiniteSet(S)
        PROVE  /\ c \in S => SumFunctionOnSet(v, Left(S)) = SumFunctionOnSet(w, S) - 1
               /\ c \notin S => SumFunctionOnSet(v, Left(S)) = SumFunctionOnSet(w, S) - 0
    <2>1. /\ \A x \in S : w[x] \in Nat \ {0} /\ w[x] \in Int
          /\ \A x \in S : x # c => v[x] = w[x]
          /\ v[c] = w[c] - 1
      BY <1>1
    <2>2. CASE c \in S
      <3>1. Left(S) \in SUBSET S /\ \A x \in S : x \in Left(S) <=> x # c \/ v[c] # 0
        OBVIOUS
      <3> HIDE DEF Left
      <3>2. SumFunctionOnSet(v, Left(S)) = SumFunctionOnSet(w, S) - 1
        BY <1>3, <2>1, <2>2, <3>1, FillSum
      <3> QED BY <2>2, <3>2
    <2>3. CASE c \notin S
      <3>1. Left(S) = S
        BY <2>3
      <3> HIDE DEF Left
      <3>2. SumFunctionOnSet(v, S) = SumFunctionOnSet(w, S) /\ SumFunctionOnSet(w, S) \in Int
        BY <1>3, <2>1, <2>3, SumSame, SumType
      <3> QED BY <2>3, <3>1, <3>2
    <2> QED BY <2>2, <2>3
  <1>4. ASSUME NEW s, NEW side
        PROVE  Pending(a, s, side) =
                 Pending(b, s, side) - (IF s = b[c].sym /\ side = b[c].side THEN 1 ELSE 0)
    <2> DEFINE S == Working(b, s, side)
    <2>1. S \in SUBSET OpenOrders(b) /\ Working(a, s, side) = Left(S)
      <3>1. \A d \in OpenOrders(b) : a[d].sym = b[d].sym /\ a[d].side = b[d].side
        BY <1>1
      <3> QED BY <1>2, <3>1 DEF Working
    <2>2. c \in S <=> s = b[c].sym /\ side = b[c].side
      BY DEF Working
    <2>3. IsFiniteSet(S)
      BY FiniteOrders
    <2> HIDE DEF S, Left
    <2>4. /\ c \in S => SumFunctionOnSet(v, Left(S)) = SumFunctionOnSet(w, S) - 1
          /\ c \notin S => SumFunctionOnSet(v, Left(S)) = SumFunctionOnSet(w, S) - 0
      BY <1>3, <2>1, <2>3
    <2> QED BY <2>1, <2>2, <2>4 DEF Pending, w, v, S
  <1>5. BuyLots(a) = BuyLots(b) - (IF b[c].side = "buy" THEN 1 ELSE 0)
    <2> DEFINE S == OpenBuys(b)
    <2>1. S \in SUBSET OpenOrders(b) /\ OpenBuys(a) = Left(S)
      BY <1>1, <1>2 DEF OpenBuys
    <2>2. c \in S <=> b[c].side = "buy"
      BY DEF OpenBuys
    <2>3. IsFiniteSet(S)
      BY FiniteOrders
    <2> HIDE DEF S, Left
    <2>4. /\ c \in S => SumFunctionOnSet(v, Left(S)) = SumFunctionOnSet(w, S) - 1
          /\ c \notin S => SumFunctionOnSet(v, Left(S)) = SumFunctionOnSet(w, S) - 0
      BY <1>3, <2>1, <2>3
    <2> QED BY <2>1, <2>2, <2>4 DEF BuyLots, w, v, S
  <1> QED BY <1>4, <1>5

\* A fill moves a lot, and the cash for it, from the book to the account.
LEMMA SettlesFill ==
  ASSUME TypeOK, IsFiniteSet(DOMAIN book), NEW c \in DOMAIN book, FillLot(c) PROVE Settles
  <1> DEFINE st == IF Remaining(book[c]) = 1 THEN "filled" ELSE book[c].status
             n  == book[c].filled + 1
             o  == [[book[c] EXCEPT !.filled = n] EXCEPT !.status = st]
             m  == Signed(book[c])
  <1>1. c \in OpenOrders(book) /\ book[c] \in Orders /\ book[c].filled < book[c].qty
        /\ pos \in [Symbols -> Int] /\ cash \in Int
    BY DEF FillLot, OpenOrders, TypeOK, IsBook
  <1>2. m \in Int /\ (book[c].side = "buy" => m = 1) /\ (book[c].side # "buy" => m = -1)
        /\ book[c].side \in Sides /\ book[c].sym \in Symbols
    BY <1>1 DEF Signed, Orders
  <1>3. /\ DOMAIN book' = DOMAIN book /\ book'[c] = o
        /\ \A d \in DOMAIN book : d # c => book'[d] = book[d]
        /\ pos' = [pos EXCEPT ![book[c].sym] = @ + m] /\ cash' = cash - m
    BY DEF FillLot
  <1> HIDE DEF m
  <1>4. /\ o.sym = book[c].sym /\ o.side = book[c].side /\ o.foreign = book[c].foreign
        /\ o.qty = book[c].qty /\ o.filled = n /\ o.status = st
    BY <1>1 DEF Orders
  <1> HIDE DEF o
  <1>5. Remaining(o) = Remaining(book[c]) - 1 /\ Remaining(book[c]) \in Nat \ {0}
    BY <1>1, <1>4 DEF Remaining, Orders
  <1>6. st \in OpenStatuses <=> Remaining(o) # 0
    BY <1>1, <1>5 DEF OpenOrders, OpenStatuses
  <1>7. st = "new" => book[c].status = "new"
    OBVIOUS
  <1> HIDE DEF st, n
  <1>8. /\ \A s, side : Pending(book', s, side) =
             Pending(book, s, side) - (IF s = book[c].sym /\ side = book[c].side THEN 1 ELSE 0)
        /\ BuyLots(book') = BuyLots(book) - (IF book[c].side = "buy" THEN 1 ELSE 0)
    BY <1>1, <1>3, <1>4, <1>5, <1>6, FillSums DEF TypeOK
  <1>9. Shrinks(book, book')
    <2>1. ASSUME NEW d \in OpenOrders(book'), d = c
          PROVE  /\ d \in OpenOrders(book)
                 /\ book'[d].sym = book[d].sym /\ book'[d].side = book[d].side
                 /\ Remaining(book'[d]) <= Remaining(book[d])
                 /\ ~book'[d].foreign => ~book[d].foreign
                 /\ book'[d].status = "new" => book[d].status = "new"
      BY <1>1, <1>3, <1>4, <1>5, <1>7, <2>1
    <2>2. \A d \in OpenOrders(book) : Remaining(book[d]) \in Nat
      BY OpenLots DEF TypeOK
    <2>3. \A d \in OpenOrders(book') : d # c => d \in OpenOrders(book) /\ book'[d] = book[d]
      BY <1>3 DEF OpenOrders
    <2> QED BY <2>1, <2>2, <2>3 DEF Shrinks
  <1>10. ASSUME NEW s \in Symbols
         PROVE  /\ pos'[s] - Pending(book', s, "sell") >= pos[s] - Pending(book, s, "sell")
                /\ pos'[s] + Pending(book', s, "buy") <= pos[s] + Pending(book, s, "buy")
                /\ (\A d \in OpenOrders(book) : book[d].sym # s) => pos'[s] = pos[s]
    <2>1. pos[s] \in Int /\ Pending(book, s, "sell") \in Nat /\ Pending(book, s, "buy") \in Nat
      BY <1>1, PendingNumber DEF TypeOK
    <2>2. CASE s # book[c].sym
      <3>1. pos'[s] = pos[s]
        BY <1>1, <1>3, <2>2
      <3>2. Pending(book', s, "sell") = Pending(book, s, "sell") - 0
            /\ Pending(book', s, "buy") = Pending(book, s, "buy") - 0
        BY <1>8, <2>2
      <3> QED BY <2>1, <3>1, <3>2
    <2>3. CASE s = book[c].sym /\ book[c].side = "buy"
      <3>1. pos'[s] = pos[s] + 1
        BY <1>1, <1>2, <1>3, <2>3
      <3>2. Pending(book', s, "sell") = Pending(book, s, "sell") - 0
            /\ Pending(book', s, "buy") = Pending(book, s, "buy") - 1
        BY <1>8, <2>3
      <3> QED BY <1>1, <2>1, <2>3, <3>1, <3>2
    <2>4. CASE s = book[c].sym /\ book[c].side # "buy"
      <3>0. book[c].side = "sell"
        BY <1>2, <2>4 DEF Sides
      <3>1. pos'[s] = pos[s] - 1
        BY <1>1, <1>2, <1>3, <2>4
      <3>2. Pending(book', s, "sell") = Pending(book, s, "sell") - 1
            /\ Pending(book', s, "buy") = Pending(book, s, "buy") - 0
        BY <1>8, <2>4, <3>0
      <3> QED BY <1>1, <2>1, <2>4, <3>1, <3>2
    <2> QED BY <2>2, <2>3, <2>4
  <1>11. cash' - BuyLots(book') >= cash - BuyLots(book)
    <2>1. BuyLots(book) \in Nat
      BY PendingNumber DEF TypeOK
    <2>2. BuyLots(book') = BuyLots(book) - (IF book[c].side = "buy" THEN 1 ELSE 0)
      BY <1>8
    <2>3. CASE book[c].side = "buy"
      BY <1>1, <1>2, <1>3, <2>1, <2>2, <2>3
    <2>4. CASE book[c].side # "buy"
      BY <1>1, <1>2, <1>3, <2>1, <2>2, <2>4
    <2> QED BY <2>3, <2>4
  <1>12. OpenOrders(book) # {}
    BY <1>1
  <1> QED BY <1>3, <1>9, <1>10, <1>11, <1>12 DEF Settles

(***************************************************************************)
(* A submission.                                                           *)
(***************************************************************************)
\* A new order adds its lots to the sums it is part of.
LEMMA PlaceSums ==
  ASSUME TypeOK, IsFiniteSet(DOMAIN book), NEW c, c \notin DOMAIN book, Place(c),
         c.intent \in [sym : Symbols, side : Sides, qty : Nat \ {0}]
  PROVE  /\ IsFiniteSet(DOMAIN book') /\ OpenOrders(book') = OpenOrders(book) \cup {c}
         /\ book'[c].sym = c.intent.sym /\ book'[c].side = c.intent.side
         /\ ~book'[c].foreign /\ book'[c].status = "new"
         /\ \A d \in DOMAIN book : book'[d] = book[d]
         /\ \A s, side : Pending(book', s, side) =
              Pending(book, s, side)
                + (IF s = c.intent.sym /\ side = c.intent.side THEN c.intent.qty ELSE 0)
         /\ BuyLots(book') =
              BuyLots(book) + (IF c.intent.side = "buy" THEN c.intent.qty ELSE 0)
  <1> DEFINE i == c.intent
             o == NewOrder(i)
             w == Lots(book)
             v == Lots(book')
  <1>1. /\ o.sym = i.sym /\ o.side = i.side /\ ~o.foreign /\ o.status = "new"
        /\ Remaining(o) = i.qty
    BY DEF NewOrder, Remaining
  <1>2. /\ DOMAIN book' = DOMAIN book \cup {c} /\ book'[c] = o
        /\ \A d \in DOMAIN book : book'[d] = book[d]
    BY DEF Place
  <1> HIDE DEF o
  <1>3. IsFiniteSet(DOMAIN book')
    BY <1>2, FS_AddElement
  <1>4. OpenOrders(book') = OpenOrders(book) \cup {c} /\ c \notin OpenOrders(book)
    BY <1>1, <1>2 DEF OpenOrders, OpenStatuses
  <1>5. /\ \A d \in OpenOrders(book) : w[d] \in Nat /\ v[d] = w[d] /\ d \in DOMAIN book
        /\ v[c] = i.qty /\ i.qty \in Nat
    BY <1>1, <1>2, OpenLots DEF Lots, TypeOK
  <1> HIDE DEF w, v
  <1>6. ASSUME NEW S \in SUBSET OpenOrders(book), IsFiniteSet(S)
        PROVE  /\ SumFunctionOnSet(v, S) = SumFunctionOnSet(w, S) + 0
               /\ SumFunctionOnSet(v, S \cup {c}) = SumFunctionOnSet(w, S) + i.qty
    <2>1. \A x \in S : w[x] \in Int /\ v[x] = w[x] /\ v[x] \in Int
      BY <1>5
    <2>2. SumFunctionOnSet(v, S) = SumFunctionOnSet(w, S) /\ SumFunctionOnSet(w, S) \in Int
      BY <1>6, <2>1, SumSame, SumType
    <2>3. c \notin S /\ v[c] \in Int
      BY <1>4, <1>5
    <2>4. SumFunctionOnSet(v, S \cup {c}) = v[c] + SumFunctionOnSet(v, S)
      BY <1>6, <2>1, <2>3, SumAdd
    <2> QED BY <1>5, <2>2, <2>4
  <1>7. ASSUME NEW s, NEW side
        PROVE  Pending(book', s, side) =
                 Pending(book, s, side) + (IF s = i.sym /\ side = i.side THEN i.qty ELSE 0)
    <2> DEFINE S == Working(book, s, side)
    <2>1. S \in SUBSET OpenOrders(book)
          /\ Working(book', s, side) = IF s = i.sym /\ side = i.side THEN S \cup {c} ELSE S
      BY <1>1, <1>2, <1>4, <1>5 DEF Working
    <2>2. IsFiniteSet(S)
      BY FiniteOrders
    <2> HIDE DEF S
    <2>3. /\ SumFunctionOnSet(v, S) = SumFunctionOnSet(w, S) + 0
          /\ SumFunctionOnSet(v, S \cup {c}) = SumFunctionOnSet(w, S) + i.qty
      BY <1>6, <2>1, <2>2
    <2> QED BY <2>1, <2>3 DEF Pending, w, v, S
  <1>8. BuyLots(book') = BuyLots(book) + (IF i.side = "buy" THEN i.qty ELSE 0)
    <2> DEFINE S == OpenBuys(book)
    <2>1. S \in SUBSET OpenOrders(book)
          /\ OpenBuys(book') = IF i.side = "buy" THEN S \cup {c} ELSE S
      BY <1>1, <1>2, <1>4, <1>5 DEF OpenBuys
    <2>2. IsFiniteSet(S)
      BY FiniteOrders
    <2> HIDE DEF S
    <2>3. /\ SumFunctionOnSet(v, S) = SumFunctionOnSet(w, S) + 0
          /\ SumFunctionOnSet(v, S \cup {c}) = SumFunctionOnSet(w, S) + i.qty
      BY <1>6, <2>1, <2>2
    <2> QED BY <2>1, <2>3 DEF BuyLots, w, v, S
  <1> QED BY <1>1, <1>2, <1>3, <1>4, <1>7, <1>8

(***************************************************************************)
(* What a cycle knows.                                                     *)
(***************************************************************************)
\* From the read of the orders to the last SELL, and then to the last BUY.
Considering == {"reconcile", "risk", "cancel", "plan", "target", "account"}
Phase(side) == pc = side \/ (pc = "submit" /\ run.current.intent.side = side)

\* The orders read are working orders, as they were.
OrdersOK ==
  /\ IsFiniteSet(DOMAIN run.orders) /\ IsBook(run.orders)
  /\ run.orders = [c \in DOMAIN run.orders |-> run.orders[c]]
  /\ \A c \in DOMAIN run.orders : run.orders[c].status \in OpenStatuses

\* Every BUY still working was read.
BuysRead ==
  \A c \in OpenBuys(book) : c \in OpenBuys(run.orders) /\ run.orders[c].sym = book[c].sym

\* The lots of s no SELL is working for are at least those the cycle counts.
Headroom(s) ==
  pos[s] - Pending(book, s, "sell") >= run.pos[s] - Pending(run.orders, s, "sell")

\* No cancellation is due for this open BUY.
Trusted(c) ==
  /\ ~run.riskOff /\ ~StalePlan /\ ~StricterTier /\ run.allow
  /\ BelongsToPlan(c, run.orders[c])

\* The plan a cycle trades is well-formed, what it submits was reserved for
\* it, and an adaptive order carries the plan it was sent for.
PlanInv ==
  /\ pc = "plan" => \A c \in OpenBuys(run.orders) : Trusted(c)
  /\ pc \in {"target", "account", "sell", "submit", "buy"} => plan \in Plans /\ plan # NoPlan /\ plan.valid
  /\ pc = "submit" =>
       /\ run.current.intent \in DOMAIN attempts
       /\ run.current = ClientOrderId(plan, run.current.intent, attempts[run.current.intent])

BookInv ==
  /\ IsFiniteSet(DOMAIN book)
  /\ \A c \in OpenOrders(book) : ~book[c].foreign => c.plan \in Plans

SellInv ==
  /\ pc = "positions" =>
       /\ OrdersOK /\ Shrinks(run.orders, book)
  /\ pc \in Considering \/ Phase("sell") => OrdersOK /\ BuysRead
  /\ pc \in Considering => \A s \in Symbols : Headroom(s)
  /\ Phase("sell") => \A s \in run.todo : Headroom(s)
  /\ pc = "submit" /\ Phase("sell") =>
       /\ run.current.intent.sym \notin run.todo
       /\ run.current.intent.qty <=
            pos[run.current.intent.sym] - Pending(book, run.current.intent.sym, "sell")
       /\ \A c \in OpenBuys(book) : book[c].sym # run.current.intent.sym

BuyInv ==
  /\ pc # "finish" /\ run.bought => Phase("buy")
  /\ pc \in {"sell", "submit", "buy"} /\ Quiet => run.cash = cash
  /\ Phase("buy") =>
       /\ \A c \in OpenOrders(book) : book[c].side = "buy" /\ book[c].sym \notin run.todo
       /\ run.orders = NoOrders
       /\ \A s \in run.todo : pos[s] = run.pos[s] /\ plan.weights[s] > 0
       /\ run.spendable \in Int
       /\ run.spendable <= cash - BuyLots(book) - Reserve
  /\ pc = "submit" /\ Phase("buy") =>
       /\ run.current.intent.sym \notin run.todo
       /\ run.current.intent.qty <= run.spendable
       /\ pos[run.current.intent.sym] + run.current.intent.qty
            <= plan.weights[run.current.intent.sym]
       /\ plan.weights[run.current.intent.sym] > 0
       /\ \A c \in OpenOrders(book) : book[c].sym # run.current.intent.sym

(***************************************************************************)
(* Steps that settle keep what holds of the account.                       *)
(***************************************************************************)
\* What a settling step does to the numbers of one symbol.
LEMMA SettledNumbers ==
  ASSUME TypeOK, TypeOK', BookInv, Settles, NEW s \in Symbols
  PROVE  /\ pos[s] \in Int /\ pos'[s] \in Int
         /\ Pending(book, s, "sell") \in Nat /\ Pending(book', s, "sell") \in Nat
         /\ Pending(book, s, "buy") \in Nat /\ Pending(book', s, "buy") \in Nat
         /\ pos'[s] - Pending(book', s, "sell") >= pos[s] - Pending(book, s, "sell")
         /\ pos'[s] + Pending(book', s, "buy") <= pos[s] + Pending(book, s, "buy")
  <1>1. IsFiniteSet(DOMAIN book) /\ IsFiniteSet(DOMAIN book') /\ IsBook(book) /\ IsBook(book')
    BY DEF TypeOK, BookInv, Settles
  <1>2. /\ Pending(book, s, "sell") \in Nat /\ Pending(book', s, "sell") \in Nat
        /\ Pending(book, s, "buy") \in Nat /\ Pending(book', s, "buy") \in Nat
    BY <1>1, PendingNumber
  <1> QED BY <1>2 DEF TypeOK, Settles

\* Settling sells no lot twice.
LEMMA OversellSettles ==
  ASSUME TypeOK, TypeOK', BookInv, Settles, NoOversell PROVE NoOversell'
  <1> SUFFICES ASSUME NEW s \in Symbols PROVE Pending(book', s, "sell") <= pos'[s]
    BY DEF NoOversell
  <1>1. Pending(book, s, "sell") <= pos[s]
    BY DEF NoOversell
  <1> QED BY <1>1, SettledNumbers

\* Settling lets no new pair of orders meet.
LEMMA CrossSettles ==
  ASSUME Settles, NoSelfCross PROVE NoSelfCross'
  <1> SUFFICES ASSUME NEW c \in DOMAIN book', NEW d \in DOMAIN book',
                      ~book'[c].foreign, book'[c].side = "buy", book'[c].status \in OpenStatuses,
                      ~book'[d].foreign, book'[d].side = "sell", book'[d].status \in OpenStatuses,
                      book'[c].sym = book'[d].sym
               PROVE  FALSE
    BY DEF NoSelfCross, Adaptive
  <1>1. c \in OpenOrders(book') /\ d \in OpenOrders(book')
    BY DEF OpenOrders
  <1>2. /\ c \in OpenOrders(book) /\ ~book[c].foreign /\ book[c].side = "buy"
        /\ d \in OpenOrders(book) /\ ~book[d].foreign /\ book[d].side = "sell"
        /\ book[c].sym = book[d].sym
    BY <1>1 DEF Settles, Shrinks
  <1> QED BY <1>2 DEF NoSelfCross, Adaptive, OpenOrders

\* Settling moves lots from the working BUYs to the position, or gives them up.
LEMMA TargetSettles ==
  ASSUME TypeOK, TypeOK', BookInv, Settles, BuysWithinTarget PROVE BuysWithinTarget'
  <1> SUFFICES ASSUME NEW c \in OpenBuys(book'), ~book'[c].foreign
               PROVE  pos'[book'[c].sym] + Pending(book', book'[c].sym, "buy")
                        <= c.plan.weights[book'[c].sym]
    BY DEF BuysWithinTarget, Adaptive
  <1>1. /\ c \in OpenBuys(book) /\ ~book[c].foreign /\ book'[c].sym = book[c].sym
    BY DEF OpenBuys, Settles, Shrinks
  <1>2. c \in DOMAIN book /\ book[c].sym \in Symbols
    BY <1>1 DEF OpenBuys, OpenOrders, TypeOK, IsBook, Orders
  <1>3. PICK s \in Symbols : s = book[c].sym
    BY <1>2
  <1>4. pos[s] + Pending(book, s, "buy") <= c.plan.weights[s]
    BY <1>1, <1>3 DEF BuysWithinTarget, Adaptive
  <1>5. c.plan.weights[s] \in Nat
    BY <1>1, <1>2, <1>3 DEF BookInv, Plans, OpenBuys
  <1>6. pos'[s] + Pending(book', s, "buy") <= c.plan.weights[s]
    BY <1>4, <1>5, SettledNumbers
  <1> QED BY <1>1, <1>3, <1>6

\* Settling pays for what was counted.
LEMMA FundsSettle ==
  ASSUME TypeOK, TypeOK', BookInv, Settles, BuysFunded PROVE BuysFunded'
  <1> SUFFICES ASSUME NEW c \in OpenBuys(book'), ~book'[c].foreign
               PROVE  cash' - BuyLots(book') >= Reserve
    BY DEF BuysFunded, Adaptive, BuyLots
  <1>1. c \in OpenBuys(book) /\ ~book[c].foreign
    BY DEF OpenBuys, Settles, Shrinks
  <1>2. cash - BuyLots(book) >= Reserve
    BY <1>1 DEF BuysFunded, Adaptive, BuyLots
  <1>3. IsFiniteSet(DOMAIN book) /\ IsFiniteSet(DOMAIN book') /\ IsBook(book) /\ IsBook(book')
    BY DEF TypeOK, BookInv, Settles
  <1>4. BuyLots(book) \in Nat /\ BuyLots(book') \in Nat
    BY <1>3, PendingNumber
  <1>5. cash \in Int /\ cash' \in Int /\ Reserve \in Nat
    BY BoundsAssumption DEF TypeOK
  <1> QED BY <1>2, <1>4, <1>5 DEF Settles

\* An open BUY still belongs to the plan while the plan and its intents stay.
LEMMA BelongsSettles ==
  ASSUME Settles, BuysBelongToPlan, UNCHANGED <<plan, attempts>> PROVE BuysBelongToPlan'
  <1> SUFFICES ASSUME NEW c \in OpenBuys(book'), ~book'[c].foreign, book'[c].status = "new"
               PROVE  BelongsToPlan(c, book[c])' \/ (plan' # NoPlan /\ plan'.riskOff)
    BY DEF BuysBelongToPlan, Adaptive
  <1>1. /\ c \in OpenBuys(book) /\ ~book[c].foreign /\ book[c].status = "new"
        /\ book'[c].sym = book[c].sym
    BY DEF OpenBuys, Settles, Shrinks
  <1>2. BelongsToPlan(c, book[c]) \/ (plan # NoPlan /\ plan.riskOff)
    BY <1>1 DEF BuysBelongToPlan, Adaptive
  <1> QED BY <1>1, <1>2 DEF BelongsToPlan

(***************************************************************************)
(* A submission keeps what holds of the account.                           *)
(***************************************************************************)
Places ==
  /\ pc = "submit" /\ run.current \notin DOMAIN book /\ Place(run.current)
  /\ UNCHANGED <<pos, cash, plan, attempts>>

\* The order placed, and the sums it changes.
LEMMA PlacedOrder ==
  ASSUME TypeInv, BookInv, Places, NEW c, c = run.current, NEW i, i = run.current.intent
  PROVE  /\ i \in [sym : Symbols, side : Sides, qty : Nat \ {0}] /\ c.intent = i
         /\ IsFiniteSet(DOMAIN book') /\ OpenOrders(book') = OpenOrders(book) \cup {c}
         /\ c \notin DOMAIN book /\ DOMAIN book' = DOMAIN book \cup {c}
         /\ book'[c].sym = i.sym /\ book'[c].side = i.side
         /\ ~book'[c].foreign /\ book'[c].status = "new"
         /\ \A d \in DOMAIN book : book'[d] = book[d]
         /\ \A s, side : Pending(book', s, side) =
              Pending(book, s, side) + (IF s = i.sym /\ side = i.side THEN i.qty ELSE 0)
         /\ BuyLots(book') = BuyLots(book) + (IF i.side = "buy" THEN i.qty ELSE 0)
  <1>1. i \in [sym : Symbols, side : Sides, qty : Nat \ {0}] /\ c.intent = i
        /\ c \notin DOMAIN book /\ Place(c)
    BY DEF TypeInv, LocalsOK, Places
  <1>2. TypeOK /\ IsFiniteSet(DOMAIN book)
    BY DEF TypeInv, BookInv
  <1>3. DOMAIN book' = DOMAIN book \cup {c}
    BY <1>1 DEF Place
  <1>4. c.intent \in [sym : Symbols, side : Sides, qty : Nat \ {0}]
    BY <1>1
  <1>5. /\ IsFiniteSet(DOMAIN book') /\ OpenOrders(book') = OpenOrders(book) \cup {c}
        /\ book'[c].sym = c.intent.sym /\ book'[c].side = c.intent.side
        /\ ~book'[c].foreign /\ book'[c].status = "new"
        /\ \A d \in DOMAIN book : book'[d] = book[d]
        /\ \A s, side : Pending(book', s, side) =
             Pending(book, s, side)
               + (IF s = c.intent.sym /\ side = c.intent.side THEN c.intent.qty ELSE 0)
        /\ BuyLots(book') =
             BuyLots(book) + (IF c.intent.side = "buy" THEN c.intent.qty ELSE 0)
    BY <1>1, <1>2, <1>4, PlaceSums
  <1> QED BY <1>1, <1>3, <1>5

\* The same, of the order being submitted.
LEMMA Placed ==
  ASSUME TypeInv, BookInv, Places
  PROVE  /\ OpenOrders(book') = OpenOrders(book) \cup {run.current}
         /\ run.current \notin DOMAIN book
         /\ book'[run.current].sym = run.current.intent.sym
         /\ book'[run.current].side = run.current.intent.side
         /\ \A x \in DOMAIN book : book'[x] = book[x]
         /\ \A s, side : Pending(book', s, side) = Pending(book, s, side) +
              (IF s = run.current.intent.sym /\ side = run.current.intent.side
               THEN run.current.intent.qty ELSE 0)
         /\ BuyLots(book') = BuyLots(book) +
              (IF run.current.intent.side = "buy" THEN run.current.intent.qty ELSE 0)
  BY PlacedOrder

\* The plan an order was sent for goes into its name.
LEMMA BookPlaces ==
  ASSUME TypeInv, BookInv, PlanInv, Places PROVE BookInv'
  <1> DEFINE c == run.current
  <1>1. /\ IsFiniteSet(DOMAIN book') /\ OpenOrders(book') = OpenOrders(book) \cup {c}
        /\ OpenOrders(book) \subseteq DOMAIN book
        /\ \A d \in DOMAIN book : book'[d] = book[d]
    BY PlacedOrder DEF OpenOrders
  <1>2. c.plan = plan /\ plan \in Plans
    BY DEF PlanInv, Places, ClientOrderId
  <1> QED BY <1>1, <1>2 DEF BookInv

\* A SELL is placed for lots that no SELL is working for; a BUY takes none.
LEMMA OversellPlaces ==
  ASSUME TypeInv, BookInv, SellInv, Places, NoOversell PROVE NoOversell'
  <1> DEFINE i == run.current.intent
  <1>1. /\ i \in [sym : Symbols, side : Sides, qty : Nat \ {0}]
        /\ \A s, side : Pending(book', s, side) =
             Pending(book, s, side) + (IF s = i.sym /\ side = i.side THEN i.qty ELSE 0)
    BY PlacedOrder
  <1>2. ASSUME NEW s \in Symbols PROVE Pending(book', s, "sell") <= pos'[s]
    <2>1. /\ pos'[s] = pos[s] /\ pos[s] \in Int /\ Pending(book, s, "sell") \in Nat
          /\ Pending(book, s, "sell") <= pos[s]
      BY PendingNumber DEF Places, TypeInv, TypeOK, BookInv, NoOversell
    <2>2. CASE s = i.sym /\ i.side = "sell"
      <3>1. i.qty <= pos[s] - Pending(book, s, "sell")
        BY <2>2 DEF SellInv, Phase, Places
      <3>2. Pending(book', s, "sell") = Pending(book, s, "sell") + i.qty /\ i.qty \in Nat
        BY <1>1, <2>2
      <3> QED BY <2>1, <3>1, <3>2
    <2>3. CASE ~(s = i.sym /\ i.side = "sell")
      <3>1. Pending(book', s, "sell") = Pending(book, s, "sell") + 0
        BY <1>1, <2>3
      <3> QED BY <2>1, <3>1
    <2> QED BY <2>2, <2>3
  <1> QED BY <1>2 DEF NoOversell

\* A SELL is placed when no BUY of its symbol works, a BUY when no SELL works.
LEMMA CrossPlaces ==
  ASSUME TypeInv, BookInv, SellInv, BuyInv, Places, NoSelfCross PROVE NoSelfCross'
  <1> SUFFICES ASSUME NEW c \in OpenOrders(book'), NEW d \in OpenOrders(book'),
                      ~book'[c].foreign, book'[c].side = "buy",
                      ~book'[d].foreign, book'[d].side = "sell",
                      book'[c].sym = book'[d].sym
               PROVE  FALSE
    BY DEF NoSelfCross, Adaptive, OpenOrders
  <1> DEFINE n == run.current
             i == run.current.intent
  <1>1. /\ OpenOrders(book') = OpenOrders(book) \cup {n} /\ OpenOrders(book) \subseteq DOMAIN book
        /\ n \notin DOMAIN book
        /\ book'[n].sym = i.sym /\ book'[n].side = i.side
        /\ \A x \in DOMAIN book : book'[x] = book[x]
    <2>1. OpenOrders(book) \subseteq DOMAIN book
      BY DEF OpenOrders
    <2> QED BY <2>1, Placed
  <1>2. CASE n = d
    <2>1. Phase("sell") /\ pc = "submit"
      BY <1>1, <1>2 DEF Phase, Places
    <2>2. c \in OpenBuys(book) /\ book[c].sym = i.sym
      BY <1>1, <1>2 DEF OpenBuys
    <2> QED BY <2>1, <2>2 DEF SellInv
  <1>3. CASE n = c
    <2>1. Phase("buy")
      BY <1>1, <1>3 DEF Phase, Places
    <2>2. d \in OpenOrders(book) /\ book[d].side = "sell"
      BY <1>1, <1>3
    <2> QED BY <2>1, <2>2 DEF BuyInv
  <1>4. CASE n # c /\ n # d
    <2>1. c \in OpenOrders(book) /\ d \in OpenOrders(book) /\ book'[c] = book[c] /\ book'[d] = book[d]
      BY <1>1, <1>4
    <2> QED BY <2>1 DEF NoSelfCross, Adaptive, OpenOrders
  <1> QED BY <1>2, <1>3, <1>4

\* A BUY asks for what its target lacks, in a symbol with no order working.
LEMMA TargetPlaces ==
  ASSUME TypeInv, BookInv, PlanInv, BuyInv, Places, BuysWithinTarget PROVE BuysWithinTarget'
  <1> SUFFICES ASSUME NEW c \in OpenBuys(book'), ~book'[c].foreign
               PROVE  pos[book'[c].sym] + Pending(book', book'[c].sym, "buy")
                        <= c.plan.weights[book'[c].sym]
    BY DEF BuysWithinTarget, Adaptive, Places
  <1> DEFINE n == run.current
             i == run.current.intent
  <1>1. /\ i \in [sym : Symbols, side : Sides, qty : Nat \ {0}]
        /\ OpenOrders(book') = OpenOrders(book) \cup {n} /\ OpenOrders(book) \subseteq DOMAIN book
        /\ book'[n].sym = i.sym /\ book'[n].side = i.side
        /\ \A x \in DOMAIN book : book'[x] = book[x]
        /\ \A s, side : Pending(book', s, side) =
             Pending(book, s, side) + (IF s = i.sym /\ side = i.side THEN i.qty ELSE 0)
    <2>1. OpenOrders(book) \subseteq DOMAIN book
      BY DEF OpenOrders
    <2> QED BY <2>1, PlacedOrder
  <1>2. \A s \in Symbols : Pending(book, s, "buy") \in Nat /\ pos[s] \in Int
    BY PendingNumber DEF TypeInv, TypeOK, BookInv
  <1>3. CASE n = c
    <2>1. i.side = "buy" /\ Phase("buy") /\ pc = "submit"
      BY <1>1, <1>3 DEF OpenBuys, Phase, Places
    <2>2. /\ pos[i.sym] + i.qty <= plan.weights[i.sym]
          /\ \A x \in OpenOrders(book) : book[x].sym # i.sym
      BY <2>1 DEF BuyInv
    <2>3. Working(book, i.sym, "buy") = {}
      BY <2>2 DEF Working
    <2>4. Pending(book, i.sym, "buy") = 0
      BY <2>3, PendingNumber DEF TypeInv, TypeOK, BookInv
    <2>5. Pending(book', i.sym, "buy") = 0 + i.qty
      BY <1>1, <2>1, <2>4
    <2>6. c.plan = plan
      BY <1>3, <2>1 DEF PlanInv, ClientOrderId
    <2> QED BY <1>1, <1>2, <1>3, <2>2, <2>5, <2>6
  <1>4. CASE n # c
    <2>1. c \in OpenBuys(book) /\ book'[c] = book[c] /\ ~book[c].foreign
      BY <1>1, <1>4 DEF OpenBuys
    <2>2. PICK s \in Symbols : s = book[c].sym
      BY <2>1 DEF OpenBuys, OpenOrders, TypeInv, TypeOK, IsBook, Orders
    <2>3. pos[s] + Pending(book, s, "buy") <= c.plan.weights[s]
      BY <2>1, <2>2 DEF BuysWithinTarget, Adaptive
    <2>4. ~(s = i.sym /\ "buy" = i.side)
      <3> SUFFICES ASSUME s = i.sym, i.side = "buy" PROVE FALSE
        OBVIOUS
      <3>1. Phase("buy") /\ pc = "submit"
        BY DEF Phase, Places
      <3> QED BY <2>1, <2>2, <3>1 DEF BuyInv, OpenBuys
    <2>5. Pending(book', s, "buy") = Pending(book, s, "buy") + 0
      BY <1>1, <2>4
    <2>6. Pending(book', s, "buy") = Pending(book, s, "buy")
      BY <1>2, <2>5
    <2> QED BY <2>1, <2>2, <2>3, <2>6
  <1> QED BY <1>3, <1>4

\* A BUY asks for cash that is there and not yet asked for.
LEMMA FundsPlaces ==
  ASSUME TypeInv, BookInv, BuyInv, Places, BuysFunded PROVE BuysFunded'
  <1> SUFFICES ASSUME NEW c \in OpenBuys(book'), ~book'[c].foreign
               PROVE  cash - BuyLots(book') >= Reserve
    BY DEF BuysFunded, Adaptive, BuyLots, Places
  <1> DEFINE n == run.current
             i == run.current.intent
  <1>1. /\ i \in [sym : Symbols, side : Sides, qty : Nat \ {0}]
        /\ OpenOrders(book') = OpenOrders(book) \cup {n} /\ OpenOrders(book) \subseteq DOMAIN book
        /\ book'[n].side = i.side
        /\ \A x \in DOMAIN book : book'[x] = book[x]
        /\ BuyLots(book') = BuyLots(book) + (IF i.side = "buy" THEN i.qty ELSE 0)
    BY PlacedOrder DEF OpenOrders
  <1>2. BuyLots(book) \in Nat /\ cash \in Int /\ Reserve \in Nat
    BY BoundsAssumption, PendingNumber DEF TypeInv, TypeOK, BookInv
  <1>3. CASE i.side = "buy"
    <2>1. Phase("buy") /\ pc = "submit"
      BY <1>3 DEF Phase, Places
    <2>2. /\ i.qty <= run.spendable /\ run.spendable \in Int
          /\ run.spendable <= cash - BuyLots(book) - Reserve
      BY <2>1 DEF BuyInv
    <2>3. BuyLots(book') = BuyLots(book) + i.qty /\ i.qty \in Nat
      BY <1>1, <1>3
    <2> QED BY <1>2, <2>2, <2>3
  <1>4. CASE i.side # "buy"
    <2>1. BuyLots(book') = BuyLots(book) + 0
      BY <1>1, <1>4
    <2>2. c \in OpenBuys(book) /\ ~book[c].foreign
      BY <1>1, <1>4 DEF OpenBuys
    <2>3. cash - BuyLots(book) >= Reserve
      BY <2>2 DEF BuysFunded, Adaptive, BuyLots
    <2> QED BY <1>2, <2>1, <2>3
  <1> QED BY <1>3, <1>4

\* A BUY is sent as an intent of the plan.
LEMMA PlanPlaces ==
  ASSUME TypeInv, BookInv, PlanInv, BuyInv, Places, BuysBelongToPlan PROVE BuysBelongToPlan'
  <1> SUFFICES ASSUME NEW c \in OpenBuys(book'), ~book'[c].foreign, book'[c].status = "new"
               PROVE  BelongsToPlan(c, book[c])' \/ (plan' # NoPlan /\ plan'.riskOff)
    BY DEF BuysBelongToPlan, Adaptive
  <1> DEFINE n == run.current
             i == run.current.intent
  <1>0. plan' = plan /\ attempts' = attempts
    BY DEF Places
  <1>1. /\ OpenOrders(book') = OpenOrders(book) \cup {n} /\ OpenOrders(book) \subseteq DOMAIN book
        /\ book'[n].sym = i.sym /\ book'[n].side = i.side /\ n.intent = i
        /\ \A x \in DOMAIN book : book'[x] = book[x]
    BY PlacedOrder DEF OpenOrders
  <1>2. CASE n = c
    <2>1. Phase("buy") /\ pc = "submit"
      BY <1>1, <1>2 DEF OpenBuys, Phase, Places
    <2>2. plan.weights[i.sym] > 0
      BY <2>1 DEF BuyInv
    <2>3. /\ plan # NoPlan /\ plan.valid /\ i \in DOMAIN attempts
          /\ n = ClientOrderId(plan, i, attempts[i])
      BY <2>1 DEF PlanInv
    <2> QED BY <1>0, <1>1, <1>2, <2>2, <2>3 DEF BelongsToPlan
  <1>3. CASE n # c
    <2>1. c \in OpenBuys(book) /\ book'[c] = book[c]
      BY <1>1, <1>3 DEF OpenBuys
    <2>2. BelongsToPlan(c, book[c]) \/ (plan # NoPlan /\ plan.riskOff)
      BY <2>1 DEF BuysBelongToPlan, Adaptive
    <2> QED BY <1>0, <2>1, <2>2 DEF BelongsToPlan
  <1> QED BY <1>2, <1>3

(***************************************************************************)
(* Every step settles or places an order.                                  *)
(***************************************************************************)
\* A step either settles orders already sent or places the one in hand.
LEMMA StepKinds ==
  TypeInv /\ BookInv /\ [Next]_vars => Settles \/ Places
  <1> SUFFICES ASSUME TypeInv, BookInv, [Next]_vars PROVE Settles \/ Places
    OBVIOUS
  <1>0. TypeOK /\ IsFiniteSet(DOMAIN book)
    BY DEF TypeInv, BookInv
  <1>1. CASE UNCHANGED broker
    BY <1>0, <1>1, SettlesAlone
  <1>2. ASSUME NEW S, CancelAndStop(S) PROVE Settles
    <2>1. PICK sent \in SUBSET S : book' = CancelRequested(sent)
      BY <1>2 DEF CancelAndStop
    <2> QED BY <1>0, <1>2, <2>1, SettlesRequests DEF CancelAndStop
  <1>3. CASE ReadFails
    <2>1. \E S : book' = CancelRequested(S)
      BY <1>3 DEF ReadFails
    <2> QED BY <1>0, <1>3, <2>1, SettlesRequests DEF ReadFails
  <1>4. CASE SubmitAccepted
    BY <1>4 DEF SubmitAccepted, Places, durable
  <1>5. CASE SubmitAmbiguous
    <2>1. CASE Place(run.current)
      BY <1>5, <2>1 DEF SubmitAmbiguous, Places, durable
    <2>2. CASE UNCHANGED book
      BY <1>0, <1>5, <2>2, SettlesAlone DEF SubmitAmbiguous, broker
    <2> QED BY <1>5, <2>1, <2>2 DEF SubmitAmbiguous
  <1>6. ASSUME NEW c \in DOMAIN book, FillLot(c) PROVE Settles
    BY <1>0, <1>6, SettlesFill
  <1>7. ASSUME NEW c \in DOMAIN book, ConfirmCancel(c) \/ Expire(c) PROVE Settles
    <2>1. \E st \in RetryStatuses : book' = [book EXCEPT ![c].status = st]
      BY <1>7 DEF ConfirmCancel, Expire, RetryStatuses
    <2> QED BY <1>0, <1>7, <2>1, SettlesClosed DEF ConfirmCancel, Expire
  <1>8. CASE Preflight
    BY <1>1, <1>2, <1>8 DEF Preflight, StartCycle, CapacityPreflight, ReconcileSellCapacity,
         BuyPreflightPasses, BuyPreflightCancels
  <1>9. CASE Snapshot
    BY <1>1, <1>9 DEF Snapshot, ReadOrders, ReadPositions, SellCapacityHolds
  <1>10. CASE Decide
    BY <1>1, <1>2, <1>10 DEF Decide, PersistRiskOff, StayRiskOn, CancelUntrusted, NothingToCancel,
         AbortInvalidPlan, WaitForStalePlan, DropStalePlan, RescalePlan, ConsumeLatch,
         DeferPlan, AlreadyRebalanced, FreezeNewPlan, ReplaceByZeroPlan, UseStoredPlan
  <1>11. CASE Trade
    BY <1>1, <1>4, <1>11 DEF Trade, ReadAccount, SelectSell, SellsDone, SelectBuy, BuysDone,
         SubmitRefused, CompletePlan, KeepPlan
  <1>12. CASE Failure
    BY <1>1, <1>3, <1>5, <1>12 DEF Failure, PlanningFails, SymbolFails, Crash
  <1>13. CASE World
    BY <1>1, <1>13 DEF World, NextDay, Deploy, Reassess, CrossAverage, ToggleGate
  <1>14. CASE UNCHANGED vars
    BY <1>1, <1>14 DEF vars
  <1> QED
    BY <1>6, <1>7, <1>8, <1>9, <1>10, <1>11, <1>12, <1>13, <1>14 DEF Next, Executor, Broker

\* The book stays finite, and its working orders carry their plans.
LEMMA BookStep ==
  ASSUME TypeInv, BookInv, PlanInv, [Next]_vars PROVE BookInv'
  <1>1. ASSUME Settles PROVE BookInv'
    BY <1>1 DEF BookInv, Settles, Shrinks
  <1> QED BY <1>1, StepKinds, BookPlaces

(***************************************************************************)
(* Steps of the broker and of the world leave what a cycle knows true.     *)
(***************************************************************************)
Elsewhere ==
  /\ Settles /\ UNCHANGED <<pc, run, plan, attempts>>
  /\ pc # "idle" => release' = release

\* What the plan is trusted for survives the steps of the broker and the world.
LEMMA PlanElsewhere ==
  ASSUME PlanInv, Elsewhere PROVE PlanInv'
  <1>1. ASSUME NEW c, pc = "plan" PROVE Trusted(c) => Trusted(c)'
    BY <1>1 DEF Elsewhere, Trusted, StalePlan, StricterTier, BelongsToPlan
  <1> QED BY <1>1 DEF PlanInv, Elsewhere

\* The headroom of a sell survives the steps of the broker and the world.
LEMMA SellElsewhere ==
  ASSUME TypeInv, TypeOK', BookInv, SellInv, Elsewhere PROVE SellInv'
  <1> USE DEF Elsewhere
  <1>1. Shrinks(book, book') /\ pos \in [Symbols -> Int] /\ TypeOK
    BY DEF Settles, TypeInv, TypeOK
  <1>2. ASSUME pc = "positions" PROVE (OrdersOK /\ Shrinks(run.orders, book))'
    <2>1. OrdersOK /\ Shrinks(run.orders, book)
      BY <1>2 DEF SellInv
    <2>2. Shrinks(run.orders, book')
      <3>1. ASSUME NEW c \in OpenOrders(book')
            PROVE  /\ Remaining(book'[c]) \in Int /\ Remaining(book[c]) \in Int
                   /\ Remaining(run.orders[c]) \in Int
        <4>1. c \in OpenOrders(book) /\ c \in OpenOrders(run.orders)
          BY <1>1, <2>1 DEF Shrinks
        <4> QED BY <1>1, <2>1, <4>1, OpenLots DEF TypeOK, OrdersOK
      <3> QED BY <1>1, <2>1, <3>1 DEF Shrinks
    <2> QED BY <2>1, <2>2 DEF OrdersOK
  <1>3. OrdersOK /\ BuysRead => (OrdersOK /\ BuysRead)'
    BY <1>1 DEF OrdersOK, BuysRead, OpenBuys, Shrinks
  <1>4. ASSUME OrdersOK, NEW s \in Symbols, Headroom(s) PROVE Headroom(s)'
    <2>1. /\ pos[s] \in Int /\ pos'[s] \in Int
          /\ Pending(book, s, "sell") \in Nat /\ Pending(book', s, "sell") \in Nat
          /\ pos'[s] - Pending(book', s, "sell") >= pos[s] - Pending(book, s, "sell")
      BY <1>1, SettledNumbers
    <2>2. Pending(run.orders, s, "sell") \in Nat /\ run.pos[s] \in Int
      BY <1>4, PendingNumber DEF OrdersOK, TypeInv, LocalsOK
    <2> QED BY <1>4, <2>1, <2>2 DEF Headroom
  <1>5. ASSUME pc = "submit", Phase("sell"), NEW i, i = run.current.intent
        PROVE  /\ i.qty <= pos'[i.sym] - Pending(book', i.sym, "sell")
               /\ \A c \in OpenBuys(book') : book'[c].sym # i.sym
    <2>1. i.qty \in Nat /\ i.sym \in Symbols
      BY <1>5 DEF TypeInv, LocalsOK
    <2>2. /\ pos[i.sym] \in Int /\ pos'[i.sym] \in Int
          /\ Pending(book, i.sym, "sell") \in Nat /\ Pending(book', i.sym, "sell") \in Nat
          /\ pos'[i.sym] - Pending(book', i.sym, "sell") >= pos[i.sym] - Pending(book, i.sym, "sell")
      BY <1>1, <2>1, SettledNumbers
    <2>3. /\ i.qty <= pos[i.sym] - Pending(book, i.sym, "sell")
          /\ \A c \in OpenBuys(book) : book[c].sym # i.sym
      BY <1>5 DEF SellInv
    <2>4. \A c \in OpenBuys(book') : book'[c].sym # i.sym
      BY <1>1, <2>3 DEF OpenBuys, Shrinks
    <2> QED BY <2>1, <2>2, <2>3, <2>4
  <1>6. pc' = pc /\ run' = run /\ run.todo \subseteq Symbols
    BY DEF TypeInv, LocalsOK
  <1>7. Phase("sell")' <=> Phase("sell")
    BY <1>6 DEF Phase
  <1> QED BY <1>2, <1>3, <1>4, <1>5, <1>6, <1>7 DEF SellInv

\* The funds of a buy survive the steps of the broker and the world.
LEMMA BuyElsewhere ==
  ASSUME TypeInv, TypeOK', BookInv, SnapInv, BuyInv, Elsewhere PROVE BuyInv'
  <1> USE DEF Elsewhere
  <1>1. /\ Shrinks(book, book') /\ pos \in [Symbols -> Int] /\ TypeOK
        /\ cash \in Int /\ cash' \in Int /\ Reserve \in Nat
        /\ BuyLots(book) \in Nat /\ BuyLots(book') \in Nat
        /\ cash' - BuyLots(book') >= cash - BuyLots(book)
    BY BoundsAssumption, PendingNumber DEF Settles, TypeInv, TypeOK, BookInv
  <1>2. ASSUME pc \in {"sell", "submit", "buy"}, Quiet PROVE cash' = cash
    BY <1>2 DEF SnapInv, SnapshotExact, Deciding, Settles
  <1>3. ASSUME NEW s \in Symbols, \A c \in OpenOrders(book) : book[c].sym # s
        PROVE  pos'[s] = pos[s] /\ \A c \in OpenOrders(book') : book'[c].sym # s
    BY <1>1, <1>3 DEF Settles, Shrinks
  <1>4. ASSUME Phase("buy")
        PROVE  /\ \A c \in OpenOrders(book') : book'[c].side = "buy" /\ book'[c].sym \notin run.todo
               /\ \A s \in run.todo : pos'[s] = run.pos[s]
               /\ run.spendable <= cash' - BuyLots(book') - Reserve
    <2>1. /\ \A c \in OpenOrders(book) : book[c].side = "buy" /\ book[c].sym \notin run.todo
          /\ \A s \in run.todo : pos[s] = run.pos[s]
          /\ run.spendable \in Int
          /\ run.spendable <= cash - BuyLots(book) - Reserve
      BY <1>4 DEF BuyInv
    <2>2. run.todo \subseteq Symbols
      BY DEF TypeInv, LocalsOK
    <2>3. \A c \in OpenOrders(book') : book'[c].side = "buy" /\ book'[c].sym \notin run.todo
      BY <1>1, <2>1 DEF Shrinks
    <2>4. \A s \in run.todo : pos'[s] = run.pos[s]
      BY <1>3, <2>1, <2>2
    <2>5. run.spendable <= cash' - BuyLots(book') - Reserve
      BY <1>1, <2>1
    <2> QED BY <2>3, <2>4, <2>5
  <1>5. ASSUME pc = "submit", Phase("buy")
        PROVE  /\ pos'[run.current.intent.sym] = pos[run.current.intent.sym]
               /\ \A c \in OpenOrders(book') : book'[c].sym # run.current.intent.sym
    <2>1. run.current.intent.sym \in Symbols
      BY <1>5 DEF TypeInv, LocalsOK
    <2>2. \A c \in OpenOrders(book) : book[c].sym # run.current.intent.sym
      BY <1>5 DEF BuyInv
    <2> QED BY <1>3, <2>1, <2>2
  <1>6. pc' = pc /\ run' = run /\ plan' = plan
    OBVIOUS
  <1>7. (Phase("buy")' <=> Phase("buy")) /\ (Quiet' <=> Quiet)
    BY <1>6 DEF Phase, Quiet
  <1> QED BY <1>2, <1>4, <1>5, <1>6, <1>7 DEF BuyInv

(***************************************************************************)
(* Steps of a cycle: what the SELL phase rests on.                         *)
(***************************************************************************)
\* Outside of these labels nothing is claimed of the SELL phase.
LEMMA SellOut ==
  ASSUME pc' \notin {"positions", "sell", "submit"} \cup Considering PROVE SellInv'
  BY DEF SellInv, Phase

\* A step of the decision leaves the account, and what was read, alone.
LEMMA SellKeep ==
  ASSUME SellInv, UNCHANGED broker, pc \in Considering, pc' \in Considering,
         run'.orders = run.orders, run'.pos = run.pos
  PROVE  SellInv'
  <1>1. pos' = pos /\ book' = book
    BY DEF broker
  <1>2. OrdersOK /\ BuysRead /\ \A s \in Symbols : Headroom(s)
    BY DEF SellInv
  <1>3. OrdersOK' /\ BuysRead' /\ \A s \in Symbols : Headroom(s)'
    BY <1>1, <1>2 DEF OrdersOK, BuysRead, Headroom
  <1>4. pc' \notin {"positions", "sell", "submit"}
    BY DEF Considering
  <1> QED BY <1>3, <1>4 DEF SellInv, Phase

\* A step of the SELL phase that sends nothing.
LEMMA SellContinue ==
  ASSUME SellInv, UNCHANGED broker, Phase("sell"), pc' = "sell",
         run'.orders = run.orders, run'.pos = run.pos, run'.todo \subseteq run.todo
  PROVE  SellInv'
  <1>1. pos' = pos /\ book' = book
    BY DEF broker
  <1>2. OrdersOK /\ BuysRead /\ \A s \in run.todo : Headroom(s)
    BY DEF SellInv
  <1>3. OrdersOK' /\ BuysRead' /\ \A s \in run.todo : Headroom(s)'
    BY <1>1, <1>2 DEF OrdersOK, BuysRead, Headroom
  <1> QED BY <1>3 DEF SellInv, Phase, Considering

\* The open orders are read: the copy is the book.
LEMMA SellReadOrders ==
  ASSUME TypeInv, BookInv, ReadOrders PROVE SellInv'
  <1> DEFINE o == [c \in OpenOrders(book) |-> book[c]]
  <1>1. pc' = "positions" /\ run'.orders = o /\ book' = book
    BY DEF ReadOrders, Goto, TypeInv, LocalsOK, Locals, broker
  <1>2. DOMAIN o = OpenOrders(book) /\ \A c \in OpenOrders(book) : o[c] = book[c]
    OBVIOUS
  <1>3. o = [c \in DOMAIN o |-> o[c]]
    OBVIOUS
  <1> HIDE DEF o
  <1>4. OpenOrders(book) \in SUBSET DOMAIN book /\ IsFiniteSet(DOMAIN book)
    BY DEF OpenOrders, BookInv
  <1>5. IsFiniteSet(DOMAIN o)
    BY <1>2, <1>4, FS_Subset
  <1>6. IsBook(o)
    BY <1>2, <1>4 DEF IsBook, TypeInv, TypeOK
  <1>7. \A c \in DOMAIN o : o[c].status \in OpenStatuses
    BY <1>2 DEF OpenOrders
  <1>8. Shrinks(o, book)
    <2>1. OpenOrders(o) = OpenOrders(book)
      BY <1>2 DEF OpenOrders
    <2>2. \A c \in OpenOrders(book) : Remaining(book[c]) \in Nat
      BY OpenLots DEF TypeInv, TypeOK
    <2> QED BY <1>2, <2>1, <2>2 DEF Shrinks
  <1>9. (OrdersOK /\ Shrinks(run.orders, book))'
    BY <1>1, <1>3, <1>5, <1>6, <1>7, <1>8 DEF OrdersOK
  <1> QED BY <1>1, <1>9 DEF SellInv, Phase, Considering

\* The positions are read: nothing but fills happened since the orders were.
LEMMA SellReadPositions ==
  ASSUME TypeInv, BookInv, SellInv, ReadPositions PROVE SellInv'
  <1>1. /\ pc = "positions" /\ pc' = "reconcile" /\ run'.orders = run.orders
        /\ run'.pos = pos /\ pos' = pos /\ book' = book
    BY DEF ReadPositions, Goto, TypeInv, LocalsOK, Locals, broker
  <1>2. OrdersOK /\ Shrinks(run.orders, book)
    BY <1>1 DEF SellInv
  <1>3. BuysRead
    BY <1>2 DEF BuysRead, Shrinks, OpenBuys
  <1>4. ASSUME NEW s \in Symbols PROVE Headroom(s)'
    <2>1. /\ IsBook(book) /\ IsFiniteSet(DOMAIN book)
          /\ IsBook(run.orders) /\ IsFiniteSet(DOMAIN run.orders)
      BY <1>2 DEF TypeInv, TypeOK, BookInv, OrdersOK
    <2>2. /\ Pending(book, s, "sell") <= Pending(run.orders, s, "sell")
          /\ Pending(book, s, "sell") \in Nat /\ Pending(run.orders, s, "sell") \in Nat
      BY <1>2, <2>1, SmallerBook, PendingNumber
    <2>3. pos[s] \in Int
      BY DEF TypeInv, TypeOK
    <2> QED BY <1>1, <2>2, <2>3 DEF Headroom
  <1>5. (OrdersOK /\ BuysRead)'
    BY <1>1, <1>2, <1>3 DEF OrdersOK, BuysRead
  <1> QED BY <1>1, <1>4, <1>5 DEF SellInv, Phase, Considering

\* The account is read: every symbol the sell phase considers has its headroom.
LEMMA SellReadAccount ==
  ASSUME TypeInv, SellInv, ReadAccount PROVE SellInv'
  <1>1. /\ pc = "account" /\ pc' = "sell" /\ run'.orders = run.orders /\ run'.pos = run.pos
        /\ run'.todo \subseteq Symbols /\ pos' = pos /\ book' = book
    BY DEF ReadAccount, Goto, TypeInv, LocalsOK, Locals, broker, DirectionalLongs
  <1>2. OrdersOK /\ BuysRead /\ \A s \in Symbols : Headroom(s)
    BY <1>1 DEF SellInv, Considering
  <1>3. OrdersOK' /\ BuysRead' /\ \A s \in run'.todo : Headroom(s)'
    BY <1>1, <1>2 DEF OrdersOK, BuysRead, Headroom
  <1> QED BY <1>1, <1>3 DEF SellInv, Phase, Considering

\* A sell is chosen within the headroom of its symbol.
LEMMA SellSelectSell ==
  ASSUME TypeInv, BookInv, PlanInv, SellInv, SelectSell PROVE SellInv'
  <1>1. pc = "sell" /\ UNCHANGED broker /\ pos' = pos /\ book' = book
    BY DEF SelectSell, broker
  <1>2. PICK s \in run.todo :
          \/ (Block(s) \/ Skip(s)) /\ pc' = pc
          \/ ~BuyBlocksSell(s) /\ \E q \in 1 .. run.pos[s] :
               q = SellQuantity(s) /\ ReserveIntent(Intent(s, "sell", q))
    BY DEF SelectSell, TryIntent, Intent
  <1>3. CASE (Block(s) \/ Skip(s)) /\ pc' = pc
    <2>1. run'.orders = run.orders /\ run'.pos = run.pos /\ run'.todo \subseteq run.todo
      BY <1>3 DEF Block, Skip, TypeInv, LocalsOK, Locals
    <2> QED BY <1>1, <1>3, <2>1, SellContinue DEF Phase
  <1>4. ASSUME ~BuyBlocksSell(s), NEW q \in 1 .. run.pos[s], q = SellQuantity(s),
               ReserveIntent(Intent(s, "sell", q))
        PROVE  SellInv'
    <2>1. /\ OrdersOK /\ BuysRead /\ \A x \in run.todo : Headroom(x)
          /\ plan.weights[s] \in Nat /\ s \in Symbols
          /\ run.pos[s] \in Int /\ pos[s] \in Int
      BY <1>1 DEF SellInv, Phase, PlanInv, Plans, TypeInv, TypeOK, LocalsOK
    <2>2. /\ pc' = "submit" /\ run'.orders = run.orders /\ run'.pos = run.pos
          /\ run'.todo = run.todo \ {s}
          /\ run'.current.intent = Intent(s, "sell", q)
      BY <1>4 DEF ReserveIntent, Goto, ClientOrderId, Intent, TypeInv, LocalsOK, Locals
    <2>3. /\ run'.current.intent.sym = s /\ run'.current.intent.side = "sell"
          /\ run'.current.intent.qty = q
      BY <2>2 DEF Intent
    <2>4. /\ Pending(book, s, "sell") \in Nat /\ Pending(run.orders, s, "sell") \in Nat
          /\ Pending(run.orders, s, "buy") \in Nat
      BY <2>1, PendingNumber DEF OrdersOK, BookInv, TypeInv, TypeOK
    <2>5. q <= pos[s] - Pending(book, s, "sell")
      BY <1>4, <2>1, <2>4 DEF SellQuantity, Headroom
    <2>6. Pending(run.orders, s, "buy") = 0
      BY <1>4, <2>4 DEF BuyBlocksSell
    <2>7. Working(run.orders, s, "buy") = {}
      BY <2>1, <2>6, PendingNumber DEF OrdersOK
    <2>8. \A c \in OpenBuys(book) : book[c].sym # s
      BY <2>1, <2>7 DEF BuysRead, Working, OpenBuys
    <2>9. OrdersOK' /\ BuysRead' /\ \A x \in run'.todo : Headroom(x)'
      BY <1>1, <2>1, <2>2 DEF OrdersOK, BuysRead, Headroom
    <2> QED
      BY <1>1, <2>2, <2>3, <2>5, <2>8, <2>9 DEF SellInv, Phase, Considering
  <1> QED BY <1>2, <1>3, <1>4

\* A SELL sent, or refused, is no longer due in this cycle.
LEMMA SellSubmit ==
  ASSUME TypeInv, BookInv, SellInv, pc = "submit", NEW accepted, AfterSubmit(accepted),
         UNCHANGED broker \/ Places
  PROVE  SellInv'
  <1> DEFINE i == run.current.intent
  <1>1. /\ pc' = i.side /\ run'.orders = run.orders /\ run'.pos = run.pos /\ run'.todo = run.todo
        /\ i.side \in Sides
    BY DEF AfterSubmit, Goto, TypeInv, LocalsOK, Locals
  <1>2. CASE i.side # "sell"
    BY <1>1, <1>2, SellOut DEF Sides, Considering
  <1>3. CASE i.side = "sell" /\ UNCHANGED broker
    BY <1>1, <1>3, SellContinue DEF Phase
  <1>4. CASE i.side = "sell" /\ Places
    <2>1. /\ OrdersOK /\ BuysRead /\ \A s \in run.todo : Headroom(s)
          /\ i.sym \notin run.todo
      BY <1>4 DEF SellInv, Phase
    <2>2. /\ OpenOrders(book') = OpenOrders(book) \cup {run.current}
          /\ OpenOrders(book) \subseteq DOMAIN book
          /\ book'[run.current].side = "sell"
          /\ \A x \in DOMAIN book : book'[x] = book[x]
          /\ \A s, side : Pending(book', s, side) =
               Pending(book, s, side) + (IF s = i.sym /\ side = i.side THEN i.qty ELSE 0)
          /\ pos' = pos
      <3>1. /\ OpenOrders(book') = OpenOrders(book) \cup {run.current}
            /\ book'[run.current].side = i.side
            /\ \A x \in DOMAIN book : book'[x] = book[x]
            /\ \A s, side : Pending(book', s, side) =
                 Pending(book, s, side) + (IF s = i.sym /\ side = i.side THEN i.qty ELSE 0)
        BY <1>4, Placed
      <3>2. OpenOrders(book) \subseteq DOMAIN book
        BY DEF OpenOrders
      <3>3. pos' = pos
        BY <1>4 DEF Places
      <3>4. i.side = "sell"
        BY <1>4
      <3> HIDE DEF i
      <3> QED BY <3>1, <3>2, <3>3, <3>4
    <2>3. OrdersOK' /\ BuysRead'
      BY <1>1, <2>1, <2>2 DEF OrdersOK, BuysRead, OpenBuys
    <2>4. ASSUME NEW s \in run.todo PROVE Headroom(s)'
      <3>1. Pending(book', s, "sell") = Pending(book, s, "sell") + 0
        BY <2>1, <2>2
      <3>2. Pending(book, s, "sell") \in Nat
        BY PendingNumber DEF BookInv, TypeInv, TypeOK
      <3> QED BY <1>1, <2>1, <2>2, <3>1, <3>2 DEF Headroom
    <2> QED BY <1>1, <1>4, <2>3, <2>4 DEF SellInv, Phase, Considering
  <1> QED BY <1>2, <1>3, <1>4

\* A symbol that fails leaves the others of its phase to be considered.
LEMMA SellSymbolFails ==
  ASSUME TypeInv, SellInv, SymbolFails PROVE SellInv'
  <1>1. /\ pc \in {"sell", "buy"} /\ pc' = pc /\ UNCHANGED broker
        /\ run'.orders = run.orders /\ run'.pos = run.pos /\ run'.todo \subseteq run.todo
    BY DEF SymbolFails, TypeInv, LocalsOK, Locals
  <1>2. CASE pc = "sell"
    BY <1>1, <1>2, SellContinue DEF Phase
  <1>3. CASE pc = "buy"
    BY <1>1, <1>3, SellOut DEF Considering
  <1> QED BY <1>1, <1>2, <1>3

\* Steps of the broker and of the world.
LEMMA ElsewhereSteps ==
  ASSUME TypeInv, BookInv,
         (\E c \in DOMAIN book : FillLot(c) \/ ConfirmCancel(c) \/ Expire(c)) \/ World
           \/ UNCHANGED vars
  PROVE  Elsewhere
  <1>0. [Next]_vars
    BY DEF Next, Broker
  <1>1. pc' = pc /\ run' = run /\ plan' = plan /\ attempts' = attempts /\ (pc # "idle" => release' = release)
    BY DEF FillLot, ConfirmCancel, Expire, World, NextDay, Deploy, Reassess, CrossAverage,
           ToggleGate, vars, durable, world
  <1>2. ~Places
    <2> SUFFICES ASSUME Places PROVE FALSE
      OBVIOUS
    <2>1. pc = "submit" /\ DOMAIN book' = DOMAIN book \cup {run.current} /\ run.current \notin DOMAIN book
      BY DEF Places, Place
    <2>2. DOMAIN book' = DOMAIN book
      BY DEF FillLot, ConfirmCancel, Expire, World, NextDay, Deploy, Reassess, CrossAverage,
             ToggleGate, vars, broker
    <2> QED BY <2>1, <2>2
  <1>3. Settles
    BY <1>0, <1>2, StepKinds
  <1> QED BY <1>1, <1>3 DEF Elsewhere

\* Every action keeps the headroom of a sell.
LEMMA SellStep ==
  ASSUME TypeInv, BookInv, PlanInv, SellInv, [Next]_vars PROVE SellInv'
  <1>0. LocalsOK /\ TypeOK'
    BY TypeStep DEF TypeInv
  <1>1. CASE pc' \in {"idle", "capacity", "preflight", "orders", "buy", "finish"}
    BY <1>1, SellOut DEF Considering
  <1>2. CASE ReadOrders
    BY <1>2, SellReadOrders
  <1>3. CASE ReadPositions
    BY <1>3, SellReadPositions
  <1>4. CASE SellCapacityHolds
    BY <1>4, <1>0, SellKeep DEF SellCapacityHolds, Goto, Considering
  <1>5. CASE PersistRiskOff
    <2>1. run'.orders = run.orders /\ run'.pos = run.pos
      BY <1>0, <1>5 DEF PersistRiskOff, Goto, LocalsOK, Locals
    <2> QED BY <1>5, <2>1, SellKeep DEF PersistRiskOff, Goto, Considering
  <1>6. CASE StayRiskOn \/ NothingToCancel \/ DropStalePlan \/ RescalePlan \/ ConsumeLatch
             \/ FreezeNewPlan \/ ReplaceByZeroPlan \/ UseStoredPlan
    BY <1>6, SellKeep DEF StayRiskOn, NothingToCancel, DropStalePlan, RescalePlan, ConsumeLatch,
       FreezeNewPlan, NoPlanRiskOn, ReplaceByZeroPlan, UseStoredPlan, Goto, Considering
  <1>7. CASE ReadAccount
    BY <1>7, SellReadAccount
  <1>8. CASE SelectSell
    BY <1>8, SellSelectSell
  <1>9. CASE SelectBuy
    <2>1. pc' = "buy" \/ Phase("buy")'
      <3>1. \/ pc' = pc
            \/ \E s, q : ReserveIntent(Intent(s, "buy", q))
        BY <1>9 DEF SelectBuy, TryIntent
      <3>2. ASSUME NEW s, NEW q, ReserveIntent(Intent(s, "buy", q)) PROVE Phase("buy")'
        BY <1>0, <3>2 DEF ReserveIntent, Goto, Intent, ClientOrderId, Phase, LocalsOK, Locals
      <3>3. pc = "buy"
        BY <1>9 DEF SelectBuy
      <3> QED BY <3>1, <3>2, <3>3
    <2>2. pc' \in {"buy", "submit"} /\ ~Phase("sell")'
      BY <2>1 DEF Phase
    <2> QED BY <2>2 DEF SellInv, Considering
  <1>10. CASE SymbolFails
    BY <1>10, SellSymbolFails
  <1>11. CASE SubmitAccepted \/ SubmitRefused \/ SubmitAmbiguous
    <2>1. pc = "submit" /\ \E accepted \in BOOLEAN : AfterSubmit(accepted)
      BY <1>11 DEF SubmitAccepted, SubmitRefused, SubmitAmbiguous
    <2>2. UNCHANGED broker \/ Places
      BY <1>11 DEF SubmitAccepted, SubmitRefused, SubmitAmbiguous, Places, durable, broker
    <2> QED BY <2>1, <2>2, SellSubmit
  <1>12. CASE (\E c \in DOMAIN book : FillLot(c) \/ ConfirmCancel(c) \/ Expire(c)) \/ World
              \/ UNCHANGED vars
    BY <1>0, <1>12, ElsewhereSteps, SellElsewhere
  <1>13. CASE StartCycle \/ CapacityPreflight \/ BuyPreflightPasses \/ BuysDone \/ SellsDone
    BY <1>1, <1>13 DEF StartCycle, CapacityPreflight, BuyPreflightPasses, BuysDone, SellsDone, Goto
  <1>14. CASE ReconcileSellCapacity \/ BuyPreflightCancels \/ CancelUntrusted \/ WaitForStalePlan
              \/ AbortInvalidPlan \/ DeferPlan \/ AlreadyRebalanced \/ CompletePlan \/ KeepPlan
              \/ ReadFails \/ PlanningFails \/ Crash
    BY <1>1, <1>14 DEF ReconcileSellCapacity, BuyPreflightCancels, CancelUntrusted, CancelAndStop,
       WaitForStalePlan, AbortInvalidPlan, DeferPlan, AlreadyRebalanced, CompletePlan, KeepPlan,
       ReadFails, PlanningFails, Crash, Stop, Goto
  <1> QED
    BY <1>2, <1>3, <1>4, <1>5, <1>6, <1>7, <1>8, <1>9, <1>10, <1>11, <1>12, <1>13, <1>14
    DEF Next, Executor, Preflight, Snapshot, Decide, Trade, Failure, Broker

(***************************************************************************)
(* Steps of a cycle: what the BUY phase rests on.                          *)
(***************************************************************************)
\* The lesser of two numbers.
LEMMA MinOfTwo ==
  ASSUME NEW m \in Int, NEW n \in Int
  PROVE  Min({m, n}) \in Int /\ Min({m, n}) <= m /\ Min({m, n}) <= n
  <1>1. \E x \in {m, n} : \A y \in {m, n} : x <= y
    <2>1. CASE m <= n
      BY <2>1
    <2>2. CASE n <= m
      BY <2>2
    <2> QED BY <2>1, <2>2
  <1>2. Min({m, n}) \in {m, n} /\ \A y \in {m, n} : Min({m, n}) <= y
    BY <1>1 DEF Min
  <1> QED BY <1>2

\* Outside of the two phases nothing is claimed of the BUY phase, except that
\* no BUY was sent.
LEMMA BuyOut ==
  ASSUME pc' \notin {"sell", "submit", "buy"}, run'.bought => pc' = "finish" PROVE BuyInv'
  BY DEF BuyInv, Phase

\* A step before the phases sends nothing.
LEMMA BuyBefore ==
  ASSUME BuyInv, pc \notin {"submit", "buy", "finish"}, pc' \notin {"sell", "submit", "buy"},
         run'.bought => run.bought
  PROVE  BuyInv'
  <1>1. ~run.bought
    BY DEF BuyInv, Phase
  <1> QED BY <1>1, BuyOut

\* A cycle that stops forgets what it sent.
LEMMA BuyStop == ASSUME Stop PROVE BuyInv'
  BY BuyOut DEF Stop, Goto, Blank

\* A step of the SELL phase that sends nothing.
LEMMA BuySell ==
  ASSUME BuyInv, UNCHANGED broker, pc = "sell", pc' \in {"sell", "submit"}, ~Phase("buy")',
         run'.cash = run.cash, run'.bought => run.bought, Quiet' => Quiet
  PROVE  BuyInv'
  <1>1. ~run.bought /\ (Quiet => run.cash = cash)
    BY DEF BuyInv, Phase
  <1>2. cash' = cash
    BY DEF broker
  <1> QED BY <1>1, <1>2 DEF BuyInv

\* A step of the BUY phase that sends nothing, and gives no cash back.
LEMMA BuyContinue ==
  ASSUME TypeInv, BookInv, BuyInv, UNCHANGED broker, UNCHANGED plan, pc = "buy", pc' = "buy",
         run'.orders = run.orders, run'.pos = run.pos, run'.cash = run.cash,
         run'.todo \subseteq run.todo, Quiet' => Quiet,
         run'.spendable \in Int, run'.spendable <= run.spendable
  PROVE  BuyInv'
  <1>1. pos' = pos /\ cash' = cash /\ book' = book
    BY DEF broker
  <1>2. /\ \A c \in OpenOrders(book) : book[c].side = "buy" /\ book[c].sym \notin run.todo
        /\ run.orders = NoOrders
        /\ \A s \in run.todo : pos[s] = run.pos[s] /\ plan.weights[s] > 0
        /\ run.spendable \in Int
        /\ run.spendable <= cash - BuyLots(book) - Reserve
        /\ Quiet => run.cash = cash
    BY DEF BuyInv, Phase
  <1>3. BuyLots(book) \in Nat /\ cash \in Int /\ Reserve \in Nat
    BY BoundsAssumption, PendingNumber DEF TypeInv, TypeOK, BookInv
  <1>4. run'.spendable <= cash - BuyLots(book) - Reserve
    BY <1>2, <1>3
  <1> QED BY <1>1, <1>2, <1>4 DEF BuyInv, Phase

\* A BUY asks for no more than its target lacks and the cash allows.
LEMMA BuyNumber ==
  ASSUME TypeInv, PlanInv, BuyInv, pc = "buy", NEW s \in run.todo
  PROVE  /\ BuyQuantity(s) \in Int /\ BuyQuantity(s) <= run.spendable
         /\ pos[s] + BuyQuantity(s) <= plan.weights[s]
  <1>1. /\ run.orders = NoOrders /\ pos[s] = run.pos[s] /\ run.spendable \in Int
        /\ s \in Symbols /\ pos[s] \in Int /\ plan.weights[s] \in Nat
    BY DEF BuyInv, Phase, PlanInv, Plans, TypeInv, TypeOK, LocalsOK
  <1>2. Working(run.orders, s, "buy") = {}
    BY <1>1 DEF Working, OpenOrders, NoOrders
  <1>3. Pending(run.orders, s, "buy") = 0
    BY <1>2, SumEmpty DEF Pending
  <1>4. PICK m \in Int : m = plan.weights[s] - run.pos[s] - Pending(run.orders, s, "buy")
    BY <1>1, <1>3
  <1>5. BuyQuantity(s) = Min({m, run.spendable})
    BY <1>4 DEF BuyQuantity
  <1>6. BuyQuantity(s) \in Int /\ BuyQuantity(s) <= m /\ BuyQuantity(s) <= run.spendable
    BY <1>1, <1>5, MinOfTwo
  <1>7. m = plan.weights[s] - pos[s] - 0
    BY <1>1, <1>3, <1>4
  <1> QED BY <1>1, <1>6, <1>7

\* SELLs are chosen with the cash as it was read.
LEMMA BuySelectSell ==
  ASSUME TypeInv, BuyInv, SelectSell PROVE BuyInv'
  <1>1. pc = "sell" /\ UNCHANGED broker
    BY DEF SelectSell
  <1>2. PICK s \in run.todo :
          \/ (Block(s) \/ Skip(s)) /\ pc' = pc
          \/ \E q \in 1 .. run.pos[s] : ReserveIntent(Intent(s, "sell", q))
    BY DEF SelectSell, TryIntent, Intent
  <1>3. CASE Block(s) /\ pc' = pc
    <2>1. run'.cash = run.cash /\ run'.bought = run.bought /\ run'.blocked
      BY <1>3 DEF Block, TypeInv, LocalsOK, Locals
    <2> QED BY <1>1, <1>3, <2>1, BuySell DEF Phase, Quiet
  <1>4. CASE Skip(s) /\ pc' = pc
    <2>1. /\ run'.cash = run.cash /\ run'.orders = run.orders
          /\ run'.sold = run.sold /\ run'.bought = run.bought /\ run'.blocked = run.blocked
      BY <1>4 DEF Skip, TypeInv, LocalsOK, Locals
    <2> QED BY <1>1, <1>4, <2>1, BuySell DEF Phase, Quiet
  <1>5. ASSUME NEW q, ReserveIntent(Intent(s, "sell", q)) PROVE BuyInv'
    <2>1. /\ pc' = "submit" /\ run'.cash = run.cash /\ run'.orders = run.orders
          /\ run'.sold = run.sold /\ run'.bought = run.bought /\ run'.blocked = run.blocked
      BY <1>5 DEF ReserveIntent, Goto, TypeInv, LocalsOK, Locals
    <2>2. run'.current.intent = Intent(s, "sell", q)
      BY <1>5 DEF ReserveIntent, Goto, ClientOrderId, TypeInv, LocalsOK, Locals
    <2>3. ~Phase("buy")'
      BY <2>1, <2>2 DEF Phase, Intent
    <2> QED BY <1>1, <2>1, <2>3, BuySell DEF Quiet
  <1> QED BY <1>2, <1>3, <1>4, <1>5

\* The BUY phase opens on an account with no order working, whose cash is the
\* cash that was read.
LEMMA BuySellsDone ==
  ASSUME TypeInv, BookInv, SnapInv, SellInv, BuyInv, SellsDone PROVE BuyInv'
  <1>1. /\ pc = "sell" /\ pos' = pos /\ cash' = cash /\ book' = book /\ plan' = plan
        /\ ~run.bought
    BY DEF SellsDone, broker, durable, BuyInv, Phase
  <1>2. CASE ~BuyPhaseOpen
    <2>1. pc' = "finish"
      BY <1>2 DEF SellsDone, Goto
    <2> QED BY <2>1, BuyOut
  <1>3. CASE BuyPhaseOpen
    <2>1. /\ pc' = "buy" /\ run'.todo = {s \in Symbols : plan.weights[s] > 0}
          /\ run'.spendable = run.cash - Reserve /\ run'.cash = run.cash
          /\ run'.orders = run.orders /\ run'.pos = run.pos
      BY <1>3 DEF SellsDone, Goto, TypeInv, LocalsOK, Locals
    <2>2. /\ ~run.sold /\ ~run.blocked /\ OpenBuys(run.orders) = {}
          /\ \A c \in DOMAIN run.orders : run.orders[c].side # "sell"
      BY <1>3 DEF BuyPhaseOpen, SellsPending
    <2>3. OrdersOK
      BY <1>1 DEF SellInv, Phase
    <2>4. DOMAIN run.orders = {}
      BY <2>2, <2>3 DEF OrdersOK, IsBook, Orders, Sides, OpenBuys, OpenOrders
    <2>5. run.orders = NoOrders
      BY <2>3, <2>4 DEF OrdersOK, NoOrders
    <2>6. Quiet
      BY <1>1, <2>2, <2>5 DEF Quiet
    <2>7. OpenOrders(book) = {} /\ run.pos = pos /\ run.cash = cash
      BY <1>1, <2>6 DEF SnapInv, SnapshotExact, Deciding, BuyInv
    <2>8. BuyLots(book) = 0
      BY <2>7, SumEmpty DEF BuyLots, OpenBuys
    <2>9. cash \in Int /\ Reserve \in Nat
      BY BoundsAssumption DEF TypeInv, TypeOK
    <2>10. run'.spendable \in Int /\ run'.spendable <= cash - 0 - Reserve
      BY <2>1, <2>7, <2>9
    <2> QED
      BY <1>1, <2>1, <2>5, <2>7, <2>8, <2>10 DEF BuyInv, Phase
  <1> QED BY <1>2, <1>3

\* A BUY is reserved for what its target lacks.
LEMMA BuySelectBuy ==
  ASSUME TypeInv, BookInv, PlanInv, BuyInv, SelectBuy PROVE BuyInv'
  <1>1. pc = "buy" /\ UNCHANGED broker /\ UNCHANGED plan /\ run.spendable \in Int
    BY DEF SelectBuy, BuyInv, Phase
  <1>2. PICK s \in run.todo :
          \/ (Block(s) \/ run' = [run EXCEPT !.todo = {}, !.blocked = TRUE]) /\ pc' = pc
          \/ Skip(s) /\ pc' = pc
          \/ \E q \in 1 .. plan.weights[s] :
               q = BuyQuantity(s) /\ ReserveIntent(Intent(s, "buy", q))
    BY DEF SelectBuy, TryIntent, Intent
  <1>3. CASE (Block(s) \/ run' = [run EXCEPT !.todo = {}, !.blocked = TRUE]) /\ pc' = pc
    <2>1. /\ run'.orders = run.orders /\ run'.pos = run.pos /\ run'.cash = run.cash
          /\ run'.todo \subseteq run.todo /\ run'.spendable = run.spendable /\ run'.blocked
      BY <1>3 DEF Block, TypeInv, LocalsOK, Locals
    <2> QED BY <1>1, <1>3, <2>1, BuyContinue DEF Quiet
  <1>4. CASE Skip(s) /\ pc' = pc
    <2>1. /\ run'.orders = run.orders /\ run'.pos = run.pos /\ run'.cash = run.cash
          /\ run'.todo \subseteq run.todo /\ run'.spendable = run.spendable
          /\ run'.sold = run.sold /\ run'.bought = run.bought /\ run'.blocked = run.blocked
      BY <1>4 DEF Skip, TypeInv, LocalsOK, Locals
    <2> QED BY <1>1, <1>4, <2>1, BuyContinue DEF Quiet
  <1>5. ASSUME NEW q \in 1 .. plan.weights[s], q = BuyQuantity(s),
               ReserveIntent(Intent(s, "buy", q))
        PROVE  BuyInv'
    <2>1. /\ pc' = "submit" /\ run'.orders = run.orders /\ run'.pos = run.pos
          /\ run'.cash = run.cash /\ run'.spendable = run.spendable
          /\ run'.todo = run.todo \ {s}
          /\ run'.sold = run.sold /\ run'.bought = run.bought /\ run'.blocked = run.blocked
      BY <1>5 DEF ReserveIntent, Goto, Intent, TypeInv, LocalsOK, Locals
    <2>2. run'.current.intent = Intent(s, "buy", q)
      BY <1>5 DEF ReserveIntent, Goto, ClientOrderId, TypeInv, LocalsOK, Locals
    <2>3. /\ run'.current.intent.sym = s /\ run'.current.intent.side = "buy"
          /\ run'.current.intent.qty = q
      BY <2>2 DEF Intent
    <2>4. q <= run.spendable /\ pos[s] + q <= plan.weights[s]
      BY <1>1, <1>5, BuyNumber
    <2>5. pos' = pos /\ cash' = cash /\ book' = book /\ plan' = plan
      BY <1>1 DEF broker
    <2>6. Quiet' => run'.cash = cash'
      BY <1>1, <2>1, <2>5 DEF Quiet, BuyInv
    <2>7. Phase("buy") /\ Phase("buy")'
      BY <1>1, <2>1, <2>3 DEF Phase
    <2>8. /\ \A c \in OpenOrders(book) : book[c].side = "buy" /\ book[c].sym \notin run.todo
          /\ run.orders = NoOrders
          /\ \A x \in run.todo : pos[x] = run.pos[x] /\ plan.weights[x] > 0
          /\ run.spendable <= cash - BuyLots(book) - Reserve
      BY <2>7 DEF BuyInv
    <2> QED BY <1>1, <2>1, <2>3, <2>4, <2>5, <2>6, <2>7, <2>8 DEF BuyInv
  <1> QED BY <1>2, <1>3, <1>4, <1>5

\* A symbol that fails leaves the rest of its phase, with no more to spend.
LEMMA BuySymbolFails ==
  ASSUME TypeInv, BookInv, PlanInv, BuyInv, SymbolFails PROVE BuyInv'
  <1>1. pc \in {"sell", "buy"} /\ pc' = pc /\ UNCHANGED broker /\ UNCHANGED plan
    BY DEF SymbolFails, durable
  <1>2. /\ run'.orders = run.orders /\ run'.pos = run.pos /\ run'.cash = run.cash
        /\ run'.todo \subseteq run.todo /\ run'.bought = run.bought /\ run'.blocked
    BY DEF SymbolFails, TypeInv, LocalsOK, Locals
  <1>3. ~Quiet'
    BY <1>2 DEF Quiet
  <1>4. CASE pc = "sell"
    BY <1>1, <1>2, <1>3, <1>4, BuySell DEF Phase
  <1>5. CASE pc = "buy"
    <2>1. run.spendable \in Int
      BY <1>5 DEF BuyInv, Phase
    <2>2. PICK s \in run.todo : \/ run'.spendable = run.spendable
                                \/ /\ BuyQuantity(s) > 0
                                   /\ run'.spendable = run.spendable - BuyQuantity(s)
      BY DEF SymbolFails, TypeInv, LocalsOK, Locals
    <2>3. BuyQuantity(s) \in Int
      BY <1>5, BuyNumber
    <2>4. run'.spendable \in Int /\ run'.spendable <= run.spendable
      BY <2>1, <2>2, <2>3
    <2> QED BY <1>1, <1>2, <1>3, <1>5, <2>4, BuyContinue
  <1> QED BY <1>1, <1>4, <1>5

\* A BUY sent, or refused, spends what it asks for.
LEMMA BuySubmit ==
  ASSUME TypeInv, BookInv, BuyInv, pc = "submit", NEW accepted \in BOOLEAN,
         AfterSubmit(accepted), UNCHANGED broker \/ Places, UNCHANGED plan
  PROVE  BuyInv'
  <1> DEFINE i == run.current.intent
  <1>1. /\ pc' = i.side /\ run'.orders = run.orders /\ run'.pos = run.pos /\ run'.todo = run.todo
        /\ i \in [sym : Symbols, side : Sides, qty : Nat \ {0}]
    BY DEF AfterSubmit, Goto, TypeInv, LocalsOK, Locals
  <1>2. ~Quiet'
    BY <1>1 DEF Quiet, AfterSubmit, Goto, TypeInv, LocalsOK, Locals, Sides
  <1>3. CASE i.side = "sell"
    <2>1. ~run.bought
      BY <1>3 DEF BuyInv, Phase
    <2>2. ~run'.bought
      BY <1>3, <2>1 DEF AfterSubmit, Goto, TypeInv, LocalsOK, Locals
    <2> QED BY <1>1, <1>2, <1>3, <2>2 DEF BuyInv, Phase
  <1>4. CASE i.side = "buy"
    <2>1. run'.spendable = run.spendable - i.qty
      BY <1>4 DEF AfterSubmit, Goto, TypeInv, LocalsOK, Locals
    <2>2. /\ \A c \in OpenOrders(book) : book[c].side = "buy" /\ book[c].sym \notin run.todo
          /\ run.orders = NoOrders
          /\ \A x \in run.todo : pos[x] = run.pos[x] /\ plan.weights[x] > 0
          /\ run.spendable \in Int /\ run.spendable <= cash - BuyLots(book) - Reserve
          /\ i.sym \notin run.todo
      BY <1>4 DEF BuyInv, Phase
    <2>3. BuyLots(book) \in Nat /\ cash \in Int /\ Reserve \in Nat /\ i.qty \in Nat
      BY <1>1, BoundsAssumption, PendingNumber DEF TypeInv, TypeOK, BookInv
    <2>4. /\ pos' = pos /\ cash' = cash
          /\ \A c \in OpenOrders(book') : book'[c].side = "buy" /\ book'[c].sym \notin run.todo
          /\ BuyLots(book') \in Int /\ BuyLots(book') <= BuyLots(book) + i.qty
      <3>1. CASE UNCHANGED broker
        BY <2>2, <2>3, <3>1 DEF broker
      <3>2. CASE Places
        <4>1. /\ OpenOrders(book') = OpenOrders(book) \cup {run.current}
              /\ book'[run.current].sym = i.sym /\ book'[run.current].side = i.side
              /\ \A x \in DOMAIN book : book'[x] = book[x]
              /\ BuyLots(book') = BuyLots(book) + (IF i.side = "buy" THEN i.qty ELSE 0)
          BY <3>2, Placed
        <4>2. OpenOrders(book) \subseteq DOMAIN book
          BY DEF OpenOrders
        <4>3. BuyLots(book') = BuyLots(book) + i.qty
          BY <1>4, <4>1
        <4>4. \A c \in OpenOrders(book') : book'[c].side = "buy" /\ book'[c].sym \notin run.todo
          BY <1>4, <2>2, <4>1, <4>2
        <4> QED BY <2>3, <3>2, <4>3, <4>4 DEF Places
      <3> QED BY <3>1, <3>2
    <2>5. run'.spendable \in Int /\ run'.spendable <= cash' - BuyLots(book') - Reserve
      BY <2>1, <2>2, <2>3, <2>4
    <2> QED BY <1>1, <1>2, <1>4, <2>2, <2>4, <2>5 DEF BuyInv, Phase
  <1> QED BY <1>1, <1>3, <1>4 DEF Sides

\* Every action keeps what the BUY phase rests on.
LEMMA BuyStep ==
  ASSUME TypeInv, BookInv, SnapInv, PlanInv, SellInv, BuyInv, [Next]_vars PROVE BuyInv'
  <1>0. LocalsOK /\ TypeOK'
    BY TypeStep DEF TypeInv
  <1>1. CASE Stop
    BY <1>1, BuyStop
  <1>2. CASE StartCycle
    <2>1. pc' = "capacity" /\ ~run'.bought
      BY <1>2 DEF StartCycle, Goto, Blank
    <2> QED BY <2>1, BuyOut
  <1>3. CASE CapacityPreflight \/ BuyPreflightPasses \/ ReadOrders \/ ReadPositions
             \/ SellCapacityHolds
    <2>1. /\ pc \in {"capacity", "preflight", "orders", "positions", "reconcile"}
          /\ pc' \in {"preflight", "orders", "positions", "reconcile", "risk"}
          /\ run'.bought = run.bought
      BY <1>0, <1>3 DEF CapacityPreflight, BuyPreflightPasses, ReadOrders, ReadPositions,
         SellCapacityHolds, Goto, LocalsOK, Locals
    <2> QED BY <2>1, BuyBefore
  <1>4. CASE PersistRiskOff \/ StayRiskOn \/ NothingToCancel \/ DropStalePlan \/ RescalePlan
             \/ ConsumeLatch \/ FreezeNewPlan \/ ReplaceByZeroPlan \/ UseStoredPlan
    <2>1. /\ pc \in {"risk", "cancel", "plan", "target"}
          /\ pc' \in {"cancel", "plan", "target", "account"}
          /\ run'.bought = run.bought
      BY <1>0, <1>4 DEF PersistRiskOff, StayRiskOn, NothingToCancel, DropStalePlan, RescalePlan,
         ConsumeLatch, FreezeNewPlan, NoPlanRiskOn, ReplaceByZeroPlan, UseStoredPlan, Goto,
         LocalsOK, Locals
    <2> QED BY <2>1, BuyBefore
  <1>5. CASE ReadAccount
    <2>1. pc = "account" /\ pc' = "sell" /\ run'.cash = cash /\ run'.bought = run.bought
          /\ cash' = cash
      BY <1>0, <1>5 DEF ReadAccount, Goto, LocalsOK, Locals, broker
    <2>2. ~run.bought
      BY <2>1 DEF BuyInv, Phase
    <2> QED BY <2>1, <2>2 DEF BuyInv, Phase
  <1>6. CASE SelectSell
    BY <1>6, BuySelectSell
  <1>7. CASE SellsDone
    BY <1>7, BuySellsDone
  <1>8. CASE SelectBuy
    BY <1>8, BuySelectBuy
  <1>9. CASE BuysDone
    BY <1>9, BuyOut DEF BuysDone, Goto
  <1>10. CASE SymbolFails
    BY <1>10, BuySymbolFails
  <1>11. CASE SubmitAccepted \/ SubmitRefused \/ SubmitAmbiguous
    <2>1. pc = "submit" /\ UNCHANGED plan /\ \E accepted \in BOOLEAN : AfterSubmit(accepted)
      BY <1>11 DEF SubmitAccepted, SubmitRefused, SubmitAmbiguous, durable
    <2>2. UNCHANGED broker \/ Places
      BY <1>11 DEF SubmitAccepted, SubmitRefused, SubmitAmbiguous, Places, durable, broker
    <2> QED BY <2>1, <2>2, BuySubmit
  <1>12. CASE (\E c \in DOMAIN book : FillLot(c) \/ ConfirmCancel(c) \/ Expire(c)) \/ World
              \/ UNCHANGED vars
    BY <1>0, <1>12, ElsewhereSteps, BuyElsewhere
  <1>13. CASE ReconcileSellCapacity \/ BuyPreflightCancels \/ CancelUntrusted \/ WaitForStalePlan
              \/ AbortInvalidPlan \/ DeferPlan \/ AlreadyRebalanced \/ CompletePlan \/ KeepPlan
              \/ ReadFails \/ PlanningFails \/ Crash
    BY <1>1, <1>13 DEF ReconcileSellCapacity, BuyPreflightCancels, CancelUntrusted, CancelAndStop,
       WaitForStalePlan, AbortInvalidPlan, DeferPlan, AlreadyRebalanced, CompletePlan, KeepPlan,
       ReadFails, PlanningFails, Crash
  <1> QED
    BY <1>2, <1>3, <1>4, <1>5, <1>6, <1>7, <1>8, <1>9, <1>10, <1>11, <1>12, <1>13
    DEF Next, Executor, Preflight, Snapshot, Decide, Trade, Failure, Broker

(***************************************************************************)
(* Steps of a cycle: the plan it trades.                                   *)
(***************************************************************************)
\* Outside of these labels nothing is claimed of the plan.
LEMMA PlanOut ==
  ASSUME pc' \notin {"plan", "target", "account", "sell", "submit", "buy"} PROVE PlanInv'
  BY DEF PlanInv

\* From here on a well-formed plan is traded.
LEMMA PlanChosen ==
  ASSUME pc' \in {"target", "account"}, plan' \in Plans, plan'.valid PROVE PlanInv'
  BY PlansAssumption DEF PlanInv

\* A step that sends nothing keeps the plan.
LEMMA PlanKept ==
  ASSUME PlanInv, pc \in {"target", "account", "sell", "submit", "buy"}, UNCHANGED plan,
         pc' \in {"account", "sell", "buy", "finish"}
  PROVE  PlanInv'
  BY DEF PlanInv

\* An intent is reserved for the plan before its order is named after both.
LEMMA PlanReserve ==
  ASSUME TypeInv, PlanInv, pc \in {"sell", "buy"}, UNCHANGED plan, NEW i, ReserveIntent(i)
  PROVE  PlanInv'
  <1>1. /\ pc' = "submit" /\ run'.current = ClientOrderId(plan, i, NextAttempt(i))
        /\ i \in DOMAIN attempts' /\ attempts'[i] = NextAttempt(i)
    BY DEF ReserveIntent, Goto, TypeInv, LocalsOK, Locals
  <1>2. run'.current.intent = i
    BY <1>1 DEF ClientOrderId
  <1>3. plan \in Plans /\ plan # NoPlan /\ plan.valid
    BY DEF PlanInv
  <1> QED BY <1>1, <1>2, <1>3 DEF PlanInv

\* With every cancellation done, each open BUY is an intent of the plan.
LEMMA PlanNothingToCancel == ASSUME NothingToCancel PROVE PlanInv'
  <1>1. pc' = "plan" /\ run' = run /\ plan' = plan /\ attempts' = attempts /\ release' = release
    BY DEF NothingToCancel, Goto, durable, world
  <1>2. \A c \in OpenBuys(run.orders) : Trusted(c)
    BY DEF NothingToCancel, Cancellations, Trusted
  <1>3. \A c \in OpenBuys(run.orders) : Trusted(c)'
    BY <1>1, <1>2 DEF Trusted, StalePlan, StricterTier, BelongsToPlan
  <1> QED BY <1>1, <1>3 DEF PlanInv

\* A plan frozen by this release is well-formed.
LEMMA NewPlanValid ==
  ASSUME NEW m, NEW sig, NEW w, NEW b, NEW t PROVE NewPlan(m, sig, w, b, t).valid
  BY DEF NewPlan

\* Every action keeps what holds of the plan.
LEMMA PlanStep ==
  ASSUME TypeInv, BookInv, PlanInv, [Next]_vars PROVE PlanInv'
  <1>0. LocalsOK /\ LocalsOK' /\ TypeOK
    BY TypeStep DEF TypeInv
  <1>1. CASE NothingToCancel
    BY <1>1, PlanNothingToCancel
  <1>2. CASE DropStalePlan
    <2>1. pc' = "plan" /\ run' = run /\ OpenBuys(run.orders) = {}
      BY <1>2 DEF DropStalePlan, PlanInv, Trusted
    <2> QED BY <2>1 DEF PlanInv
  <1>3. CASE ConsumeLatch
    <2>1. pc' = "plan" /\ run' = run /\ plan' = plan /\ OpenBuys(run.orders) = {}
      BY <1>3 DEF ConsumeLatch, PlanInv, Trusted, BelongsToPlan
    <2> QED BY <2>1 DEF PlanInv
  <1>4. CASE RescalePlan \/ FreezeNewPlan \/ ReplaceByZeroPlan
    <2>1. pc' \in {"target", "account"} /\ plan'.valid
      BY <1>4, NewPlanValid DEF RescalePlan, FreezeNewPlan, ReplaceByZeroPlan, StorePlan, ZeroPlan, Goto
    <2> QED BY <1>0, <2>1, PlanChosen DEF LocalsOK
  <1>5. CASE UseStoredPlan
    <2>1. pc' = "account" /\ plan' = plan /\ plan.valid
      BY <1>5 DEF UseStoredPlan, Goto, durable, PlanInv
    <2> QED BY <1>0, <2>1, PlanChosen DEF LocalsOK
  <1>6. CASE ReadAccount \/ SellsDone \/ BuysDone \/ SymbolFails
    BY <1>6, PlanKept DEF ReadAccount, SellsDone, BuysDone, SymbolFails, Goto, durable
  <1>7. CASE SelectSell \/ SelectBuy
    <2>1. /\ pc \in {"sell", "buy"} /\ UNCHANGED plan
          /\ pc' = pc \/ \E s, side, q : ReserveIntent(Intent(s, side, q))
      BY <1>7 DEF SelectSell, SelectBuy, TryIntent
    <2> QED BY <2>1, PlanKept, PlanReserve
  <1>8. CASE SubmitAccepted \/ SubmitRefused \/ SubmitAmbiguous
    <2>1. pc = "submit" /\ UNCHANGED plan /\ pc' = run.current.intent.side
      BY <1>8 DEF SubmitAccepted, SubmitRefused, SubmitAmbiguous, AfterSubmit, Goto, durable
    <2> QED BY <1>0, <2>1, PlanKept DEF LocalsOK, Sides
  <1>9. CASE (\E c \in DOMAIN book : FillLot(c) \/ ConfirmCancel(c) \/ Expire(c)) \/ World
             \/ UNCHANGED vars
    BY <1>9, ElsewhereSteps, PlanElsewhere
  <1>10. CASE StartCycle \/ CapacityPreflight \/ BuyPreflightPasses \/ ReadOrders \/ ReadPositions
              \/ SellCapacityHolds \/ PersistRiskOff \/ StayRiskOn
    BY <1>10, PlanOut DEF StartCycle, CapacityPreflight, BuyPreflightPasses, ReadOrders,
       ReadPositions, SellCapacityHolds, PersistRiskOff, StayRiskOn, Goto
  <1>11. CASE ReconcileSellCapacity \/ BuyPreflightCancels \/ CancelUntrusted \/ WaitForStalePlan
              \/ AbortInvalidPlan \/ DeferPlan \/ AlreadyRebalanced \/ CompletePlan \/ KeepPlan
              \/ ReadFails \/ PlanningFails \/ Crash
    BY <1>11, PlanOut DEF ReconcileSellCapacity, BuyPreflightCancels, CancelUntrusted,
       CancelAndStop, WaitForStalePlan, AbortInvalidPlan, DeferPlan, AlreadyRebalanced,
       CompletePlan, KeepPlan, ReadFails, PlanningFails, Crash, Stop, Goto
  <1> QED
    BY <1>1, <1>2, <1>3, <1>4, <1>5, <1>6, <1>7, <1>8, <1>9, <1>10, <1>11
    DEF Next, Executor, Preflight, Snapshot, Decide, Trade, Failure, Broker

(***************************************************************************)
(* Open BUYs and the stored plan.                                          *)
(***************************************************************************)
\* A risk-off plan may replace any other.
LEMMA BelongsRiskOff ==
  ASSUME TypeInv, plan' = ZeroPlan(Signal) PROVE BuysBelongToPlan'
  <1>1. plan'.riskOff
    BY DEF ZeroPlan, NewPlan
  <1>2. plan' # NoPlan
    BY PlansAssumption, ZeroPlanType
  <1> QED BY <1>1, <1>2 DEF BuysBelongToPlan

\* A plan is otherwise replaced when no BUY is working.
LEMMA BelongsNone ==
  ASSUME UNCHANGED book, OpenBuys(book) = {} PROVE BuysBelongToPlan'
  BY DEF BuysBelongToPlan, OpenBuys, OpenOrders

\* The orders read tell that none is.
LEMMA BelongsRead ==
  ASSUME SellInv, PlanInv, pc = "plan", UNCHANGED book, \A c : ~Trusted(c)
  PROVE  BuysBelongToPlan'
  <1>1. OpenBuys(run.orders) = {}
    BY DEF PlanInv
  <1>2. OpenBuys(book) = {}
    BY <1>1 DEF SellInv, Considering, BuysRead
  <1> QED BY <1>2, BelongsNone

\* An attempt is counted on only when the order of the last one is closed.
LEMMA BelongsReserve ==
  ASSUME BuysBelongToPlan, UNCHANGED <<plan, book>>, NEW i, ReserveIntent(i)
  PROVE  BuysBelongToPlan'
  <1> SUFFICES ASSUME NEW c \in OpenBuys(book), ~book[c].foreign, book[c].status = "new"
               PROVE  BelongsToPlan(c, book[c])' \/ (plan # NoPlan /\ plan.riskOff)
    BY DEF BuysBelongToPlan, Adaptive, OpenBuys, OpenOrders
  <1>1. CASE plan # NoPlan /\ plan.riskOff
    BY <1>1
  <1>2. CASE BelongsToPlan(c, book[c])
    <2>1. /\ c.intent \in DOMAIN attempts /\ c \in DOMAIN book
          /\ c = ClientOrderId(plan, c.intent, attempts[c.intent])
      BY <1>2 DEF BelongsToPlan, OpenBuys, OpenOrders
    <2>2. c.intent # i
      <3> SUFFICES ASSUME c.intent = i PROVE FALSE
        OBVIOUS
      <3>1. PriorOrder(i) = c
        BY <2>1 DEF PriorOrder
      <3>2. book[c].status \in RetryStatuses
        BY <2>1, <3>1 DEF ReserveIntent, Reservable
      <3> QED BY <3>2 DEF RetryStatuses
    <2>3. c.intent \in DOMAIN attempts' /\ attempts'[c.intent] = attempts[c.intent]
      BY <2>1, <2>2 DEF ReserveIntent
    <2> QED BY <1>2, <2>1, <2>3 DEF BelongsToPlan
  <1>3. BelongsToPlan(c, book[c]) \/ (plan # NoPlan /\ plan.riskOff)
    BY DEF BuysBelongToPlan, Adaptive
  <1> QED BY <1>1, <1>2, <1>3

\* Every action leaves the open BUYs to the stored plan.
LEMMA BelongsStep ==
  ASSUME TypeInv, BookInv, SnapInv, PlanInv, SellInv, BuyInv, BuysBelongToPlan, [Next]_vars
  PROVE  BuysBelongToPlan'
  <1>1. CASE Places
    BY <1>1, PlanPlaces
  <1>2. CASE Settles /\ UNCHANGED <<plan, attempts>>
    BY <1>2, BelongsSettles
  <1>3. Settles \/ Places
    BY StepKinds
  <1>4. CASE PersistRiskOff
    BY <1>4, <1>2, <1>3, <1>1, BelongsRiskOff DEF PersistRiskOff, StorePlan
  <1>5. CASE ReplaceByZeroPlan
    BY <1>5, BelongsRiskOff DEF ReplaceByZeroPlan, StorePlan
  <1>6. CASE DropStalePlan \/ RescalePlan
    BY <1>6, BelongsRead DEF DropStalePlan, RescalePlan, Trusted, broker
  <1>7. CASE FreezeNewPlan
    BY <1>7, BelongsRead DEF FreezeNewPlan, NoPlanRiskOn, Trusted, BelongsToPlan, broker
  <1>8. CASE CompletePlan
    <2>1. OpenOrders(book) = {} /\ UNCHANGED book
      BY <1>8 DEF CompletePlan, SnapInv, SnapshotExact, Deciding, Quiet, broker
    <2> QED BY <2>1, BelongsNone DEF OpenBuys
  <1>9. CASE SelectSell \/ SelectBuy
    <2>1. /\ UNCHANGED <<plan, book>>
          /\ UNCHANGED <<plan, attempts>> \/ \E s, side, q : ReserveIntent(Intent(s, side, q))
      BY <1>9 DEF SelectSell, SelectBuy, TryIntent, broker
    <2> QED BY <1>1, <1>2, <1>3, <2>1, BelongsReserve
  <1>10. CASE UNCHANGED <<plan, attempts>>
    BY <1>1, <1>2, <1>3, <1>10
  <1>11. CASE Preflight \/ Snapshot
    BY <1>10, <1>11 DEF Preflight, Snapshot, StartCycle, CapacityPreflight, ReconcileSellCapacity,
       BuyPreflightPasses, BuyPreflightCancels, CancelAndStop, ReadOrders, ReadPositions,
       SellCapacityHolds, durable
  <1>12. CASE Decide
    BY <1>4, <1>5, <1>6, <1>7, <1>10, <1>12 DEF Decide, StayRiskOn, CancelUntrusted, CancelAndStop,
       NothingToCancel, AbortInvalidPlan, WaitForStalePlan, ConsumeLatch, DeferPlan,
       AlreadyRebalanced, UseStoredPlan, durable
  <1>13. CASE Trade
    BY <1>8, <1>9, <1>10, <1>13 DEF Trade, ReadAccount, SellsDone, BuysDone, SubmitAccepted,
       SubmitRefused, KeepPlan, durable
  <1>14. CASE Failure
    BY <1>10, <1>14 DEF Failure, ReadFails, PlanningFails, SymbolFails, SubmitAmbiguous, Crash, durable
  <1>15. CASE \E c \in DOMAIN book : FillLot(c) \/ ConfirmCancel(c) \/ Expire(c)
    BY <1>10, <1>15 DEF FillLot, ConfirmCancel, Expire, durable
  <1>16. CASE World
    BY <1>10, <1>16 DEF World, NextDay, Deploy, Reassess, CrossAverage, ToggleGate, durable
  <1>17. CASE UNCHANGED vars
    BY <1>10, <1>17 DEF vars, durable
  <1> QED
    BY <1>11, <1>12, <1>13, <1>14, <1>15, <1>16, <1>17 DEF Next, Executor, Broker

(***************************************************************************)
(* The invariant of a trading account.                                     *)
(***************************************************************************)
\* What a cycle knows and what the book holds, together.
TradeInv == TypeInv /\ SnapInv /\ BookInv /\ PlanInv /\ SellInv /\ BuyInv

\* The first invocation finds a finite book of foreign orders.
LEMMA TradeInit == Init => TradeInv
  <1> SUFFICES ASSUME Init PROVE TradeInv
    OBVIOUS
  <1>1. IsFiniteSet(DOMAIN book) /\ \A c \in DOMAIN book : book[c].foreign
    BY AccountsAssumption DEF Init
  <1>2. BookInv
    BY <1>1 DEF BookInv, OpenOrders
  <1>3. pc = "idle" /\ ~run.bought
    BY DEF Init, Blank
  <1>4. SnapInv
    BY <1>3 DEF SnapInv, SnapshotExact, Deciding
  <1>5. PlanInv /\ SellInv /\ BuyInv
    BY <1>3 DEF PlanInv, SellInv, BuyInv, Phase, Considering
  <1> QED BY <1>2, <1>4, <1>5, TypeInit DEF TradeInv

\* Every action keeps it.
LEMMA TradeStep == TradeInv /\ [Next]_vars => TradeInv'
  BY TypeStep, SnapStep, BookStep, PlanStep, SellStep, BuyStep DEF TradeInv

\* A first invocation finds no order of its own.
LEMMA ForeignInit == Init => \A c \in DOMAIN book : ~Adaptive(c)
  BY AccountsAssumption DEF Init, Adaptive

\* A long-only account stays long-only: when no more lots are offered than are
\* held at first, no interleaving of fills, partial fills, expiries, unknown
\* answers, retries and restarts makes the executor offer more.
THEOREM OversellCorrect ==
  ASSUME \A a \in InitialAccounts, s \in Symbols : Pending(a.book, s, "sell") <= a.pos[s]
  PROVE  Spec => []NoOversell
  <1>1. Init => NoOversell
    BY DEF Init, NoOversell
  <1>2. TradeInv /\ NoOversell /\ [Next]_vars => NoOversell'
    BY StepKinds, TypeStep, OversellSettles, OversellPlaces DEF TradeInv, TypeInv
  <1> QED BY <1>1, <1>2, TradeInit, TradeStep, PTL DEF Spec

\* The executor never works a BUY and a SELL of its own in one symbol, in one
\* cycle or across cycles, releases and plans.
THEOREM SelfCrossCorrect == Spec => []NoSelfCross
  <1>1. Init => NoSelfCross
    BY ForeignInit DEF NoSelfCross
  <1>2. TradeInv /\ NoSelfCross /\ [Next]_vars => NoSelfCross'
    BY StepKinds, CrossSettles, CrossPlaces DEF TradeInv
  <1> QED BY <1>1, <1>2, TradeInit, TradeStep, PTL DEF Spec

\* A BUY that fills leaves no more than the target of the plan it was sent
\* for, whatever the executor was told of earlier attempts.
THEOREM TargetCorrect == Spec => []BuysWithinTarget
  <1>1. Init => BuysWithinTarget
    BY ForeignInit DEF BuysWithinTarget, OpenBuys, OpenOrders
  <1>2. TradeInv /\ BuysWithinTarget /\ [Next]_vars => BuysWithinTarget'
    BY StepKinds, TypeStep, TargetSettles, TargetPlaces DEF TradeInv, TypeInv
  <1> QED BY <1>1, <1>2, TradeInit, TradeStep, PTL DEF Spec

\* All working BUYs together leave the cash reserve untouched.
THEOREM FundedCorrect == Spec => []BuysFunded
  <1>1. Init => BuysFunded
    BY ForeignInit DEF BuysFunded, OpenBuys, OpenOrders
  <1>2. TradeInv /\ BuysFunded /\ [Next]_vars => BuysFunded'
    BY StepKinds, TypeStep, FundsSettle, FundsPlaces DEF TradeInv, TypeInv
  <1> QED BY <1>1, <1>2, TradeInit, TradeStep, PTL DEF Spec

\* A BUY that nobody asked to cancel is an intent of the stored plan, unless
\* a risk-off plan has just replaced it.
THEOREM BelongsCorrect == Spec => []BuysBelongToPlan
  <1>1. Init => BuysBelongToPlan
    BY ForeignInit DEF BuysBelongToPlan, OpenBuys, OpenOrders
  <1>2. TradeInv /\ BuysBelongToPlan /\ [Next]_vars => BuysBelongToPlan'
    BY BelongsStep DEF TradeInv
  <1> QED BY <1>1, <1>2, TradeInit, TradeStep, PTL DEF Spec

(***************************************************************************)
(* One rebalance a month.                                                  *)
(***************************************************************************)
\* Months follow the calendar.
LEMMA MonthGrows ==
  ASSUME NEW d \in Nat PROVE Month(d) \in Nat /\ Month(d + 1) \in Nat /\ Month(d) <= Month(d + 1)
  <1> DEFINE k == SessionsPerMonth
  <1>1. k \in Nat \ {0}
    BY BoundsAssumption
  <1>2. /\ d \div k \in Nat /\ (d + 1) \div k \in Nat
        /\ d % k \in 0 .. (k - 1) /\ (d + 1) % k \in 0 .. (k - 1)
        /\ d = k * (d \div k) + (d % k)
        /\ d + 1 = k * ((d + 1) \div k) + ((d + 1) % k)
    BY <1>1
  <1>3. ASSUME NEW p \in Nat, NEW q \in Nat, NEW r \in 0 .. (k - 1), NEW t \in 0 .. (k - 1),
               k * p + r + 1 = k * q + t
        PROVE  p <= q
    <2> SUFFICES ASSUME q + 1 <= p PROVE FALSE
      BY <1>3
    <2>1. k * (q + 1) <= k * p
      BY <1>1
    <2>2. k * (q + 1) = k * q + k
      BY <1>1
    <2> QED BY <1>1, <1>3, <2>1, <2>2
  <1>4. d \div k <= (d + 1) \div k
    BY <1>2, <1>3
  <1> QED BY <1>2, <1>4 DEF Month

\* The months rebalanced since the last risk-off intent are over or end with
\* the last rebalance; a plan that may restore exposure is for a later month,
\* and risk-off intent starts a new episode.
EpisodeInv ==
  /\ done \subseteq Nat /\ lastRebal <= Month(day) /\ run.month <= Month(day)
  /\ \A m \in done : m <= lastRebal
  /\ pc \in Deciding \cup {"positions"} => lastRebal <= run.month
  /\ plan # NoPlan => plan.month <= Month(day)
  /\ plan # NoPlan /\ ~plan.riskOff => \A m \in done : m < plan.month
  /\ (plan # NoPlan /\ plan.riskOff) \/ latch \/ run.riskOff => done = {}

Memory == <<plan, lastRebal, latch, done>>

\* A step that leaves the stored plan, the calendar and what a cycle knows of
\* both alone.
LEMMA EpisodeFrame ==
  ASSUME EpisodeInv, UNCHANGED Memory, UNCHANGED day, run'.month = run.month,
         run'.riskOff = run.riskOff,
         pc' \in Deciding \cup {"positions"} => pc \in Deciding \cup {"positions"}
  PROVE  EpisodeInv'
  BY DEF EpisodeInv, Memory

\* A cycle that ends forgets its month.
LEMMA EpisodeStop ==
  ASSUME TypeInv, EpisodeInv, UNCHANGED Memory, UNCHANGED day,
         run'.month = 0, ~run'.riskOff, pc' \notin Deciding \cup {"positions"}
  PROVE  EpisodeInv'
  <1>1. 0 <= Month(day)
    BY MonthType, BoundsAssumption DEF TypeInv, TypeOK
  <1> QED BY <1>1 DEF EpisodeInv, Memory

\* The calendar moves on under a cycle.
LEMMA EpisodeNextDay ==
  ASSUME TypeInv, EpisodeInv, NextDay PROVE EpisodeInv'
  <1>1. UNCHANGED <<Memory, run, pc>> /\ day' = day + 1
    BY DEF NextDay, durable, Memory
  <1>2. day \in Nat /\ lastRebal \in Nat /\ run.month \in Nat /\ (plan # NoPlan => plan.month \in Nat)
    BY BoundsAssumption DEF TypeInv, TypeOK, LocalsOK, Plans
  <1>3. Month(day) \in Nat /\ Month(day') \in Nat /\ Month(day) <= Month(day')
    BY <1>1, <1>2, MonthGrows
  <1>4. /\ lastRebal <= Month(day') /\ run.month <= Month(day')
        /\ plan # NoPlan => plan.month <= Month(day')
    BY <1>2, <1>3 DEF EpisodeInv
  <1> QED BY <1>1, <1>4 DEF EpisodeInv, Memory

\* The month of a cycle is the one it reads the orders in.
LEMMA EpisodeReadOrders ==
  ASSUME TypeInv, EpisodeInv, ReadOrders PROVE EpisodeInv'
  <1>1. run'.month = Month(day) /\ run'.riskOff = run.riskOff /\ UNCHANGED <<Memory, day>>
    BY DEF ReadOrders, Goto, TypeInv, LocalsOK, Locals, durable, world, Memory
  <1>2. Month(day) \in Nat
    BY MonthType, BoundsAssumption DEF TypeInv, TypeOK
  <1> QED BY <1>1, <1>2 DEF EpisodeInv, Memory

\* Risk-off intent is stored: the months rebalanced are forgotten.
LEMMA EpisodeRiskOff ==
  ASSUME TypeInv, EpisodeInv, PersistRiskOff PROVE EpisodeInv'
  <1>1. /\ pc = "risk" /\ run'.month = run.month /\ UNCHANGED <<lastRebal, day>>
    BY DEF PersistRiskOff, Goto, TypeInv, LocalsOK, Locals, world
  <1>2. CASE plan # NoPlan /\ plan.valid /\ plan.riskOff
    <2>1. done = {} /\ UNCHANGED <<plan, done>>
      BY <1>2 DEF PersistRiskOff, EpisodeInv
    <2> QED BY <1>1, <1>2, <2>1 DEF EpisodeInv, Deciding
  <1>3. CASE ~(plan # NoPlan /\ plan.valid /\ plan.riskOff)
    <2>1. done' = {} /\ plan' = ZeroPlan(Signal)
      BY <1>3 DEF PersistRiskOff, StorePlan
    <2>2. plan'.month = run.month /\ plan'.riskOff
      BY <2>1 DEF ZeroPlan, NewPlan
    <2> QED BY <1>1, <2>1, <2>2 DEF EpisodeInv, Deciding
  <1> QED BY <1>2, <1>3

\* A month is planned when it was not the last rebalanced, or after risk-off.
LEMMA EpisodeFreeze ==
  ASSUME TypeInv, EpisodeInv, FreezeNewPlan PROVE EpisodeInv'
  <1>1. /\ pc = "plan" /\ ~run.riskOff /\ run' = run /\ pc' = "account"
        /\ UNCHANGED <<lastRebal, latch, done, day>>
        /\ lastRebal # run.month \/ latch
    BY DEF FreezeNewPlan, NoPlanRiskOn, Goto, world, ReentryReady
  <1>2. plan'.month = run.month /\ ~plan'.riskOff
    BY DEF FreezeNewPlan, StorePlan, NewPlan
  <1>3. lastRebal \in Nat /\ run.month \in Nat
    BY DEF TypeInv, TypeOK, LocalsOK
  <1>4. \A m \in done : m < run.month
    <2>1. CASE latch
      BY <2>1 DEF EpisodeInv
    <2>2. CASE lastRebal # run.month
      <3>1. lastRebal < run.month
        BY <1>1, <1>3, <2>2 DEF EpisodeInv, Deciding
      <3> QED BY <1>3, <3>1 DEF EpisodeInv
    <2> QED BY <1>1, <2>1, <2>2
  <1> QED BY <1>1, <1>2, <1>4 DEF EpisodeInv, Deciding

\* A completed plan ends its month.
LEMMA EpisodeComplete ==
  ASSUME TypeInv, EpisodeInv, CompletePlan PROVE EpisodeInv'
  <1>1. /\ pc = "finish" /\ plan' = NoPlan /\ lastRebal' = plan.month /\ day' = day
        /\ pc' = "idle" /\ run' = Blank
        /\ done' = IF plan.riskOff THEN done ELSE done \cup {plan.month}
    BY DEF CompletePlan, StorePlan, Stop, Goto, world
  <1>2. plan \in Plans /\ plan # NoPlan
    BY <1>1, PlansAssumption DEF TypeInv, LocalsOK, CompletePlan
  <1>3. Blank.month = 0 /\ ~Blank.riskOff
    BY DEF Blank
  <1>4. 0 <= Month(day) /\ plan.month \in Nat /\ plan.riskOff \in BOOLEAN
    BY <1>2, MonthType, BoundsAssumption DEF TypeInv, TypeOK, Plans
  <1>5. CASE plan.riskOff
    BY <1>1, <1>2, <1>3, <1>4, <1>5 DEF EpisodeInv, Deciding
  <1>6. CASE ~plan.riskOff
    <2>1. done' = done \cup {plan.month}
      BY <1>1, <1>6
    <2>2. latch' = plan.riskOff
      BY DEF CompletePlan
    <2>3. plan.riskOff = FALSE
      BY <1>4, <1>6
    <2>4. latch' = FALSE
      BY <2>2, <2>3
    <2>5. done \subseteq Nat /\ \A m \in done : m < plan.month
      BY <1>2, <1>6 DEF EpisodeInv
    <2>6. done' \subseteq Nat /\ \A m \in done' : m <= plan.month
      <3>1. plan.month \in Nat
        BY <1>4
      <3>2. ASSUME NEW m \in done' PROVE m \in Nat /\ m <= plan.month
        <4>1. m = plan.month \/ (m \in Nat /\ m < plan.month)
          BY <2>1, <2>5
        <4> QED BY <3>1, <4>1
      <3> QED BY <3>2
    <2>7. plan.month <= Month(day)
      BY <1>2 DEF EpisodeInv
    <2> QED BY <1>1, <1>3, <1>4, <2>1, <2>6, <2>4, <2>7 DEF EpisodeInv, Deciding
  <1> QED BY <1>4, <1>5, <1>6

\* Every action keeps it.
LEMMA EpisodeStep == ASSUME TypeInv, EpisodeInv, [Next]_vars PROVE EpisodeInv'
  <1>0. LocalsOK
    BY DEF TypeInv
  <1>1. CASE Stop /\ UNCHANGED Memory /\ UNCHANGED day
    <2>1. run'.month = 0 /\ ~run'.riskOff /\ pc' = "idle"
      BY <1>1 DEF Stop, Goto, Blank
    <2> QED BY <1>1, <2>1, EpisodeStop DEF Deciding
  <1>2. CASE StartCycle
    <2>1. run'.month = 0 /\ ~run'.riskOff /\ pc' = "capacity" /\ UNCHANGED <<Memory, day>>
      BY <1>2 DEF StartCycle, Goto, Blank, durable, world, Memory
    <2> QED BY <2>1, EpisodeStop DEF Deciding
  <1>3. CASE CapacityPreflight \/ BuyPreflightPasses \/ ReadPositions \/ SellCapacityHolds
             \/ StayRiskOn \/ NothingToCancel \/ UseStoredPlan \/ ReadAccount \/ BuysDone
    <2>1. /\ run'.month = run.month /\ run'.riskOff = run.riskOff /\ UNCHANGED <<Memory, day>>
          /\ pc' \in Deciding \cup {"positions"} => pc \in Deciding \cup {"positions"}
      BY <1>0, <1>3 DEF CapacityPreflight, BuyPreflightPasses, ReadPositions, SellCapacityHolds,
         StayRiskOn, NothingToCancel, UseStoredPlan, ReadAccount, BuysDone, Goto,
         LocalsOK, Locals, durable, world, Memory, Deciding
    <2> QED BY <2>1, EpisodeFrame
  <1>4. CASE SellsDone \/ SymbolFails
    <2>1. /\ run'.month = run.month /\ run'.riskOff = run.riskOff /\ UNCHANGED <<Memory, day>>
          /\ pc \in Deciding
      BY <1>0, <1>4 DEF SellsDone, SymbolFails, Goto, LocalsOK, Locals, durable, world, Memory, Deciding
    <2> QED BY <2>1, EpisodeFrame
  <1>5. CASE SelectSell \/ SelectBuy
    <2>1. /\ UNCHANGED <<Memory, day>> /\ pc \in Deciding
          /\ \/ \E s : Block(s) \/ Skip(s)
             \/ run' = [run EXCEPT !.todo = {}, !.blocked = TRUE]
             \/ \E s, side, q : ReserveIntent(Intent(s, side, q))
      BY <1>5 DEF SelectSell, SelectBuy, TryIntent, world, Memory, Deciding
    <2>2. run'.month = run.month /\ run'.riskOff = run.riskOff
      BY <1>0, <2>1 DEF Block, Skip, ReserveIntent, Goto, LocalsOK, Locals
    <2> QED BY <2>1, <2>2, EpisodeFrame
  <1>6. CASE SubmitAccepted \/ SubmitRefused \/ SubmitAmbiguous
    <2>1. /\ UNCHANGED <<Memory, day>> /\ pc \in Deciding /\ \E accepted : AfterSubmit(accepted)
      BY <1>6 DEF SubmitAccepted, SubmitRefused, SubmitAmbiguous, durable, world, Memory, Deciding
    <2>2. run'.month = run.month /\ run'.riskOff = run.riskOff
      BY <1>0, <2>1 DEF AfterSubmit, Goto, LocalsOK, Locals
    <2> QED BY <2>1, <2>2, EpisodeFrame
  <1>7. CASE ReadOrders
    BY <1>7, EpisodeReadOrders
  <1>8. CASE PersistRiskOff
    BY <1>8, EpisodeRiskOff
  <1>9. CASE DropStalePlan
    BY <1>9 DEF DropStalePlan, StorePlan, EpisodeInv, world
  <1>10. CASE RescalePlan
    <2>1. /\ pc = "plan" /\ run' = run /\ pc' = "target" /\ plan'.month = plan.month
          /\ ~plan'.riskOff /\ UNCHANGED <<lastRebal, latch, done, day>> /\ plan # NoPlan
      BY <1>10 DEF RescalePlan, StorePlan, NewPlan, Goto, world, StricterTier
    <2> QED BY <2>1 DEF EpisodeInv, Deciding
  <1>11. CASE ConsumeLatch
    BY <1>11 DEF ConsumeLatch, EpisodeInv, world
  <1>12. CASE FreezeNewPlan
    BY <1>12, EpisodeFreeze
  <1>13. CASE ReplaceByZeroPlan
    <2>1. /\ pc = "target" /\ run' = run /\ pc' = "account" /\ plan'.month = run.month
          /\ plan'.riskOff /\ run.riskOff /\ UNCHANGED <<lastRebal, latch, done, day>>
      BY <1>13 DEF ReplaceByZeroPlan, ZeroPlan, StorePlan, NewPlan, Goto, world
    <2> QED BY <2>1 DEF EpisodeInv, Deciding
  <1>14. CASE CompletePlan
    BY <1>14, EpisodeComplete
  <1>15. CASE NextDay
    BY <1>15, EpisodeNextDay
  <1>16. CASE Deploy \/ Reassess \/ CrossAverage \/ ToggleGate
              \/ (\E c \in DOMAIN book : FillLot(c) \/ ConfirmCancel(c) \/ Expire(c))
              \/ UNCHANGED vars
    BY <1>16, EpisodeFrame DEF Deploy, Reassess, CrossAverage, ToggleGate, FillLot, ConfirmCancel,
       Expire, vars, durable, world, Memory
  <1>17. CASE ReconcileSellCapacity \/ BuyPreflightCancels \/ CancelUntrusted \/ WaitForStalePlan
              \/ AbortInvalidPlan \/ DeferPlan \/ AlreadyRebalanced \/ KeepPlan
              \/ ReadFails \/ PlanningFails \/ Crash
    BY <1>1, <1>17 DEF ReconcileSellCapacity, BuyPreflightCancels, CancelUntrusted, CancelAndStop,
       WaitForStalePlan, AbortInvalidPlan, DeferPlan, AlreadyRebalanced, KeepPlan,
       ReadFails, PlanningFails, Crash, durable, world, Memory
  <1> QED
    BY <1>2, <1>3, <1>4, <1>5, <1>6, <1>7, <1>8, <1>9, <1>10, <1>11, <1>12, <1>13, <1>14,
       <1>15, <1>16, <1>17
    DEF Next, Executor, Preflight, Snapshot, Decide, Trade, Failure, Broker, World

\* A month is rebalanced once, and again only after a risk-off intent, when no
\* stored plan is from the future.
THEOREM OneRebalanceCorrect ==
  ASSUME \A a \in InitialAccounts : a.plan # NoPlan => a.plan.month <= Month(SessionsPerMonth)
  PROVE  Spec => OneRebalancePerEpisode
  <1>1. Init => EpisodeInv
    <2> SUFFICES ASSUME Init PROVE EpisodeInv
      OBVIOUS
    <2>1. /\ done = {} /\ lastRebal = 0 /\ ~latch /\ day = SessionsPerMonth /\ pc = "idle"
          /\ run.month = 0 /\ ~run.riskOff
      BY DEF Init, Blank
    <2>2. plan # NoPlan => plan.month <= Month(day)
      BY DEF Init
    <2>3. 0 <= Month(day)
      BY <2>1, MonthType, BoundsAssumption
    <2> QED BY <2>1, <2>2, <2>3 DEF EpisodeInv, Deciding
  <1>2. TypeInv /\ EpisodeInv /\ [Next]_vars => EpisodeInv'
    BY EpisodeStep
  <1>3. TypeInv /\ EpisodeInv /\ [Next]_vars =>
          [pc = "finish" /\ plan' = NoPlan /\ plan # NoPlan /\ ~plan.riskOff =>
             plan.month \notin done]_vars
    BY DEF EpisodeInv
  <1> QED BY <1>1, <1>2, <1>3, TypeInit, TypeStep, PTL DEF Spec, OneRebalancePerEpisode

(***************************************************************************)
(* Only the plan of this month and release is traded.                      *)
(***************************************************************************)
\* The labels at which a cycle trades, and a plan it may trade.
Trading == {"account", "sell", "submit", "buy"}
Current == plan.weights = Flat \/ (plan.month = run.month /\ plan.release = release)

\* Risk-off plans target cash, and a plan is traded only while it is current.
CurrentInv ==
  /\ plan # NoPlan /\ plan.riskOff => plan.weights = Flat
  /\ pc = "target" => run.riskOff \/ Current
  /\ pc \in Trading => Current

\* A step that leaves the plan alone while it is traded.
LEMMA CurrentKept ==
  ASSUME CurrentInv, UNCHANGED plan,
         pc' \in Trading => pc \in Trading /\ run'.month = run.month /\ release' = release,
         pc' = "target" => pc = "target" /\ run' = run /\ release' = release
  PROVE  CurrentInv'
  BY DEF CurrentInv, Current

\* Half of nothing is nothing.
LEMMA SizedFlat == Sized(Flat, "CAUTIOUS") = Flat
  BY DEF Sized, Flat

\* A stored plan is used when it was not found stale, and kept at a risk-off
\* decision only when it targets cash.
LEMMA CurrentUseStored ==
  ASSUME TypeInv, PlanInv, CurrentInv, UseStoredPlan PROVE CurrentInv'
  <1>1. /\ pc' = "account" /\ UNCHANGED <<plan, run, release>>
        /\ plan # NoPlan
        /\ run.riskOff => plan.riskOff
        /\ pc = "plan" /\ ~run.riskOff /\ ~plan.riskOff =>
             plan.month = run.month /\ plan.release = release
        /\ pc \in {"plan", "target"}
    BY DEF UseStoredPlan, StalePlan, Goto, durable, world, PlanInv
  <1>2. Current
    BY <1>1 DEF CurrentInv, Current
  <1>3. Current'
    BY <1>1, <1>2 DEF Current
  <1> QED BY <1>1, <1>3 DEF CurrentInv, Trading

\* A rescaled plan keeps the month it was frozen for.
LEMMA CurrentRescale ==
  ASSUME CurrentInv, RescalePlan PROVE CurrentInv'
  <1>1. /\ plan # NoPlan /\ pc' = "target" /\ run' = run /\ release' = release
        /\ plan'.month = plan.month /\ plan'.release = release /\ ~plan'.riskOff
        /\ plan'.weights = Sized(plan.weights, "CAUTIOUS")
    BY DEF RescalePlan, StricterTier, StorePlan, NewPlan, Goto, world
  <1>2. run.riskOff \/ plan.riskOff \/ plan.month = run.month
    BY DEF RescalePlan, StricterTier, StalePlan
  <1>3. plan.riskOff => plan'.weights = Flat
    BY <1>1, SizedFlat DEF CurrentInv
  <1>4. run'.riskOff \/ Current'
    BY <1>1, <1>2, <1>3 DEF Current
  <1> QED BY <1>1, <1>4 DEF CurrentInv, Trading

\* Every action keeps it.
LEMMA CurrentStep ==
  ASSUME TypeInv, PlanInv, CurrentInv, [Next]_vars PROVE CurrentInv'
  <1>0. LocalsOK
    BY DEF TypeInv
  <1>1. CASE UseStoredPlan
    BY <1>1, CurrentUseStored
  <1>2. CASE RescalePlan
    BY <1>2, CurrentRescale
  <1>3. CASE FreezeNewPlan
    <2>1. /\ pc' = "account" /\ run' = run /\ release' = release /\ ~plan'.riskOff
          /\ plan'.month = run.month /\ plan'.release = release
      BY <1>3 DEF FreezeNewPlan, StorePlan, NewPlan, Goto, world
    <2> QED BY <2>1 DEF CurrentInv, Current
  <1>4. CASE ReplaceByZeroPlan
    <2>1. pc' = "account" /\ plan'.weights = Flat
      BY <1>4 DEF ReplaceByZeroPlan, ZeroPlan, StorePlan, NewPlan, Goto
    <2> QED BY <2>1 DEF CurrentInv, Current
  <1>5. CASE PersistRiskOff
    <2>1. pc' = "cancel" /\ (plan' = plan \/ plan'.weights = Flat)
      BY <1>5 DEF PersistRiskOff, ZeroPlan, StorePlan, NewPlan, Goto
    <2> QED BY <2>1 DEF CurrentInv, Trading
  <1>6. CASE DropStalePlan
    BY <1>6 DEF DropStalePlan, StorePlan, CurrentInv, Trading
  <1>7. CASE CompletePlan
    BY <1>7 DEF CompletePlan, StorePlan, Stop, Goto, CurrentInv, Trading
  <1>8. CASE ReadAccount \/ SellsDone \/ BuysDone \/ SymbolFails
    BY <1>0, <1>8, CurrentKept DEF ReadAccount, SellsDone, BuysDone, SymbolFails, Goto,
       LocalsOK, Locals, durable, world, Trading
  <1>9. CASE SelectSell \/ SelectBuy
    <2>1. /\ UNCHANGED <<plan, world>> /\ pc \in {"sell", "buy"} /\ pc' # "target"
          /\ \/ \E s : Block(s) \/ Skip(s)
             \/ run' = [run EXCEPT !.todo = {}, !.blocked = TRUE]
             \/ \E s, side, q : ReserveIntent(Intent(s, side, q))
      BY <1>9 DEF SelectSell, SelectBuy, TryIntent, ReserveIntent, Goto
    <2>2. run'.month = run.month
      BY <1>0, <2>1 DEF Block, Skip, ReserveIntent, Goto, LocalsOK, Locals
    <2> QED BY <2>1, <2>2, CurrentKept DEF world, Trading
  <1>10. CASE SubmitAccepted \/ SubmitRefused \/ SubmitAmbiguous
    <2>1. UNCHANGED <<plan, world>> /\ pc = "submit" /\ \E accepted : AfterSubmit(accepted)
      BY <1>10 DEF SubmitAccepted, SubmitRefused, SubmitAmbiguous, durable
    <2>2. run'.month = run.month /\ pc' = run.current.intent.side
      BY <1>0, <2>1 DEF AfterSubmit, Goto, LocalsOK, Locals
    <2>3. pc' # "target"
      BY <1>0, <2>1, <2>2 DEF LocalsOK, Sides
    <2> QED BY <2>1, <2>2, <2>3, CurrentKept DEF world, Trading
  <1>11. CASE NextDay \/ Deploy \/ Reassess \/ CrossAverage \/ ToggleGate
              \/ (\E c \in DOMAIN book : FillLot(c) \/ ConfirmCancel(c) \/ Expire(c))
              \/ UNCHANGED vars
    <2>1. UNCHANGED <<plan, run, pc>> /\ (release' = release \/ pc = "idle")
      BY <1>11 DEF NextDay, Deploy, Reassess, CrossAverage, ToggleGate, FillLot, ConfirmCancel,
         Expire, vars, durable, world
    <2> QED BY <2>1, CurrentKept DEF Trading
  <1>12. CASE StartCycle \/ CapacityPreflight \/ BuyPreflightPasses \/ ReadOrders \/ ReadPositions
              \/ SellCapacityHolds \/ StayRiskOn \/ NothingToCancel \/ ConsumeLatch
    <2>1. UNCHANGED plan /\ pc' \notin Trading \cup {"target"}
      BY <1>12 DEF StartCycle, CapacityPreflight, BuyPreflightPasses, ReadOrders, ReadPositions,
         SellCapacityHolds, StayRiskOn, NothingToCancel, ConsumeLatch, Goto, durable, Trading
    <2> QED BY <2>1, CurrentKept
  <1>13. CASE ReconcileSellCapacity \/ BuyPreflightCancels \/ CancelUntrusted \/ WaitForStalePlan
              \/ AbortInvalidPlan \/ DeferPlan \/ AlreadyRebalanced \/ KeepPlan
              \/ ReadFails \/ PlanningFails \/ Crash
    <2>1. UNCHANGED plan /\ pc' = "idle"
      BY <1>13 DEF ReconcileSellCapacity, BuyPreflightCancels, CancelUntrusted, CancelAndStop,
         WaitForStalePlan, AbortInvalidPlan, DeferPlan, AlreadyRebalanced, KeepPlan, ReadFails,
         PlanningFails, Crash, Stop, Goto, durable
    <2> QED BY <2>1, CurrentKept DEF Trading
  <1> QED
    BY <1>1, <1>2, <1>3, <1>4, <1>5, <1>6, <1>7, <1>8, <1>9, <1>10, <1>11, <1>12, <1>13
    DEF Next, Executor, Preflight, Snapshot, Decide, Trade, Failure, Broker, World

\* Orders enter the book only where the executor submits them.
LEMMA NewOrders ==
  ASSUME TypeInv, BookInv, [Next]_vars PROVE DOMAIN book' = DOMAIN book \/ Places
  <1>1. ASSUME NEW S, book' = CancelRequested(S) PROVE DOMAIN book' = DOMAIN book
    BY <1>1 DEF CancelRequested
  <1>2. ASSUME NEW c \in DOMAIN book, FillLot(c) \/ ConfirmCancel(c) \/ Expire(c)
        PROVE  DOMAIN book' = DOMAIN book
    BY <1>2 DEF FillLot, ConfirmCancel, Expire
  <1>3. CASE SubmitAccepted \/ SubmitAmbiguous
    BY <1>3 DEF SubmitAccepted, SubmitAmbiguous, Places, durable
  <1>4. CASE Preflight \/ Snapshot
    BY <1>1, <1>4 DEF Preflight, StartCycle, CapacityPreflight, ReconcileSellCapacity,
       BuyPreflightPasses, BuyPreflightCancels, CancelAndStop,
       Snapshot, ReadOrders, ReadPositions, SellCapacityHolds, broker
  <1>5. CASE Decide
    BY <1>1, <1>5 DEF Decide, PersistRiskOff, StayRiskOn, CancelUntrusted, NothingToCancel,
       AbortInvalidPlan, WaitForStalePlan, DropStalePlan, RescalePlan, ConsumeLatch, CancelAndStop,
       DeferPlan, AlreadyRebalanced, FreezeNewPlan, ReplaceByZeroPlan, UseStoredPlan, broker
  <1>6. CASE Trade
    BY <1>3, <1>6 DEF Trade, ReadAccount, SelectSell, SellsDone, SelectBuy, BuysDone,
       SubmitRefused, CompletePlan, KeepPlan, broker
  <1>7. CASE Failure
    BY <1>1, <1>3, <1>7 DEF Failure, ReadFails, PlanningFails, SymbolFails, Crash, broker
  <1>8. CASE World \/ UNCHANGED vars
    BY <1>8 DEF World, NextDay, Deploy, Reassess, CrossAverage, ToggleGate, vars, broker
  <1> QED
    BY <1>2, <1>4, <1>5, <1>6, <1>7, <1>8 DEF Next, Executor, Broker

\* Nothing left over from an older month or stored by another release is
\* traded, unless it is a plan to sell everything; the plans found at first
\* have the shape the executor gives its own: risk-off plans target cash.
THEOREM CurrentPlanCorrect ==
  ASSUME \A a \in InitialAccounts : a.plan # NoPlan /\ a.plan.riskOff => a.plan.weights = Flat
  PROVE  Spec => TradesCurrentPlan
  <1>1. Init => CurrentInv
    BY DEF Init, CurrentInv, Trading
  <1>2. TradeInv /\ CurrentInv /\ [Next]_vars => CurrentInv'
    BY CurrentStep DEF TradeInv
  <1>3. ASSUME TradeInv, CurrentInv, [Next]_vars, NEW c \in DOMAIN book' \ DOMAIN book
        PROVE  /\ c.plan.valid
               /\ c.plan.weights = Flat
                    \/ (c.plan.month = run.month /\ c.plan.release = release)
    <2>1. Places
      BY <1>3, NewOrders DEF TradeInv
    <2>2. c = run.current /\ pc = "submit"
      BY <1>3, <2>1 DEF Places, Place
    <2>3. c.plan = plan /\ plan.valid
      BY <1>3, <2>2 DEF TradeInv, PlanInv, ClientOrderId
    <2>4. Current
      BY <1>3, <2>2 DEF CurrentInv, Trading
    <2> QED BY <2>3, <2>4 DEF Current
  <1>4. TradeInv /\ CurrentInv /\ [Next]_vars =>
          [\A c \in DOMAIN book' \ DOMAIN book :
             /\ c.plan.valid
             /\ c.plan.weights = Flat
                  \/ (c.plan.month = run.month /\ c.plan.release = release)]_vars
    BY <1>3
  <1> QED BY <1>1, <1>2, <1>4, TradeInit, TradeStep, PTL DEF Spec, TradesCurrentPlan
=============================================================================
