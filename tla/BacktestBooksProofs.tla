-------------------------- MODULE BacktestBooksProofs --------------------------
(***************************************************************************)
(* Proofs about BacktestBooks, for any candidates, rankings, opens, policy *)
(* parameters and lengths of the calendar.                                 *)
(***************************************************************************)
EXTENDS BacktestBooks, SumTheorems

Tiers == {"NORMAL", "CAUTIOUS", "HALT"}
Markets == {"none", "above", "below"}
Plans == [names : SUBSET Names, gross : Nat, tier : Tiers \cup {"none"}, above : BOOLEAN,
          month : Int, riskOff : BOOLEAN]

\* What is not held has no mark.
Folios == {f \in [cash : Int, qty : [Names -> Nat], mark : [Names -> Nat]] :
             \A s \in Names : f.qty[s] = 0 => f.mark[s] = 0}
Books == [folio : Folios, equities : Seq(Int), plan : Plans, latched : BOOLEAN, formed : BOOLEAN]

\* A plan that restores exposure is of the month of the last session; while the latch
\* is set, exposure is back only where the next risk-on session clears it.
Episode ==
  /\ fast.plan # NoPlan /\ ~fast.plan.riskOff =>
       session > 0 /\ fast.plan.month = Month(session - 1)
  /\ restored /\ fast.latched => Held(fast.folio) # {} /\ ~fast.plan.riskOff

BooksInv ==
  /\ session \in Nat /\ fast \in Books
  /\ refused \in BOOLEAN /\ restored \in BOOLEAN /\ exiting \in BOOLEAN
  /\ ~refused => engine = fast
  /\ exiting => fast.plan.riskOff
  /\ Episode

(***************************************************************************)
(* Numbers.                                                                *)
(***************************************************************************)
\* The smaller and the larger of two numbers.
LEMMA MinMaxPair ==
  ASSUME NEW a \in Int, NEW b \in Int
  PROVE  /\ Min({a, b}) = (IF a <= b THEN a ELSE b)
         /\ Max({a, b}) = (IF a >= b THEN a ELSE b)
<1>1. Min({a, b}) \in {a, b} /\ \A y \in {a, b} : Min({a, b}) <= y
  <2>1. \E x \in {a, b} : \A y \in {a, b} : x <= y
    OBVIOUS
  <2> QED BY <2>1 DEF Min
<1>2. Max({a, b}) \in {a, b} /\ \A y \in {a, b} : Max({a, b}) >= y
  <2>1. \E x \in {a, b} : \A y \in {a, b} : x >= y
    OBVIOUS
  <2> QED BY <2>1 DEF Max
<1> QED BY <1>1, <1>2

\* There are finitely many candidates.
LEMMA NamesFinite == IsFiniteSet(Names) /\ \A n \in 1 .. Len(Symbols) : Symbols[n] \in Names
<1>1. Len(Symbols) \in Nat /\ DOMAIN Symbols = 1 .. Len(Symbols)
  BY SymbolsAssumption
<1>2. \A n \in 1 .. Len(Symbols) : Symbols[n] \in Names
  BY SymbolsAssumption
<1>3. Symbols \in Surjection(1 .. Len(Symbols), Names)
  <2>1. Symbols \in [1 .. Len(Symbols) -> Names]
    BY SymbolsAssumption
  <2>2. \A t \in Names : \E s \in 1 .. Len(Symbols) : Symbols[s] = t
    BY <1>1 DEF Names, ToSet
  <2> QED BY <2>1, <2>2 DEF Surjection
<1>4. IsFiniteSet(1 .. Len(Symbols))
  BY <1>1, FS_Interval
<1> QED BY <1>2, <1>3, <1>4, FS_Surjection

\* Fills are whole numbers, and what has an open has a price.
LEMMA FillFacts ==
  ASSUME NEW opens \in Opens, NEW s \in Names
  PROVE  /\ opens[s] \in Nat /\ BuyFill(opens[s]) \in Nat /\ SellFill(opens[s]) \in Int
         /\ opens[s] > 0 => BuyFill(opens[s]) > 0 /\ SellFill(opens[s]) > 0
<1>1. opens[s] \in Nat /\ SlippagePct \in Int /\ 0 <= SlippagePct
  BY OpensAssumption, PolicyAssumption
<1>2. opens[s] > 0 => SellFill(opens[s]) > 0
  BY OpensAssumption
<1>3. SellFill(opens[s]) \in Int
  BY <1>1 DEF SellFill
<1>4. BuyFill(opens[s]) \in Nat /\ (opens[s] > 0 => BuyFill(opens[s]) > 0)
  <2> DEFINE p == opens[s] * SlippagePct
             total == opens[s] * 100 + p
  <2>1. p \in Int /\ 0 <= p
    <3>1. \A x, y \in Nat : x * y \in Nat
      OBVIOUS
    <3> QED BY <1>1, <3>1
  <2>2. opens[s] * (100 + SlippagePct) = total
    <3>1. \A x, y \in Int : x * (100 + y) = x * 100 + x * y
      OBVIOUS
    <3> QED BY <1>1, <3>1
  <2>3. BuyFill(opens[s]) = total \div 100
    BY <2>2 DEF BuyFill
  <2> HIDE DEF p
  <2>4. total \in Nat /\ (opens[s] > 0 => total >= 100)
    BY <1>1, <2>1
  <2> HIDE DEF total
  <2>5. total \div 100 \in Nat /\ (total >= 100 => total \div 100 > 0)
    BY <2>4
  <2> QED BY <2>3, <2>4, <2>5
<1> QED BY <1>1, <1>2, <1>3, <1>4

\* The value of a portfolio is a number, and so is what a plan wants of a name.
LEMMA EquityType ==
  ASSUME NEW f \in Folios PROVE Equity(f) \in Int /\ \A s \in Names : Value(f, s) \in Nat
<1>1. \A s \in Names : Value(f, s) \in Nat
  <2>1. \A x, y \in Nat : x * y \in Nat
    OBVIOUS
  <2> QED BY <2>1 DEF Folios, Value
<1> DEFINE v == [s \in Names |-> Value(f, s)]
<1>2. \A s \in Names : v[s] \in Int
  BY <1>1
<1> HIDE DEF v
<1>3. SumFunctionOnSet(v, Names) \in Int
  BY <1>2, NamesFinite, SumType
<1>4. f.cash \in Int
  BY DEF Folios
<1> QED BY <1>1, <1>3, <1>4 DEF Equity, v

\* The weight of a name in a plan is a whole percentage.
LEMMA WeightType ==
  ASSUME NEW plan \in Plans, NEW s \in Names PROVE Weight(plan, s) \in Int
<1>1. CASE s \in plan.names
  <2>1. IsFiniteSet(plan.names) /\ plan.gross \in Nat
    BY NamesFinite, FS_Subset DEF Plans
  <2>2. Cardinality(plan.names) \in Nat /\ Cardinality(plan.names) # 0
    BY <1>1, <2>1, FS_CardinalityType, FS_EmptySet
  <2>3. plan.gross \div Cardinality(plan.names) \in Int
    BY <2>1, <2>2
  <2> QED BY <1>1, <2>3 DEF Weight
<1>2. CASE s \notin plan.names
  BY <1>2 DEF Weight
<1> QED BY <1>1, <1>2

\* What a position has above its target, and what it lacks, are numbers.
LEMMA DistanceType ==
  ASSUME NEW f \in Folios, NEW plan \in Plans, NEW s \in Names, NEW equity \in Int
  PROVE  Excess(f, plan, s, equity) \in Int /\ Shortfall(f, plan, s, equity) \in Int
<1>1. Value(f, s) \in Int /\ Weight(plan, s) \in Int
  BY EquityType, WeightType
<1>2. equity * Weight(plan, s) \in Int
  BY <1>1
<1> QED BY <1>1, <1>2 DEF Excess, Shortfall

(***************************************************************************)
(* The portfolio.                                                          *)
(***************************************************************************)
\* What is bought for whole money leaves a portfolio.
LEMMA PurchaseType ==
  ASSUME NEW f \in Folios, NEW s \in Names, NEW quantity \in Int, NEW fill \in Nat
  PROVE  Purchase(f, s, quantity, fill) \in Folios
<1>1. CASE quantity <= 0 \/ quantity * fill > f.cash
  BY <1>1 DEF Purchase
<1>2. CASE ~(quantity <= 0 \/ quantity * fill > f.cash)
  <2> DEFINE g == [f EXCEPT !.qty[s] = @ + quantity, !.mark[s] = fill, !.cash = @ - quantity * fill]
  <2>1. quantity * fill \in Int /\ quantity > 0
    BY <1>2
  <2>2. /\ f \in [cash : Int, qty : [Names -> Nat], mark : [Names -> Nat]]
        /\ \A n \in Names : f.qty[n] = 0 => f.mark[n] = 0
    BY DEF Folios
  <2>3. f.qty[s] + quantity \in Nat /\ f.qty[s] + quantity # 0 /\ f.cash - quantity * fill \in Int
    BY <2>1, <2>2
  <2>4. g \in [cash : Int, qty : [Names -> Nat], mark : [Names -> Nat]]
    BY <2>2, <2>3
  <2>5. \A n \in Names : g.qty[n] = 0 => g.mark[n] = 0
    BY <2>2, <2>3
  <2> QED BY <1>2, <2>4, <2>5 DEF Purchase, Folios
<1> QED BY <1>1, <1>2

\* Selling no more than is held leaves a portfolio.
LEMMA SaleType ==
  ASSUME NEW f \in Folios, NEW sold, \A s \in Names : sold[s] \in 0 .. f.qty[s], NEW opens \in Opens
  PROVE  /\ Sale(f, sold, opens) \in Folios
         /\ \A s \in Names : Sale(f, sold, opens).qty[s] = f.qty[s] - sold[s]
<1>1. /\ f \in [cash : Int, qty : [Names -> Nat], mark : [Names -> Nat]]
      /\ \A n \in Names : f.qty[n] = 0 => f.mark[n] = 0
  BY DEF Folios
<1> DEFINE v == [s \in Names |-> sold[s] * SellFill(opens[s])]
<1>2. \A s \in Names : v[s] \in Int
  <2>1. ASSUME NEW s \in Names PROVE sold[s] * SellFill(opens[s]) \in Int
    <3>1. sold[s] \in Int /\ SellFill(opens[s]) \in Int
      BY <1>1, FillFacts
    <3> QED BY <3>1
  <2> QED BY <2>1
<1> HIDE DEF v
<1>3. SumFunctionOnSet(v, Names) \in Int
  BY <1>2, NamesFinite, SumType
<1>4. f.cash + SumFunctionOnSet(v, Names) \in Int
  BY <1>1, <1>3
<1>5. \A s \in Names : f.qty[s] - sold[s] \in Nat /\ (f.qty[s] - sold[s] = 0 <=> sold[s] = f.qty[s])
  BY <1>1
<1>6. Sale(f, sold, opens) =
        [cash |-> f.cash + SumFunctionOnSet(v, Names),
         qty |-> [s \in Names |-> f.qty[s] - sold[s]],
         mark |-> [s \in Names |-> IF sold[s] = f.qty[s] THEN 0 ELSE f.mark[s]]]
  BY DEF Sale, v
<1>7. Sale(f, sold, opens) \in [cash : Int, qty : [Names -> Nat], mark : [Names -> Nat]]
  BY <1>1, <1>4, <1>5, <1>6
<1>8. \A s \in Names : Sale(f, sold, opens).qty[s] = 0 => Sale(f, sold, opens).mark[s] = 0
  BY <1>5, <1>6
<1> QED BY <1>6, <1>7, <1>8 DEF Folios

\* Marking changes no shares.  When every position has an open, both programs mark alike.
LEMMA MarkFacts ==
  ASSUME NEW f \in Folios, NEW opens \in Opens
  PROVE  /\ FastMark(f, opens) \in Folios
         /\ FastMark(f, opens).qty = f.qty
         /\ (\A s \in Held(f) : opens[s] # 0) => MarkToMarket(f, opens) = FastMark(f, opens)
<1>1. /\ f \in [cash : Int, qty : [Names -> Nat], mark : [Names -> Nat]]
      /\ \A n \in Names : f.qty[n] = 0 => f.mark[n] = 0
  BY DEF Folios
<1>2. \A s \in Names : opens[s] \in Nat
  BY FillFacts
<1> DEFINE m == [s \in Names |-> IF f.qty[s] > 0 /\ opens[s] > 0 THEN opens[s] ELSE f.mark[s]]
<1>3. m \in [Names -> Nat] /\ \A n \in Names : f.qty[n] = 0 => m[n] = 0
  BY <1>1, <1>2
<1>4. FastMark(f, opens) = [f EXCEPT !.mark = m]
  BY DEF FastMark
<1>5. ASSUME \A s \in Held(f) : opens[s] # 0
      PROVE  MarkToMarket(f, opens) = FastMark(f, opens)
  <2>1. \A s \in Names : (IF s \in Held(f) THEN opens[s] ELSE 0) = m[s]
    BY <1>1, <1>2, <1>5 DEF Held
  <2>2. [s \in Names |-> IF s \in Held(f) THEN opens[s] ELSE 0] = m
    BY <2>1
  <2> QED BY <1>4, <2>2 DEF MarkToMarket
<1> HIDE DEF m
<1>6. FastMark(f, opens) \in Folios /\ FastMark(f, opens).qty = f.qty
  BY <1>1, <1>3, <1>4 DEF Folios
<1> QED BY <1>5, <1>6

(***************************************************************************)
(* The buy leg, one name after the other.                                  *)
(***************************************************************************)
\* g has the values of a loop that begins with b, after each of its N passes.
Passes(N, T, b, step, g) ==
  /\ g \in [0 .. N -> T] /\ g[0] = b
  /\ \A n \in 1 .. N : g[n] = step[<<g[n - 1], n>>]

\* A loop has such values.
LEMMA LoopExists ==
  ASSUME NEW N \in Nat, NEW T, NEW b \in T, NEW step \in [T \X (1 .. N) -> T]
  PROVE  \E g : Passes(N, T, b, step, g)
<1> USE DEF Passes
<1> DEFINE Runs(n, g) == Passes(n, T, b, step, g)
           Bad == {n \in 0 .. N : ~ \E g : Runs(n, g)}
<1>1. Bad = {}
  <2> SUFFICES ASSUME Bad # {} PROVE FALSE
    OBVIOUS
  <2>1. PICK n \in Bad : \A m \in Bad : n <= m
    <3>1. Bad \in SUBSET Nat
      OBVIOUS
    <3> HIDE DEF Bad
    <3> QED BY <3>1, LeastNumber
  <2>2. n \in 0 .. N
    BY <2>1
  <2>3. n # 0
    <3>1. Runs(0, [m \in 0 .. 0 |-> b])
      OBVIOUS
    <3> QED BY <2>1, <3>1
  <2>4. n - 1 \in 0 .. N /\ n - 1 \notin Bad
    BY <2>1, <2>2, <2>3
  <2>5. PICK g : Runs(n - 1, g)
    BY <2>4
  <2> DEFINE h == [m \in 0 .. n |-> IF m = n THEN step[<<g[n - 1], n>>] ELSE g[m]]
  <2>6. n \in 1 .. N /\ g[n - 1] \in T /\ step[<<g[n - 1], n>>] \in T
    BY <2>2, <2>3, <2>5
  <2>7. h \in [0 .. n -> T] /\ h[0] = b
    <3>1. g \in [0 .. (n - 1) -> T] /\ g[0] = b
      BY <2>5
    <3>2. \A m \in 0 .. n : m # n => m \in 0 .. (n - 1)
      BY <2>6
    <3>3. \A m \in 0 .. n : h[m] \in T
      BY <2>6, <3>1, <3>2
    <3>4. 0 \in 0 .. n /\ 0 # n
      BY <2>6
    <3> QED BY <3>1, <3>3, <3>4
  <2>8. ASSUME NEW m \in 1 .. n PROVE h[m] = step[<<h[m - 1], m>>]
    <3>1. h[m - 1] = g[m - 1]
      <4>1. m - 1 \in 0 .. n /\ m - 1 # n
        BY <2>2
      <4> QED BY <4>1
    <3>2. CASE m = n
      <4>1. h[m] = step[<<g[m - 1], m>>]
        BY <2>2, <3>2
      <4> QED BY <3>1, <4>1
    <3>3. CASE m # n
      <4>1. m \in 1 .. (n - 1) /\ h[m] = g[m]
        BY <2>2, <3>3
      <4> QED BY <2>5, <3>1, <4>1
    <3> QED BY <3>2, <3>3
  <2>9. Runs(n, h)
    <3> HIDE DEF h
    <3> QED BY <2>7, <2>8
  <2> QED BY <2>1, <2>9
<1>2. N \notin Bad
  BY <1>1
<1> QED BY <1>2

\* Both programs buy the same of a name, and leave a portfolio.
LEMMA BuyAgrees ==
  ASSUME NEW f \in Folios, NEW plan \in Plans, NEW equity \in Int, NEW s \in Names,
         NEW opens \in Opens
  PROVE  /\ EngineBuy(f, plan, equity, s, opens) = FastBuy(f, plan, equity, s, opens)
         /\ FastBuy(f, plan, equity, s, opens) \in Folios
<1> DEFINE lacks == Shortfall(f, plan, s, equity)
           fill == BuyFill(opens[s])
           quantity == Min({lacks \div (100 * fill), f.cash \div fill})
<1>1. opens[s] \in Nat /\ fill \in Nat /\ (opens[s] > 0 => fill > 0)
  BY FillFacts
<1>2. lacks \in Int /\ f.cash \in Int
  BY DistanceType DEF Folios
<1>3. CASE s \in plan.names /\ opens[s] > 0 /\ Drifts(lacks, equity)
  <2>1. EngineBuy(f, plan, equity, s, opens) = Purchase(f, s, quantity, fill)
    BY <1>1, <1>3 DEF EngineBuy
  <2>2. FastBuy(f, plan, equity, s, opens) = Purchase(f, s, quantity, fill)
    BY <1>3 DEF FastBuy
  <2>3. Purchase(f, s, quantity, fill) \in Folios
    <3> HIDE DEF lacks, fill
    <3>1. lacks \div (100 * fill) \in Int /\ f.cash \div fill \in Int
      BY <1>1, <1>2, <1>3
    <3>2. quantity \in Int
      BY <3>1, MinMaxPair
    <3> QED BY <1>1, <3>2, PurchaseType
  <2> QED BY <2>1, <2>2, <2>3
<1>4. CASE ~(s \in plan.names /\ opens[s] > 0 /\ Drifts(lacks, equity))
  <2>1. s \notin plan.names \/ opens[s] = 0 \/ ~Drifts(lacks, equity)
    BY <1>1, <1>4
  <2> QED BY <1>4, <2>1 DEF EngineBuy, FastBuy
<1> QED BY <1>3, <1>4

\* The buy legs, name after name.
Bought(f, plan, equity, opens, g) ==
  /\ g \in [0 .. Len(Symbols) -> Folios] /\ g[0] = f
  /\ \A n \in 1 .. Len(Symbols) :
       /\ g[n] = EngineBuy(g[n - 1], plan, equity, Symbols[n], opens)
       /\ g[n] = FastBuy(g[n - 1], plan, equity, Symbols[n], opens)

\* There is such a sequence of portfolios.
LEMMA BoughtExists ==
  ASSUME NEW f \in Folios, NEW plan \in Plans, NEW equity \in Int, NEW opens \in Opens
  PROVE  \E g : Bought(f, plan, equity, opens, g)
<1> DEFINE N == Len(Symbols)
           step == [x \in Folios \X (1 .. N) |-> FastBuy(x[1], plan, equity, Symbols[x[2]], opens)]
<1>1. N \in Nat
  BY SymbolsAssumption
<1>2. step \in [Folios \X (1 .. N) -> Folios]
  <2>1. ASSUME NEW x \in Folios \X (1 .. N)
        PROVE  FastBuy(x[1], plan, equity, Symbols[x[2]], opens) \in Folios
    <3>1. x[1] \in Folios /\ x[2] \in 1 .. N
      OBVIOUS
    <3>2. Symbols[x[2]] \in Names
      BY <3>1, NamesFinite
    <3> QED BY <3>1, <3>2, BuyAgrees
  <2> QED BY <2>1
<1>3. \A c \in Folios, n \in 1 .. N : step[<<c, n>>] = FastBuy(c, plan, equity, Symbols[n], opens)
  OBVIOUS
<1> HIDE DEF step, N
<1>4. PICK g : Passes(N, Folios, f, step, g)
  BY <1>1, <1>2, LoopExists
<1> USE DEF N, Passes
<1>5. ASSUME NEW n \in 1 .. N
      PROVE  /\ g[n] = EngineBuy(g[n - 1], plan, equity, Symbols[n], opens)
             /\ g[n] = FastBuy(g[n - 1], plan, equity, Symbols[n], opens)
  <2>1. g[n - 1] \in Folios /\ Symbols[n] \in Names
    BY <1>1, <1>4, NamesFinite
  <2>2. g[n] = FastBuy(g[n - 1], plan, equity, Symbols[n], opens)
    BY <1>3, <1>4, <2>1
  <2>3. FastBuy(g[n - 1], plan, equity, Symbols[n], opens)
          = EngineBuy(g[n - 1], plan, equity, Symbols[n], opens)
    BY <2>1, BuyAgrees
  <2> QED BY <2>2, <2>3
<1> QED BY <1>4, <1>5 DEF Bought

\* Two loops that begin alike and pass alike end alike.
LEMMA LoopsAgree ==
  ASSUME NEW N \in Nat, NEW g, NEW h, g[0] = h[0],
         \A n \in 1 .. N : g[n - 1] = h[n - 1] => g[n] = h[n]
  PROVE  g[N] = h[N]
<1> DEFINE Bad == {n \in 0 .. N : g[n] # h[n]}
<1> SUFFICES ASSUME Bad # {} PROVE FALSE
  OBVIOUS
<1>1. PICK n \in Bad : \A m \in Bad : n <= m
  <2>1. Bad \in SUBSET Nat
    OBVIOUS
  <2> HIDE DEF Bad
  <2> QED BY <2>1, LeastNumber
<1>2. n \in 1 .. N /\ n - 1 \in 0 .. N
  BY <1>1
<1>3. n - 1 \notin Bad
  BY <1>1, <1>2
<1> QED BY <1>1, <1>2, <1>3

\* The engine buys what the simulator buys, and leaves a portfolio.
LEMMA BuysAgree ==
  ASSUME NEW f \in Folios, NEW plan \in Plans, NEW opens \in Opens
  PROVE  /\ EngineBuys(f, plan, opens) = FastPurchases(f, plan, opens)
         /\ FastPurchases(f, plan, opens) \in Folios
<1> DEFINE N == Len(Symbols)
           equity == Equity(f)
           E(g) == g = [n \in 0 .. N |->
                     IF n = 0 THEN f ELSE EngineBuy(g[n - 1], plan, equity, Symbols[n], opens)]
           F(g) == g = [n \in 0 .. N |->
                     IF n = 0 THEN f ELSE FastBuy(g[n - 1], plan, equity, Symbols[n], opens)]
           e == CHOOSE g : E(g)
           s == CHOOSE g : F(g)
<1>1. N \in Nat /\ equity \in Int
  BY SymbolsAssumption, EquityType
<1>2. PICK b : Bought(f, plan, equity, opens, b)
  BY <1>1, BoughtExists
<1>3. EngineBuys(f, plan, opens) = e[N]
  BY DEF EngineBuys
<1>4. FastPurchases(f, plan, opens) = s[N]
  BY DEF FastPurchases
<1>5. E(b)
  BY <1>1, <1>2 DEF Bought
<1>6. F(b)
  BY <1>1, <1>2 DEF Bought
<1>7. E(e)
  BY <1>5
<1>8. F(s)
  BY <1>6
<1> HIDE DEF e, s
<1>9. e[N] = b[N]
  <2>1. e[0] = b[0]
    BY <1>1, <1>2, <1>7 DEF Bought
  <2>2. ASSUME NEW n \in 1 .. N, e[n - 1] = b[n - 1] PROVE e[n] = b[n]
    <3>1. e[n] = EngineBuy(e[n - 1], plan, equity, Symbols[n], opens)
      BY <1>1, <1>7
    <3> QED BY <1>2, <2>2, <3>1 DEF Bought
  <2> HIDE DEF E, F
  <2> QED BY <1>1, <2>1, <2>2, LoopsAgree
<1>10. s[N] = b[N]
  <2>1. s[0] = b[0]
    BY <1>1, <1>2, <1>8 DEF Bought
  <2>2. ASSUME NEW n \in 1 .. N, s[n - 1] = b[n - 1] PROVE s[n] = b[n]
    <3>1. s[n] = FastBuy(s[n - 1], plan, equity, Symbols[n], opens)
      BY <1>1, <1>8
    <3> QED BY <1>2, <2>2, <3>1 DEF Bought
  <2> HIDE DEF E, F
  <2> QED BY <1>1, <2>1, <2>2, LoopsAgree
<1>11. b[N] \in Folios
  BY <1>1, <1>2 DEF Bought
<1> QED BY <1>3, <1>4, <1>9, <1>10, <1>11

(***************************************************************************)
(* The sell leg.                                                           *)
(***************************************************************************)
\* What the simulator sells of a position it holds.  Of a position with an open, the
\* engine sells as much.
LEMMA SellAgrees ==
  ASSUME NEW f \in Folios, NEW plan \in Plans, NEW opens \in Opens, NEW s \in Names
  PROVE  /\ FastExcess(f, plan, s, opens) \in 0 .. f.qty[s]
         /\ EngineSells(f, plan, opens)[s]
              = (IF opens[s] = 0 THEN 0 ELSE FastExcess(f, plan, s, opens))
<1> DEFINE x == Excess(f, plan, s, Equity(f))
           p == 100 * SellFill(opens[s])
           shares == Min({f.qty[s], x \div p})
<1>1. f.qty[s] \in Nat /\ x \in Int /\ opens[s] \in Nat
  BY EquityType, DistanceType, FillFacts DEF Folios
<1>2. opens[s] # 0 => p \in Int /\ p > 0
  BY FillFacts
<1>3. ASSUME opens[s] # 0
      PROVE  /\ shares \in Int /\ shares <= f.qty[s]
             /\ Max({0, shares}) = (IF shares <= 0 THEN 0 ELSE shares)
  <2> HIDE DEF x, p
  <2>1. x \div p \in Int
    BY <1>1, <1>2, <1>3
  <2>2. shares \in Int /\ shares <= f.qty[s]
    BY <1>1, <2>1, MinMaxPair
  <2> HIDE DEF shares
  <2>3. Max({0, shares}) = (IF 0 >= shares THEN 0 ELSE shares)
    BY <2>2, MinMaxPair
  <2>4. 0 >= shares <=> shares <= 0
    BY <2>2
  <2> QED BY <2>2, <2>3, <2>4
<1>4. FastExcess(f, plan, s, opens)
        = (CASE s \notin plan.names -> f.qty[s]
             [] s \in plan.names /\ Drifts(x, Equity(f)) ->
                  IF opens[s] = 0 THEN f.qty[s] ELSE Max({0, shares})
             [] OTHER -> 0)
  BY DEF FastExcess
<1>5. EngineSells(f, plan, opens)[s]
        = (IF s \notin Held(f) \/ opens[s] = 0 \/ (s \in plan.names /\ ~Drifts(x, Equity(f))) THEN 0
           ELSE IF s \notin plan.names THEN f.qty[s]
           ELSE IF shares <= 0 THEN 0 ELSE shares)
  BY DEF EngineSells
<1>6. s \in Held(f) <=> f.qty[s] > 0
  BY DEF Held
<1> HIDE DEF x, p, shares
<1>7. FastExcess(f, plan, s, opens) \in 0 .. f.qty[s]
  BY <1>1, <1>3, <1>4
<1>8. EngineSells(f, plan, opens)[s]
        = (IF opens[s] = 0 THEN 0 ELSE FastExcess(f, plan, s, opens))
  <2>1. CASE opens[s] = 0
    BY <1>5, <2>1
  <2>2. CASE opens[s] # 0 /\ f.qty[s] > 0
    BY <1>1, <1>3, <1>4, <1>5, <1>6, <2>2
  <2>3. CASE opens[s] # 0 /\ ~(f.qty[s] > 0)
    BY <1>1, <1>5, <1>6, <1>7, <2>3
  <2> QED BY <2>1, <2>2, <2>3
<1> QED BY <1>7, <1>8

\* With an open for every position both programs sell the same, and both end the session
\* with it or neither does.
LEMMA SellsAgree ==
  ASSUME NEW f \in Folios, NEW plan \in Plans, NEW opens \in Opens, NEW excess,
         excess = [s \in Names |-> FastExcess(f, plan, s, opens)]
  PROVE  /\ FastSale(f, excess, opens) \in Folios
         /\ Sale(f, EngineSells(f, plan, opens), opens) = FastSale(f, excess, opens)
         /\ (\A s \in Held(f) : opens[s] # 0) =>
              (EngineSellRequired(f, plan, opens) <=> \E s \in Held(f) : excess[s] > 0)
<1> DEFINE sold == [s \in Names |-> IF opens[s] = 0 THEN 0 ELSE excess[s]]
<1>1. \A s \in Names : excess[s] \in 0 .. f.qty[s] /\ f.qty[s] \in Nat
  BY SellAgrees DEF Folios
<1>2. EngineSells(f, plan, opens) = sold
  <2>1. \A s \in Names : EngineSells(f, plan, opens)[s] = sold[s]
    BY SellAgrees
  <2>2. EngineSells(f, plan, opens) = [s \in Names |-> EngineSells(f, plan, opens)[s]]
    BY DEF EngineSells
  <2> QED BY <2>1, <2>2
<1>3. \A s \in Names : sold[s] \in 0 .. f.qty[s]
  BY <1>1
<1>4. FastSale(f, excess, opens) = Sale(f, sold, opens)
  BY DEF FastSale
<1>5. Sale(f, sold, opens) \in Folios
  <2> HIDE DEF sold
  <2> QED BY <1>3, SaleType
<1>6. ASSUME \A s \in Held(f) : opens[s] # 0
      PROVE  EngineSellRequired(f, plan, opens) <=> \E s \in Held(f) : excess[s] > 0
  <2> DEFINE over(s) == Drifts(Excess(f, plan, s, Equity(f)), Equity(f))
  <2>1. EngineSellRequired(f, plan, opens)
          <=> \E s \in Held(f) : \/ s \notin plan.names
                                 \/ over(s) /\ (opens[s] = 0 \/ EngineSells(f, plan, opens)[s] > 0)
    BY DEF EngineSellRequired
  <2>2. ASSUME NEW s \in Held(f)
        PROVE  excess[s] > 0 <=>
                 \/ s \notin plan.names
                 \/ over(s) /\ (opens[s] = 0 \/ EngineSells(f, plan, opens)[s] > 0)
    <3>1. s \in Names /\ f.qty[s] > 0 /\ opens[s] # 0
      BY <1>6 DEF Held
    <3>2. EngineSells(f, plan, opens)[s] = excess[s]
      BY <1>2, <3>1
    <3>3. CASE s \notin plan.names
      <4>1. excess[s] = f.qty[s]
        BY <3>1, <3>3 DEF FastExcess
      <4> QED BY <3>1, <3>3, <4>1
    <3>4. CASE s \in plan.names /\ ~over(s)
      <4>1. excess[s] = 0
        BY <3>1, <3>4 DEF FastExcess
      <4> QED BY <3>4, <4>1
    <3>5. CASE s \in plan.names /\ over(s)
      BY <3>1, <3>2, <3>5
    <3> QED BY <3>3, <3>4, <3>5
  <2> HIDE DEF over
  <2> QED BY <2>1, <2>2
<1> QED BY <1>2, <1>4, <1>5, <1>6

(***************************************************************************)
(* The plan.                                                               *)
(***************************************************************************)
\* The month of a session is a number.
LEMMA MonthType == ASSUME NEW n \in Nat PROVE Month(n) \in Nat
<1>1. SessionsPerMonth \in Nat /\ SessionsPerMonth > 0
  BY PolicyAssumption
<1>2. \A a, b \in Nat : b > 0 => a \div b \in Nat
  OBVIOUS
<1> QED BY <1>1, <1>2 DEF Month

\* A tier is one of three, a gross weight a number, and the plans of the model are plans.
LEMMA PlanTypes ==
  ASSUME session \in Nat, NEW tier \in Tiers, NEW above \in BOOLEAN
  PROVE  /\ Gross(tier, above) \in Nat
         /\ NoPlan \in Plans
         /\ \A month \in Int : ZeroPlan(month) \in Plans
         /\ \A names \in SUBSET Names : Form(names, above, tier) \in Plans
<1>1. MaxGross \in Nat /\ FloorPct \in Nat
  BY PolicyAssumption
<1>2. Gross(tier, above) \in Nat
  <2> DEFINE scaled == CASE tier = "NORMAL" -> MaxGross [] tier = "CAUTIOUS" -> MaxGross \div 2 [] OTHER -> 0
  <2>1. scaled \in Nat
    BY <1>1 DEF Tiers
  <2>2. Gross(tier, above) = IF above THEN scaled ELSE Min({scaled, FloorPct})
    BY DEF Gross
  <2> HIDE DEF scaled
  <2>3. Min({scaled, FloorPct}) \in Nat
    BY <1>1, <2>1, MinMaxPair
  <2> QED BY <2>1, <2>2, <2>3
<1>3. Month(session) \in Int
  BY MonthType
<1>4. NoPlan \in Plans
  BY DEF Plans, NoPlan, Tiers
<1>5. ASSUME NEW month \in Int PROVE ZeroPlan(month) \in Plans
  BY <1>4 DEF ZeroPlan, Plans, Tiers
<1>6. ASSUME NEW names \in SUBSET Names PROVE Form(names, above, tier) \in Plans
  BY <1>2, <1>3, <1>4 DEF Form, Plans
<1> QED BY <1>2, <1>4, <1>5, <1>6

\* The assessment of a portfolio is a tier.
LEMMA TierType == ASSUME NEW b \in Books PROVE Tier(b) \in Tiers
  BY DEF Tier, Tiers

\* The plan that the simulator executes, if there is one, restores exposure and is of
\* this month.  There is one where one is pending.
LEMMA FastPlanFacts ==
  ASSUME session \in Nat, NEW b \in Books, ~b.plan.riskOff, NEW tier \in Tiers,
         NEW market \in Markets, NEW names \in SUBSET Names, NEW force \in BOOLEAN
  PROVE  LET plan == FastPlan(b, tier, market, names, force) IN
         /\ plan \in Plans
         /\ plan # NoPlan => ~plan.riskOff /\ plan.month = Month(session)
         /\ plan = NoPlan => b.plan = NoPlan
<1> DEFINE plan == FastPlan(b, tier, market, names, force)
           above == (market = "above")
<1>1. /\ b.plan \in Plans /\ Gross(tier, above) \in Nat /\ Gross(tier, b.plan.above) \in Nat
      /\ Form(names, above, tier) \in Plans
  BY PlanTypes DEF Books, Plans
<1>2. CASE FastOffers(b.plan, Month(session), force)
  <2>1. plan = Form(names, above, tier)
    BY <1>2 DEF FastPlan
  <2>2. ~Form(names, above, tier).riskOff /\ Form(names, above, tier).month = Month(session)
    BY DEF Form, NoPlan
  <2>3. Form(names, above, tier) # NoPlan
    <3>1. Form(names, above, tier).month \in Nat /\ NoPlan.month = -1
      BY MonthType DEF Form, NoPlan
    <3> QED BY <3>1
  <2> QED BY <1>1, <2>1, <2>2, <2>3
<1>3. CASE ~FastOffers(b.plan, Month(session), force) /\ b.plan # NoPlan /\ Rank(tier) > Rank(b.plan.tier)
  <2>1. plan = [b.plan EXCEPT !.tier = tier, !.gross = Gross(tier, b.plan.above)]
    BY <1>3 DEF FastPlan
  <2>2. b.plan.month = Month(session)
    BY <1>3 DEF FastOffers
  <2>3. plan.tier = tier /\ tier # NoPlan.tier
    BY <1>1, <2>1 DEF Plans, NoPlan, Tiers
  <2> QED BY <1>1, <2>1, <2>2, <2>3 DEF Plans, Tiers
<1>4. CASE ~FastOffers(b.plan, Month(session), force) /\ ~(b.plan # NoPlan /\ Rank(tier) > Rank(b.plan.tier))
  <2>1. plan = b.plan
    BY <1>4 DEF FastPlan
  <2>2. b.plan # NoPlan => b.plan.month = Month(session)
    BY <1>4 DEF FastOffers
  <2> QED BY <1>1, <2>1, <2>2
<1> QED BY <1>2, <1>3, <1>4

(***************************************************************************)
(* One session.                                                            *)
(***************************************************************************)
\* A book after its trades: the portfolio, the plan left and whether a target was formed.
Traded(b, f, p, formed) == [b EXCEPT !.folio = f, !.plan = p, !.formed = formed]

\* What risk-off leaves: no more shares, and a plan to go on exactly while some are held.
LeavesExit(f, p, before) ==
  /\ \A s \in Names : f.qty[s] <= before.qty[s]
  /\ p.riskOff <=> Held(f) # {}
  /\ p # NoPlan => p.riskOff

\* What else leaves a plan restores exposure, this month.
LeavesTarget(p) == ~p.riskOff /\ (p # NoPlan => p.month = Month(session))

\* Every position has an open.
Priced(f, opens) == \A s \in Held(f) : opens[s] # 0

\* The exit: both programs sell what has an open, and a risk-off plan stays pending
\* exactly while something is held.
LEMMA ExitStep ==
  ASSUME session \in Nat, NEW m \in Books, NEW e \in Books, e.folio = m.folio, e.plan = m.plan,
         NEW tier \in Tiers, NEW market \in Markets, NEW names \in SUBSET Names,
         NEW force \in BOOLEAN, NEW opens \in Opens,
         ExitGate(tier, market) \/ m.plan.riskOff
  PROVE  \E f \in Folios, p \in Plans :
           /\ FastRebalance(m, tier, market, names, force, opens) = Traded(m, f, p, m.formed)
           /\ EngineExecute(e, tier, market, names, force, opens) = Traded(e, f, p, e.formed)
           /\ LeavesExit(f, p, m.folio)
<1> DEFINE sold == [s \in Names |-> IF opens[s] > 0 THEN m.folio.qty[s] ELSE 0]
           left == Sale(m.folio, sold, opens)
           month == IF m.plan.riskOff THEN m.plan.month ELSE Month(session)
           p == IF Held(left) = {} THEN NoPlan ELSE ZeroPlan(month)
<1>1. m.folio \in Folios /\ m.plan \in Plans
  BY DEF Books
<1>2. \A s \in Names : opens[s] \in Nat /\ m.folio.qty[s] \in Nat
  BY <1>1, FillFacts DEF Folios
<1>3. \A s \in Names : sold[s] \in 0 .. m.folio.qty[s]
  BY <1>2
<1>4. left \in Folios /\ \A s \in Names : left.qty[s] = m.folio.qty[s] - sold[s]
  <2> HIDE DEF sold
  <2> QED BY <1>1, <1>3, SaleType
<1>5. FastSale(m.folio, m.folio.qty, opens) = left
  <2>1. \A s \in Names : (IF opens[s] = 0 THEN 0 ELSE m.folio.qty[s]) = sold[s]
    BY <1>2
  <2>2. [s \in Names |-> IF opens[s] = 0 THEN 0 ELSE m.folio.qty[s]] = sold
    BY <2>1
  <2> QED BY <2>2 DEF FastSale
<1>6. Held(left) = {s \in Held(m.folio) : opens[s] = 0}
  <2>1. ASSUME NEW s \in Names
        PROVE  left.qty[s] > 0 <=> m.folio.qty[s] > 0 /\ opens[s] = 0
    <3>1. left.qty[s] = m.folio.qty[s] - sold[s]
      BY <1>4
    <3> QED BY <1>2, <3>1
  <2> QED BY <2>1 DEF Held
<1>7. p \in Plans /\ p.riskOff = (Held(left) # {}) /\ (p # NoPlan => p.riskOff)
  <2>1. month \in Int
    BY <1>1, MonthType DEF Plans
  <2> HIDE DEF month
  <2>2. NoPlan \in Plans /\ ZeroPlan(month) \in Plans
    BY <2>1, PlanTypes DEF Tiers
  <2>3. NoPlan.riskOff = FALSE /\ ZeroPlan(month).riskOff = TRUE
    BY DEF NoPlan, ZeroPlan
  <2> QED BY <2>2, <2>3
<1>8. FastRebalance(m, tier, market, names, force, opens) = Traded(m, left, p, m.formed)
  <2>1. FastRebalance(m, tier, market, names, force, opens)
          = [m EXCEPT !.folio = left, !.plan = p]
    BY <1>5, <1>6 DEF FastRebalance
  <2> HIDE DEF left, p
  <2> QED BY <2>1 DEF Books, Traded
<1>9. EngineExecute(e, tier, market, names, force, opens) = Traded(e, left, p, e.formed)
  <2>1. EngineExecute(e, tier, market, names, force, opens) = EngineExit(e, opens)
    BY DEF EngineExecute
  <2>2. EngineExit(e, opens) = [e EXCEPT !.folio = left, !.plan = p]
    BY DEF EngineExit
  <2> HIDE DEF left, p
  <2> QED BY <2>1, <2>2 DEF Books, Traded
<1>10. \A s \in Names : left.qty[s] <= m.folio.qty[s]
  BY <1>2, <1>3, <1>4
<1> HIDE DEF left, p
<1>11. LeavesExit(left, p, m.folio)
  BY <1>7, <1>10 DEF LeavesExit
<1> QED BY <1>4, <1>7, <1>8, <1>9, <1>11

\* The plan of the engine is the simulator's.
LEMMA TargetsAgree ==
  ASSUME session \in Nat, NEW b \in Books, b.formed = FALSE, NEW tier \in Tiers,
         NEW market \in Markets, NEW names \in SUBSET Names, NEW force \in BOOLEAN
  PROVE  EngineTarget(b, tier, market, names, force)
           = Traded(b, b.folio, FastPlan(b, tier, market, names, force),
                    FastOffers(b.plan, Month(session), force))
<1> DEFINE stale == b.plan # NoPlan /\ b.plan.month # Month(session)
           kept == b.plan # NoPlan /\ ~stale
           offers == FastOffers(b.plan, Month(session), force)
           plan == FastPlan(b, tier, market, names, force)
<1>1. Rank(tier) \in Int /\ Rank(b.plan.tier) \in Int
  BY DEF Rank
<1>2. b = Traded(b, b.folio, b.plan, FALSE)
  BY DEF Books, Traded
<1>3. CASE kept /\ Rank(tier) > Rank(b.plan.tier)
  <2>1. EngineTarget(b, tier, market, names, force)
          = [b EXCEPT !.plan = [b.plan EXCEPT !.tier = tier, !.gross = Gross(tier, b.plan.above)]]
    <3>1. ~(Rank(tier) <= Rank(b.plan.tier))
      BY <1>1, <1>3
    <3> QED BY <1>3, <3>1 DEF EngineTarget
  <2>2. offers = FALSE
    BY <1>3 DEF FastOffers
  <2>3. plan = [b.plan EXCEPT !.tier = tier, !.gross = Gross(tier, b.plan.above)]
    BY <1>3, <2>2 DEF FastPlan
  <2> DEFINE q == [b.plan EXCEPT !.tier = tier, !.gross = Gross(tier, b.plan.above)]
  <2>4. [b EXCEPT !.plan = q] = Traded(b, b.folio, q, FALSE)
    <3> HIDE DEF q
    <3> QED BY DEF Books, Traded
  <2> QED BY <2>1, <2>2, <2>3, <2>4
<1>4. CASE kept /\ Rank(tier) <= Rank(b.plan.tier)
  <2>1. ~(Rank(tier) > Rank(b.plan.tier))
    BY <1>1, <1>4
  <2>2. EngineTarget(b, tier, market, names, force) = b
    BY <1>4, <2>1 DEF EngineTarget
  <2>3. offers = FALSE
    BY <1>4 DEF FastOffers
  <2>4. plan = b.plan
    BY <1>4, <2>1, <2>3 DEF FastPlan
  <2> QED BY <1>2, <2>2, <2>3, <2>4
<1>5. CASE ~kept /\ (stale \/ force \/ MonthStart(session))
  <2>1. EngineTarget(b, tier, market, names, force)
          = [b EXCEPT !.plan = Form(names, market = "above", tier), !.formed = TRUE]
    BY <1>5 DEF EngineTarget
  <2>2. offers = TRUE
    BY <1>5 DEF FastOffers
  <2>3. plan = Form(names, market = "above", tier)
    BY <2>2 DEF FastPlan
  <2> QED BY <2>1, <2>2, <2>3 DEF Books, Traded
<1>6. CASE ~kept /\ ~(stale \/ force \/ MonthStart(session))
  <2>1. EngineTarget(b, tier, market, names, force) = b
    BY <1>6 DEF EngineTarget
  <2>2. offers = FALSE
    BY <1>6 DEF FastOffers
  <2>3. plan = b.plan
    BY <1>6, <2>2 DEF FastPlan
  <2> QED BY <1>2, <2>1, <2>2, <2>3
<1>7. Rank(tier) > Rank(b.plan.tier) \/ Rank(tier) <= Rank(b.plan.tier)
  BY <1>1
<1> QED BY <1>3, <1>4, <1>5, <1>6, <1>7

\* What the simulator leaves of m, and with these opens the engine of e, are the same
\* trades, and leave a target.
SameTrades(m, e, fastLeft, engineLeft, opens, offers) ==
  \E f \in Folios, p \in Plans :
    /\ fastLeft = Traded(m, f, p, m.formed)
    /\ Priced(m.folio, opens) => engineLeft = Traded(e, f, p, offers)
    /\ LeavesTarget(p)

\* The rebalance: the simulator leaves a portfolio and a plan that restores exposure,
\* and the engine the same where every position has an open.
LEMMA RebalanceStep ==
  ASSUME session \in Nat, NEW m \in Books, NEW e \in Books, e.folio = m.folio, e.plan = m.plan,
         e.formed = FALSE,
         NEW tier \in Tiers, NEW market \in Markets, NEW names \in SUBSET Names,
         NEW force \in BOOLEAN, NEW opens \in Opens,
         ~(ExitGate(tier, market) \/ m.plan.riskOff),
         NEW offers \in BOOLEAN, offers = FastOffers(m.plan, Month(session), force)
  PROVE  SameTrades(m, e, FastRebalance(m, tier, market, names, force, opens),
                    EngineExecute(e, tier, market, names, force, opens), opens, offers)
<1> DEFINE f == m.folio
           plan == FastPlan(m, tier, market, names, force)
           excess == [s \in Names |-> FastExcess(f, plan, s, opens)]
           bought == FastPurchases(f, plan, opens)
           pending == \E s \in plan.names :
                        Drifts(Shortfall(bought, plan, s, Equity(bought)), Equity(bought))
           sells == \E s \in Held(f) : excess[s] > 0
           t == Traded(e, f, plan, offers)
           priced == Priced(f, opens)
<1>1. f \in Folios /\ m.plan \in Plans /\ ~m.plan.riskOff
  BY DEF Books
<1>2. /\ plan \in Plans
      /\ plan # NoPlan => ~plan.riskOff /\ plan.month = Month(session)
      /\ plan = NoPlan => m.plan = NoPlan
  BY <1>1, FastPlanFacts
<1>3. NoPlan \in Plans /\ ~NoPlan.riskOff
  BY PlanTypes DEF NoPlan, Tiers
<1>4. /\ FastSale(f, excess, opens) \in Folios
      /\ Sale(f, EngineSells(f, plan, opens), opens) = FastSale(f, excess, opens)
      /\ priced => (EngineSellRequired(f, plan, opens) <=> sells)
  <2> HIDE DEF f, plan
  <2> QED BY <1>1, <1>2, SellsAgree DEF Priced
<1>5. EngineBuys(f, plan, opens) = bought /\ bought \in Folios
  <2> HIDE DEF f, plan
  <2> QED BY <1>1, <1>2, BuysAgree
<1>6. EngineTarget(e, tier, market, names, force) = t
  <2>1. EngineTarget(e, tier, market, names, force)
          = Traded(e, e.folio, FastPlan(e, tier, market, names, force),
                   FastOffers(e.plan, Month(session), force))
    BY TargetsAgree
  <2>2. FastPlan(e, tier, market, names, force) = plan
    BY DEF FastPlan
  <2>3. FastOffers(e.plan, Month(session), force) = offers
    OBVIOUS
  <2> QED BY <2>1, <2>2, <2>3
<1>7. FastRebalance(m, tier, market, names, force, opens)
        = IF plan = NoPlan THEN m
          ELSE IF sells THEN [m EXCEPT !.plan = plan, !.folio = FastSale(f, excess, opens)]
          ELSE [m EXCEPT !.plan = IF pending THEN plan ELSE NoPlan, !.folio = bought]
  BY <1>1 DEF FastRebalance
<1>8. t.folio = f /\ t.plan = plan
  BY DEF Books, Traded
<1>9. EngineExecute(e, tier, market, names, force, opens)
        = IF plan = NoPlan THEN t
          ELSE IF EngineSellRequired(f, plan, opens)
          THEN [t EXCEPT !.folio = Sale(f, EngineSells(f, plan, opens), opens)]
          ELSE [t EXCEPT !.folio = bought,
                         !.plan = IF EngineSettles(bought, plan) THEN NoPlan ELSE plan]
  <2>1. ~(ExitGate(tier, market) \/ e.plan.riskOff)
    BY <1>1
  <2> HIDE DEF t, f, plan, bought
  <2> QED BY <1>5, <1>6, <1>8, <2>1 DEF EngineExecute
<1>10. EngineSettles(bought, plan) <=> ~pending
  BY DEF EngineSettles
<1> HIDE DEF plan, excess, bought, pending, sells, priced
<1>11. CASE plan = NoPlan
  <2>1. FastRebalance(m, tier, market, names, force, opens) = Traded(m, f, plan, m.formed)
    BY <1>2, <1>7, <1>11 DEF Books, Traded
  <2>2. EngineExecute(e, tier, market, names, force, opens)
          = Traded(e, f, plan, offers)
    BY <1>9, <1>11 DEF Books, Traded
  <2> QED BY <1>1, <1>2, <1>3, <1>11, <2>1, <2>2 DEF LeavesTarget, SameTrades
<1>12. CASE plan # NoPlan /\ sells
  <2> DEFINE g == FastSale(f, excess, opens)
  <2>1. FastRebalance(m, tier, market, names, force, opens) = Traded(m, g, plan, m.formed)
    BY <1>7, <1>12 DEF Books, Traded
  <2>2. priced => EngineExecute(e, tier, market, names, force, opens)
          = Traded(e, g, plan, offers)
    BY <1>4, <1>9, <1>12 DEF Books, Traded
  <2>3. g \in Folios
    BY <1>4
  <2> HIDE DEF g
  <2> QED BY <1>2, <1>12, <2>1, <2>2, <2>3 DEF priced, LeavesTarget, SameTrades
<1>13. CASE plan # NoPlan /\ ~sells
  <2> DEFINE p == IF pending THEN plan ELSE NoPlan
  <2>1. FastRebalance(m, tier, market, names, force, opens) = Traded(m, bought, p, m.formed)
    BY <1>7, <1>13 DEF Books, Traded
  <2>2. priced => EngineExecute(e, tier, market, names, force, opens)
          = Traded(e, bought, p, offers)
    BY <1>4, <1>9, <1>10, <1>13 DEF Books, Traded
  <2>3. p \in Plans /\ ~p.riskOff /\ (p # NoPlan => p.month = Month(session))
    BY <1>2, <1>3
  <2> HIDE DEF p
  <2> QED BY <1>5, <2>1, <2>2, <2>3 DEF priced, LeavesTarget, SameTrades
<1> QED BY <1>11, <1>12, <1>13

\* A book is a book after its snapshot, and keeps what the session left.
LEMMA SnapshotType ==
  ASSUME NEW b \in Books
  PROVE  /\ RecordSnapshot(b) \in Books
         /\ RecordSnapshot(b).folio = b.folio /\ RecordSnapshot(b).plan = b.plan
         /\ RecordSnapshot(b).latched = b.latched /\ RecordSnapshot(b).formed = b.formed
<1>1. Equity(b.folio) \in Int /\ b.equities \in Seq(Int)
  BY EquityType DEF Books
<1>2. PICK equities \in Seq(Int) : equities = Recorded(b.equities, Equity(b.folio))
  <2>1. Append(b.equities, Equity(b.folio)) \in Seq(Int) /\ Append(b.equities, Equity(b.folio)) # <<>>
    BY <1>1
  <2>2. Recorded(b.equities, Equity(b.folio)) \in Seq(Int)
    BY <2>1 DEF Recorded
  <2> QED BY <2>2
<1>3. RecordSnapshot(b) = [b EXCEPT !.equities = equities]
  BY <1>2 DEF RecordSnapshot
<1> QED BY <1>2, <1>3 DEF Books

\* The latch of the simulator, by what it was.
LEMMA LatchFacts ==
  ASSUME NEW b \in Books, NEW tier, NEW market
  PROVE  /\ FastLatch(b, tier, market) \in BOOLEAN
         /\ FastLatch(b, tier, market) <=>
              LatchGate(tier, market) \/ (b.latched /\ (Held(b.folio) = {} \/ b.plan.riskOff))
         /\ EngineLatch(b, tier, market) = FastLatch(b, tier, market)
<1>1. b.latched \in BOOLEAN /\ b.plan.riskOff \in BOOLEAN /\ LatchGate(tier, market) \in BOOLEAN
  BY DEF Books, Plans, LatchGate
<1>2. FastLatch(b, tier, market) \in BOOLEAN /\ EngineLatch(b, tier, market) \in BOOLEAN
  BY DEF FastLatch, EngineLatch
<1>3. FastLatch(b, tier, market) <=>
        LatchGate(tier, market) \/ (b.latched /\ (Held(b.folio) = {} \/ b.plan.riskOff))
  BY DEF FastLatch
<1>4. EngineLatch(b, tier, market) <=> FastLatch(b, tier, market)
  BY <1>3 DEF EngineLatch
<1> QED BY <1>2, <1>3, <1>4

\* What both programs decide before they trade.
Exits(b, market) == ExitGate(Tier(b), market) \/ b.plan.riskOff
Forces(b, market) ==
  FastLatch(b, Tier(b), market) /\ ~LatchGate(Tier(b), market) /\ b.plan = NoPlan
Offers(b, market) ==
  ~Exits(b, market) /\ FastOffers(b.plan, Month(session), Forces(b, market))

\* The engine clears the latch at the end of the session that forced a target.
Cleared(b, force) == [b EXCEPT !.latched = @ /\ ~force]

\* What a session leaves of a book: a portfolio and a plan.
Outcome(b, market, f, p) ==
  [b EXCEPT !.folio = f, !.plan = p, !.formed = Offers(b, market),
            !.latched = FastLatch(b, Tier(b), market) /\ ~Forces(b, market)]

\* A session of the simulator, and with an open for every position that of the engine:
\* risk-off sells and stays pending while something is held, a plan that restores
\* exposure is of this month.
LEMMA SessionStep ==
  ASSUME session \in Nat, NEW b \in Books, NEW market \in Markets, NEW names \in SUBSET Names,
         NEW opens \in Opens
  PROVE  \E f \in Folios, p \in Plans :
           /\ FastSession(b, market, names, opens) = RecordSnapshot(Outcome(b, market, f, p))
           /\ ~EngineRefuses(b, opens) =>
                EngineSession(b, market, names, opens) = RecordSnapshot(Outcome(b, market, f, p))
           /\ Exits(b, market) => LeavesExit(f, p, b.folio)
           /\ ~Exits(b, market) => LeavesTarget(p)
<1> DEFINE tier == Tier(b)
           g == FastMark(b.folio, opens)
           latched == FastLatch(b, tier, market)
           force == Forces(b, market)
           offers == Offers(b, market)
           m == [b EXCEPT !.folio = g, !.latched = latched /\ ~force, !.formed = offers]
           e == [b EXCEPT !.folio = g, !.latched = latched, !.formed = FALSE]
<1>1. tier \in Tiers /\ b.folio \in Folios /\ b.plan \in Plans
  BY TierType DEF Books
<1>2. /\ g \in Folios /\ g.qty = b.folio.qty /\ Held(g) = Held(b.folio)
      /\ ~EngineRefuses(b, opens) => MarkToMarket(b.folio, opens) = g
  BY <1>1, MarkFacts DEF Held, EngineRefuses
<1>3. latched \in BOOLEAN /\ force \in BOOLEAN /\ offers \in BOOLEAN
  BY LatchFacts DEF Forces, Offers, Exits
<1>4. FastSession(b, market, names, opens)
        = RecordSnapshot(FastRebalance(m, tier, market, names, force, opens))
  BY DEF FastSession, Forces, Offers, Exits
<1>5. ASSUME ~EngineRefuses(b, opens)
      PROVE  EngineSession(b, market, names, opens)
               = RecordSnapshot(Cleared(EngineExecute(e, tier, market, names, force, opens), force))
  <2> DEFINE latch == EngineLatch(b, tier, market)
             x == [b EXCEPT !.folio = MarkToMarket(@, opens), !.formed = FALSE, !.latched = latch]
  <2>1. latch = latched
    BY LatchFacts DEF latched
  <2>2. x = e
    <3> HIDE DEF latch, latched, g
    <3> QED BY <1>2, <1>5, <2>1 DEF Books
  <2>3. EngineForces(e, tier, market) = force
    <3>1. e.latched = latched /\ e.plan = b.plan
      BY DEF Books
    <3> QED BY <3>1 DEF EngineForces, Forces
  <2>4. EngineSession(b, market, names, opens)
          = RecordSnapshot(Cleared(EngineExecute(x, tier, market, names,
                                                 EngineForces(x, tier, market), opens),
                                   EngineForces(x, tier, market)))
    BY DEF EngineSession, Cleared
  <2> HIDE DEF x, e, force
  <2> QED BY <2>2, <2>3, <2>4
<1> HIDE DEF tier, g, latched, force, offers
<1>6. /\ m \in Books /\ m.folio = g /\ m.plan = b.plan /\ m.formed = offers
      /\ e \in Books /\ e.folio = g /\ e.plan = b.plan /\ e.formed = FALSE
  BY <1>2, <1>3 DEF Books
<1>7. /\ Exits(b, market) <=> ExitGate(tier, market) \/ m.plan.riskOff
      /\ Exits(b, market) => offers = FALSE
      /\ ~Exits(b, market) => offers = FastOffers(m.plan, Month(session), force)
  <2>1. offers = (~Exits(b, market) /\ FastOffers(b.plan, Month(session), force))
    BY DEF Offers, offers, force
  <2>2. FastOffers(b.plan, Month(session), force) \in BOOLEAN
    BY DEF FastOffers
  <2>3. Exits(b, market) <=> ExitGate(tier, market) \/ b.plan.riskOff
    BY DEF Exits, tier
  <2> QED BY <1>3, <1>6, <2>1, <2>2, <2>3
<1>8. ~EngineRefuses(b, opens) => Priced(m.folio, opens)
  BY <1>2, <1>6 DEF EngineRefuses, Priced
<1>9. \A f, p : Traded(m, f, p, offers) = Outcome(b, market, f, p)
  BY DEF Traded, Outcome, Books, latched, force, offers, tier
<1>10. \A f, p : Cleared(Traded(e, f, p, offers), force) = Outcome(b, market, f, p)
  BY DEF Cleared, Traded, Outcome, Books, latched, force, offers, tier
<1> HIDE DEF m, e
<1>11. CASE Exits(b, market)
  <2>1. PICK f \in Folios, p \in Plans :
          /\ FastRebalance(m, tier, market, names, force, opens) = Traded(m, f, p, m.formed)
          /\ EngineExecute(e, tier, market, names, force, opens) = Traded(e, f, p, e.formed)
          /\ LeavesExit(f, p, m.folio)
    BY <1>1, <1>3, <1>6, <1>7, <1>11, ExitStep
  <2>2. FastSession(b, market, names, opens) = RecordSnapshot(Outcome(b, market, f, p))
    BY <1>4, <1>6, <1>9, <2>1
  <2>3. ~EngineRefuses(b, opens) =>
          EngineSession(b, market, names, opens) = RecordSnapshot(Outcome(b, market, f, p))
    BY <1>5, <1>6, <1>7, <1>10, <1>11, <2>1
  <2>4. LeavesExit(f, p, b.folio)
    BY <1>2, <1>6, <2>1 DEF LeavesExit
  <2> QED BY <1>11, <2>1, <2>2, <2>3, <2>4
<1>12. CASE ~Exits(b, market)
  <2>1. PICK f \in Folios, p \in Plans :
          /\ FastRebalance(m, tier, market, names, force, opens) = Traded(m, f, p, m.formed)
          /\ Priced(m.folio, opens) =>
               EngineExecute(e, tier, market, names, force, opens)
                 = Traded(e, f, p, offers)
          /\ LeavesTarget(p)
    <3>1. e.folio = m.folio /\ e.plan = m.plan /\ e.formed = FALSE
      BY <1>6
    <3>2. ~(ExitGate(tier, market) \/ m.plan.riskOff)
      BY <1>7, <1>12
    <3>3. offers = FastOffers(m.plan, Month(session), force)
      BY <1>7, <1>12
    <3>4. SameTrades(m, e, FastRebalance(m, tier, market, names, force, opens),
                     EngineExecute(e, tier, market, names, force, opens), opens, offers)
      BY <1>1, <1>3, <1>6, <3>1, <3>2, <3>3, RebalanceStep
    <3> QED BY <3>4 DEF SameTrades
  <2>2. FastSession(b, market, names, opens) = RecordSnapshot(Outcome(b, market, f, p))
    BY <1>4, <1>6, <1>9, <2>1
  <2>3. ~EngineRefuses(b, opens) =>
          EngineSession(b, market, names, opens) = RecordSnapshot(Outcome(b, market, f, p))
    BY <1>5, <1>7, <1>8, <1>10, <1>12, <2>1
  <2> QED BY <1>12, <2>1, <2>2, <2>3
<1> QED BY <1>11, <1>12

\* The same of the snapshots.
LEMMA SessionFacts ==
  ASSUME session \in Nat, NEW b \in Books, NEW market \in Markets, NEW names \in SUBSET Names,
         NEW opens \in Opens, NEW r, r = FastSession(b, market, names, opens)
  PROVE  /\ r \in Books
         /\ ~EngineRefuses(b, opens) => EngineSession(b, market, names, opens) = r
         /\ r.formed = Offers(b, market)
         /\ r.latched = (FastLatch(b, Tier(b), market) /\ ~Forces(b, market))
         /\ Exits(b, market) => LeavesExit(r.folio, r.plan, b.folio)
         /\ ~Exits(b, market) => LeavesTarget(r.plan)
<1>1. PICK f \in Folios, p \in Plans :
        /\ r = RecordSnapshot(Outcome(b, market, f, p))
        /\ ~EngineRefuses(b, opens) =>
             EngineSession(b, market, names, opens) = RecordSnapshot(Outcome(b, market, f, p))
        /\ Exits(b, market) => LeavesExit(f, p, b.folio)
        /\ ~Exits(b, market) => LeavesTarget(p)
  BY SessionStep
<1> DEFINE o == Outcome(b, market, f, p)
           latched == FastLatch(b, Tier(b), market) /\ ~Forces(b, market)
           offers == Offers(b, market)
<1>2. latched \in BOOLEAN /\ offers \in BOOLEAN
  BY LatchFacts DEF Offers
<1>3. o = [b EXCEPT !.folio = f, !.plan = p, !.formed = offers, !.latched = latched]
  BY DEF Outcome
<1>4. o \in Books /\ o.folio = f /\ o.plan = p /\ o.formed = offers /\ o.latched = latched
  <2> HIDE DEF o, latched, offers
  <2> QED BY <1>2, <1>3 DEF Books
<1> HIDE DEF o, latched, offers
<1>5. /\ r \in Books /\ r.folio = f /\ r.plan = p /\ r.formed = offers /\ r.latched = latched
  BY <1>1, <1>4, SnapshotType DEF o
<1> QED BY <1>1, <1>5 DEF latched, offers

(***************************************************************************)
(* The invariant.                                                          *)
(***************************************************************************)
\* The empty book is a book.
LEMMA NewBookType == NewBook \in Books /\ Held(NewBook.folio) = {}
<1>1. StartingCash \in Nat
  BY PolicyAssumption
<1>2. NoPlan \in Plans
  BY DEF NoPlan, Plans, Tiers
<1>3. NewBook.folio \in Folios
  BY <1>1 DEF NewBook, Folios
<1>4. Held(NewBook.folio) = {}
  BY DEF NewBook, Held
<1>5. NewBook \in Books
  BY <1>1, <1>2, <1>3 DEF NewBook, Books
<1> QED BY <1>4, <1>5

\* The invariant holds at the start.
LEMMA BooksInitial == Init => BooksInv
<1> SUFFICES ASSUME Init PROVE BooksInv
  OBVIOUS
<1>1. fast = NewBook /\ engine = NewBook /\ session = 0 /\ refused = FALSE
      /\ restored = FALSE /\ exiting = FALSE
  BY DEF Init
<1>2. fast \in Books /\ fast.plan = NoPlan /\ fast.latched = FALSE
  BY <1>1, NewBookType DEF NewBook
<1>3. Episode
  BY <1>1, <1>2 DEF Episode
<1> QED BY <1>1, <1>2, <1>3 DEF BooksInv

\* The invariant holds after a session, and a session keeps the two promises.
LEMMA BooksSession ==
  ASSUME BooksInv, NEW market \in Markets, NEW names \in Rankings, NEW opens \in Opens,
         Session(market, names, opens)
  PROVE  /\ BooksInv'
         /\ fast'.formed \/ (engine'.formed /\ ~refused') =>
              MonthStart(session) \/ (~restored /\ Held(fast.folio) = {})
         /\ exiting => \A s \in Names : fast'.folio.qty[s] <= fast.folio.qty[s]
<1> DEFINE b == fast
           r == fast'
           exits == Exits(b, market)
<1>1. /\ session \in Nat /\ b \in Books /\ names \in SUBSET Names
      /\ refused \in BOOLEAN /\ restored \in BOOLEAN /\ exiting \in BOOLEAN
  BY SymbolsAssumption DEF BooksInv
<1>2. session' = session + 1 /\ r = FastSession(b, market, names, opens)
  BY DEF Session
<1>3. /\ r \in Books
      /\ ~EngineRefuses(b, opens) => EngineSession(b, market, names, opens) = r
      /\ r.formed = Offers(b, market)
      /\ r.latched = (FastLatch(b, Tier(b), market) /\ ~Forces(b, market))
      /\ exits => LeavesExit(r.folio, r.plan, b.folio)
      /\ ~exits => LeavesTarget(r.plan)
  <2> HIDE DEF b, r
  <2> QED BY <1>1, <1>2, SessionFacts DEF exits
<1>4. /\ b.plan \in Plans /\ b.latched \in BOOLEAN /\ b.formed \in BOOLEAN
      /\ r.plan \in Plans /\ r.latched \in BOOLEAN /\ r.formed \in BOOLEAN
  BY <1>1, <1>3 DEF Books
<1>5. FastLatch(b, Tier(b), market) <=>
        LatchGate(Tier(b), market) \/ (b.latched /\ (Held(b.folio) = {} \/ b.plan.riskOff))
  BY <1>1, LatchFacts
<1>6. Month(session' - 1) = Month(session) /\ session' > 0 /\ session' \in Nat
  <2>1. session' - 1 = session
    BY <1>1, <1>2
  <2> QED BY <1>1, <1>2, <2>1
<1>7. refused' \in BOOLEAN /\ (~refused' => engine' = r)
  <2>1. refused' = (refused \/ EngineRefuses(engine, opens))
    BY DEF Session
  <2>2. ASSUME ~refused' PROVE engine' = r
    <3>1. ~refused /\ ~EngineRefuses(engine, opens)
      BY <2>1, <2>2
    <3>2. engine = b
      BY <3>1 DEF BooksInv
    <3>3. engine' = EngineSession(engine, market, names, opens)
      BY <2>2 DEF Session
    <3> QED BY <1>3, <3>1, <3>2, <3>3
  <2> QED BY <2>1, <2>2
<1>8. restored' \in BOOLEAN /\ exiting' \in BOOLEAN
  BY DEF Session
<1>9. exiting' => r.plan.riskOff
  <2>1. exiting' => (exiting \/ ExitGate(Tier(b), market)) /\ Held(r.folio) # {}
    BY DEF Session, Held
  <2>2. exiting => b.plan.riskOff
    BY DEF BooksInv
  <2>3. exiting' => exits
    BY <2>1, <2>2 DEF Exits
  <2> QED BY <1>3, <2>1, <2>3 DEF LeavesExit
<1>10. r.plan # NoPlan /\ ~r.plan.riskOff => r.plan.month = Month(session)
  BY <1>3 DEF LeavesExit, LeavesTarget
<1>11. restored' /\ r.latched => Held(r.folio) # {} /\ ~r.plan.riskOff
  <2> SUFFICES ASSUME restored', r.latched PROVE Held(r.folio) # {} /\ ~r.plan.riskOff
    OBVIOUS
  <2>1. /\ ~LatchGate(Tier(b), market)
        /\ restored \/ (r.formed /\ b.plan = NoPlan) \/ (Held(r.folio) # {} /\ ~r.plan.riskOff)
    BY DEF Session, Held
  <2>2. b.latched /\ (Held(b.folio) = {} \/ b.plan.riskOff) /\ b.plan # NoPlan
    BY <1>3, <1>5, <2>1 DEF Forces
  <2>3. ~restored
    BY <2>2 DEF BooksInv, Episode
  <2> QED BY <2>1, <2>2, <2>3
<1>12. BooksInv'
  <2>1. Episode'
    BY <1>6, <1>10, <1>11 DEF Episode
  <2> QED BY <1>3, <1>6, <1>7, <1>8, <1>9, <2>1 DEF BooksInv
<1>13. ASSUME r.formed \/ (engine'.formed /\ ~refused'), ~MonthStart(session)
       PROVE  ~restored /\ Held(b.folio) = {}
  <2>1. Offers(b, market)
    BY <1>3, <1>7, <1>13
  <2>2. ~b.plan.riskOff /\ FastOffers(b.plan, Month(session), Forces(b, market))
    BY <2>1 DEF Offers, Exits
  <2>3. Month(session - 1) = Month(session)
    BY <1>13 DEF MonthStart
  <2>4. b.plan # NoPlan => b.plan.month = Month(session)
    BY <2>2, <2>3 DEF BooksInv, Episode
  <2>5. b.plan = NoPlan /\ Forces(b, market)
    BY <1>13, <2>2, <2>4 DEF FastOffers
  <2>6. b.latched /\ Held(b.folio) = {}
    BY <1>5, <2>2, <2>5 DEF Forces
  <2> QED BY <2>6 DEF BooksInv, Episode
<1>14. ASSUME exiting PROVE \A s \in Names : r.folio.qty[s] <= b.folio.qty[s]
  <2>1. exits
    BY <1>14 DEF BooksInv, Exits
  <2> QED BY <1>3, <2>1 DEF LeavesExit
<1> QED BY <1>12, <1>13, <1>14

\* Steps that change nothing keep the invariant.
LEMMA BooksStutter == BooksInv /\ UNCHANGED vars => BooksInv'
  BY DEF BooksInv, Episode, vars, Held

\* The invariant holds in every state.
LEMMA BooksStep == Spec => []BooksInv
<1>1. BooksInv /\ [Next]_vars => BooksInv'
  <2>1. BooksInv /\ Next => BooksInv'
    BY BooksSession DEF Next, Markets
  <2> QED BY <2>1, BooksStutter
<1> QED BY <1>1, BooksInitial, PTL DEF Spec

(***************************************************************************)
(* The theorems.                                                           *)
(***************************************************************************)
\* As long as the engine does not refuse to value a position without a bar, the fast
\* simulator holds the same shares, cash, marks, equity, latch and pending plan as
\* run_backtest after every session.
THEOREM ParityCorrect == Spec => []Parity
<1>1. BooksInv => Parity
  BY DEF BooksInv, Parity
<1> QED BY <1>1, BooksStep, PTL

\* Between month starts a target is formed only once after risk-off, from an empty book.
THEOREM OneRankCorrect == Spec => OneRankPerEpisode
<1>1. BooksInv /\ [Next]_vars =>
        [fast'.formed \/ (engine'.formed /\ ~refused') =>
           MonthStart(session) \/ (~restored /\ Held(fast.folio) = {})]_vars
  BY BooksSession DEF Next, Markets
<1> QED BY <1>1, BooksStep, PTL DEF Spec, OneRankPerEpisode

\* From a risk-off exit on nothing is bought until nothing is held.
THEOREM ExitFirstCorrect == Spec => RiskOffUntilFlat
<1>1. BooksInv /\ [Next]_vars =>
        [exiting => \A s \in Names : fast'.folio.qty[s] <= fast.folio.qty[s]]_vars
  BY BooksSession DEF Next, Markets
<1> QED BY <1>1, BooksStep, PTL DEF Spec, RiskOffUntilFlat
=============================================================================
