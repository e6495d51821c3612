------------------------ MODULE EntryDecision_proofs ------------------------
(***************************************************************************)
(* What holds of the entry decisions for every registry, every feed, every *)
(* quote and every change CIATS writes: the order a decision sends keeps   *)
(* what its gates found, and losses stop the wallet and the symbol that     *)
(* keep losing.                                                            *)
(***************************************************************************)
EXTENDS EntryDecision, TLAPS

-----------------------------------------------------------------------------
(* Divisions: the model rounds down where the code has exact decimals. *)

\* A quotient is an integer between the two multiples that enclose the dividend.
LEMMA Quotient ==
    ASSUME NEW a \in Int, NEW b \in Nat \ {0}
    PROVE  /\ a \div b \in Int
           /\ b * (a \div b) <= a /\ a < b * (a \div b) + b
OBVIOUS

\* A dividend of k divisors makes a quotient of k.
LEMMA AtLeast ==
    ASSUME NEW a \in Int, NEW b \in Nat \ {0}, NEW k \in Int, a >= k * b
    PROVE  a \div b >= k
OBVIOUS

\* A dividend of at most k divisors makes a quotient of at most k.
LEMMA AtMost ==
    ASSUME NEW a \in Int, NEW b \in Nat \ {0}, NEW k \in Int, a <= k * b
    PROVE  a \div b <= k
OBVIOUS

\* A larger divisor makes a smaller quotient.
LEMMA LargerDivisor ==
    ASSUME NEW a \in Nat, NEW b \in Nat \ {0}, NEW c \in Nat \ {0}, b >= c
    PROVE  a \div b <= a \div c
OBVIOUS

\* A larger dividend makes a larger quotient.
LEMMA LargerDividend ==
    ASSUME NEW a \in Int, NEW c \in Int, NEW b \in Nat \ {0}, a >= c
    PROVE  a \div b >= c \div b
OBVIOUS

\* Multiples keep the order of what they multiply.
LEMMA Scaled ==
    ASSUME NEW x \in Nat, NEW low \in Nat, NEW mid \in Nat, NEW high \in Nat,
           low <= mid, mid <= high
    PROVE  x * mid \in Nat /\ x * low <= x * mid /\ x * mid <= x * high
OBVIOUS

-----------------------------------------------------------------------------
(* The gates. *)

\* A candidate is accepted only past gate:G5, gate:G7 and gate:G8.
LEMMA AcceptedPasses ==
    ASSUME NEW sd, NEW in, NEW params, RunPipeline(sd, in, params).accepted
    PROVE  /\ SelectionPasses(in, params)
           /\ RiskGuard(in, params) = "PASS"
           /\ SizePasses(sd, in, params)
<1> DEFINE failed == {i \in DOMAIN Stages : ~Passes(Stages[i], sd, in, params)}
<1>1. failed = {}
  BY DEF RunPipeline
<1>2. {7, 8, 9} \subseteq DOMAIN Stages
  BY DEF Stages
<1>3. Stages[7] = "G5" /\ Stages[8] = "G7" /\ Stages[9] = "G8"
  BY DEF Stages
<1>4. /\ Passes("G5", sd, in, params)
      /\ Passes("G7", sd, in, params)
      /\ Passes("G8", sd, in, params)
  BY <1>1, <1>2, <1>3
<1> HIDE DEF failed
<1>5. QED
  BY <1>4 DEF Passes

\* gate:G7 passes below the pause, with nothing open on the side.
LEMMA GuardPasses ==
    ASSUME NEW in, NEW params, RiskGuard(in, params) = "PASS"
    PROVE  /\ ~(Drawdown(in) >= ParameterOf(params, "session_pause_drawdown_pct"))
           /\ ~in.locked
BY DEF RiskGuard

-----------------------------------------------------------------------------
(* The order. *)

\* What gate:G8 hands over, as far as the order reads it.
SizedTyped(sized) ==
    sized.reward \in Int /\ sized.netLoss \in Int /\ sized.close \in Nat
        /\ sized.slDistance \in Nat

\* The slippage cap is between nothing and the pair's.
LEMMA CapBounds ==
    ASSUME NEW sized, SizedTyped(sized), NEW mpp \in Nat
    PROVE  SlippageCap(sized, mpp) \in 0 .. mpp
BY DEF SlippageCap, Larger, Smaller, SizedTyped

\* What the cap takes leaves the floor: it takes nothing, or at most what the
\* reward has to spare above one and a half times the loss.
LEMMA CapLeavesFloor ==
    ASSUME NEW sized, SizedTyped(sized), NEW mpp \in Nat,
           FloorHolds(sized.reward, sized.netLoss)
    PROVE  FloorHolds(sized.reward - SlippageCap(sized, mpp), sized.netLoss)
<1> DEFINE r == sized.reward
           l == sized.netLoss
           c == SlippageCap(sized, mpp)
<1>1. r \in Int /\ l \in Int
  BY DEF SizedTyped
<1>2. c = 0 \/ (c \in Int /\ c <= r - (3 * l + 1) \div 2)
  BY <1>1 DEF SlippageCap, Larger, Smaller
<1>3. 2 * r >= 3 * l
  BY DEF FloorHolds
<1>4. 2 * (r - c) >= 3 * l
  <2> HIDE DEF r, l, c
  <2>1. CASE c = 0
    BY <2>1, <1>1, <1>3
  <2>2. CASE c \in Int /\ c <= r - (3 * l + 1) \div 2
    BY <2>2, <1>1
  <2>3. QED
    BY <2>1, <2>2, <1>2
<1>5. QED
  BY <1>4 DEF FloorHolds

\* The prices of a feed, as FeedAssumption has them.
PricesTyped(f) ==
    /\ f.mpp \in 0 .. Bp - 1
    /\ f.quote.bid \in Nat /\ f.quote.ask \in Nat \ {0}
    /\ f.quote.bid * (Bp - f.mpp) >= Bp
    /\ {f.quote.bid, 2 * f.quote.ask} \subseteq 0 .. 1000000 * (SizeFloor \div 2)

\* A limit is a price, and the smallest size buys a grain of quantity at it.
LEMMA LimitIsAPrice ==
    ASSUME NEW f, PricesTyped(f), NEW sized, SizedTyped(sized), NEW sd \in Sides
    PROVE  EntryLimit(sd, sized, f.mpp, f.quote.bid, f.quote.ask)
               \in 1 .. 1000000 * (SizeFloor \div 2)
<1> DEFINE c == SlippageCap(sized, f.mpp)
           bid == f.quote.bid
           ask == f.quote.ask
           top == 1000000 * (SizeFloor \div 2)
<1>1. c \in 0 .. f.mpp /\ f.mpp \in 0 .. Bp - 1
  BY CapBounds DEF PricesTyped
<1>2. /\ bid \in Nat /\ ask \in Nat \ {0} /\ bid * (Bp - f.mpp) >= Bp
      /\ bid <= top /\ 2 * ask <= top
  BY DEF PricesTyped
<1>3. top \in Int
  BY DecisionAssumption
<1>4. Bp \in Nat \ {0}
  BY SMT DEF Bp
<1> HIDE DEF c, bid, ask, top
<1>5. (ask * (Bp + c)) \div Bp \in 1 .. top
  <2> DEFINE n == ask * (Bp + c)
  <2>1. Bp + c \in Nat /\ Bp <= Bp + c /\ Bp + c <= 2 * Bp
    BY <1>1, <1>4
  <2>2. n \in Nat /\ ask * Bp <= n /\ n <= ask * (2 * Bp)
    BY <2>1, <1>2, <1>4, Scaled
  <2> HIDE DEF n
  <2>3. 1 * Bp <= ask * Bp /\ ask * (2 * Bp) = (2 * ask) * Bp
    BY <1>2, <1>4
  <2>4. 1 * Bp <= n /\ n <= (2 * ask) * Bp
    BY <2>2, <2>3, <1>2, <1>4
  <2>5. n \div Bp >= 1 /\ n \div Bp <= 2 * ask
    <3> DEFINE twice == 2 * ask
    <3>1. twice \in Int
      BY <1>2
    <3> HIDE DEF twice
    <3>2. n \div Bp >= 1 /\ n \div Bp <= twice
      BY <3>1, <2>2, <2>4, <1>4, AtLeast, AtMost DEF twice
    <3>3. QED
      BY <3>2 DEF twice
  <2>6. n \div Bp \in Int
    BY <2>2, <1>4, Quotient
  <2>7. QED
    BY <2>5, <2>6, <1>2, <1>3 DEF n
<1>6. (bid * (Bp - c)) \div Bp \in 1 .. top
  <2> DEFINE n == bid * (Bp - c)
  <2>1. Bp - c \in Nat /\ Bp - f.mpp \in Nat /\ Bp - f.mpp <= Bp - c /\ Bp - c <= Bp
    BY <1>1, <1>4
  <2>2. n \in Nat /\ bid * (Bp - f.mpp) <= n /\ n <= bid * Bp
    BY <2>1, <1>2, <1>4, Scaled
  <2>3. bid * (Bp - f.mpp) \in Int
    BY <2>1, <1>2
  <2> HIDE DEF n
  <2>4. 1 * Bp <= n /\ n <= bid * Bp
    BY <2>2, <2>3, <1>2, <1>4
  <2>5. n \div Bp >= 1 /\ n \div Bp <= bid
    BY <2>2, <2>4, <1>2, <1>4, AtLeast, AtMost
  <2>6. n \div Bp \in Int
    BY <2>2, <1>4, Quotient
  <2>7. QED
    BY <2>5, <2>6, <1>2, <1>3 DEF n
<1>7. QED
  BY <1>5, <1>6 DEF EntryLimit, c, bid, ask, top

\* Whatever the pair's minimums, an entry is worth half the floor at least.
LEMMA SizeIsWorth ==
    ASSUME NEW f, f.regime \in Regimes, f.close \in Nat,
           f.pair.costMin \in Nat, f.pair.qtyMin \in Nat
    PROVE  UsdOf(f) \in Nat /\ UsdOf(f) >= SizeFloor \div 2
<1> DEFINE base == BaseOf(f)
           mult == SizeMultiplier(f.regime)
<1>1. ValueOf(f.pair.qtyMin, f.close) \in Nat
  BY DEF ValueOf
<1>2. base \in Nat /\ base >= SizeFloor
  BY <1>1, DecisionAssumption DEF BaseOf, BaseSize, Larger
<1>3. mult \in {5, 10}
  BY DEF SizeMultiplier
<1>4. UsdOf(f) = (base * mult) \div 10
  BY DEF UsdOf, RegimeSize
<1> HIDE DEF base, mult
<1>5. SizeFloor \in Nat
  BY DecisionAssumption
<1>6. QED
  BY <1>2, <1>3, <1>4, <1>5

\* The quantity of an order of that worth, at such a limit.
LEMMA QuantityIsPositive ==
    ASSUME NEW usd \in Nat, usd >= SizeFloor \div 2,
           NEW limit \in 1 .. 1000000 * (SizeFloor \div 2)
    PROVE  OrderQty(usd, limit) \in Nat \ {0}
<1>1. SizeFloor \in Nat
  BY DecisionAssumption
<1>2. limit \in Nat \ {0} /\ usd * 1000000 \in Nat /\ usd * 1000000 >= 1 * limit
  BY <1>1
<1>3. (usd * 1000000) \div limit >= 1
  BY <1>2, AtLeast
<1>4. (usd * 1000000) \div limit \in Int
  BY <1>2, Quotient
<1>5. QED
  BY <1>3, <1>4 DEF OrderQty

-----------------------------------------------------------------------------
(* The stops. *)

\* The fraction of the price a stop is away is a number, smaller off a higher
\* price.
LEMMA FractionType ==
    ASSUME NEW atr \in Nat, NEW mult \in Nat, NEW price \in Nat \ {0}
    PROVE  StopFraction(atr, mult, price) \in Nat
<1>1. atr * mult * 1000 \in Nat
  OBVIOUS
<1>2. 0 * price = 0
  OBVIOUS
<1>3. (atr * mult * 1000) \div price >= 0
  BY <1>1, <1>2, AtLeast
<1>4. QED
  BY <1>1, <1>3, Quotient DEF StopFraction

LEMMA FractionFalls ==
    ASSUME NEW atr \in Nat, NEW mult \in Nat, NEW price \in Nat \ {0},
           NEW entry \in Nat, entry >= price
    PROVE  StopFraction(atr, mult, entry) <= StopFraction(atr, mult, price)
<1> DEFINE w == atr * mult * 1000
<1>1. w \in Nat /\ entry \in Nat \ {0}
  OBVIOUS
<1> HIDE DEF w
<1>2. w \div entry <= w \div price
  BY <1>1, LargerDivisor
<1>3. QED
  BY <1>2 DEF StopFraction, w

\* Where the wider multiple is wider by more than the grain of a fraction, the
\* distance of the emergency stop is at least that of layer:L2.
LEMMA WiderStop ==
    ASSUME NEW atr \in Nat, NEW mult \in Nat, NEW wide \in Nat, NEW close \in Nat \ {0},
           atr * (wide - mult) * 1000 >= close
    PROVE  (StopFraction(atr, wide, close) * close) \div Bp >= (atr * mult) \div 10
<1> DEFINE w == atr * wide
           m == atr * mult
           q == (w * 1000) \div close
<1>1. w \in Nat /\ m \in Nat /\ w * 1000 - m * 1000 >= close
  BY DEF w, m
<1> HIDE DEF w, m
<1>2. q \in Int /\ w * 1000 < close * q + close
  BY <1>1, Quotient
<1>3. close * q \in Int /\ q * close = close * q
  BY <1>2
<1> HIDE DEF q
<1>4. q * close >= m * 1000
  BY <1>1, <1>2, <1>3
<1>5. (q * close) \div 10000 >= (m * 1000) \div 10000
  BY <1>1, <1>3, <1>4
<1>6. (m * 1000) \div 10000 = m \div 10
  BY <1>1
<1>7. QED
  BY <1>5, <1>6 DEF StopFraction, Bp, w, m, q

-----------------------------------------------------------------------------
(* The invariant. *)

\* No change CIATS writes is one of this parameter.
Untuned(name) == \A t \in Tunings : t[2] # name

\* The L2 multiple of a route.
L2Multiple(r) == IF r = "decision" THEN DecisionStopMult ELSE Registry["mae_mult"]

\* The emergency multiple is the registry's, and wider than the L2 multiple by
\* more than the grain of a fraction of the price.
StopsAreOrdered ==
    /\ Untuned("emergency_sl_mult")
    /\ \A r \in Routes : \A f \in Feeds :
           Ready(f) => f.atr * (Registry["emergency_sl_mult"] - L2Multiple(r)) * 1000 >= f.close

\* A parameter store holds what CIATS wrote.
Written ==
    /\ DOMAIN owned = Sides
    /\ \A sd \in Sides : \A n \in DOMAIN owned[sd] : <<sd, n, owned[sd][n]>> \in Tunings

Typed ==
    /\ route \in Routes /\ stopMult = L2Multiple(route)
    /\ cash \in [Sides -> Int]
    /\ pos \in [Symbols -> Positions \cup {None}]
    /\ sem \in [Sides -> BOOLEAN]
    /\ losses \in [Sides -> [Symbols -> Nat]]
    /\ sinceExit \in [Sides -> [Symbols -> Nat \cup {None}]]
    /\ entered \in 0 .. MaxEntries

\* A symbol whose side has lost has its last losing exit timed.
Timed ==
    \A sd \in Sides, s \in Symbols : losses[sd][s] > 0 => sinceExit[sd][s] \in Nat

Holds(sd, s) == pos[s] # None /\ pos[s].side = sd

\* A position is filed under its symbol, which its side may enter; a side holds
\* one, exactly while its semaphore is taken.
Filed ==
    /\ \A s \in Symbols : pos[s] # None =>
           pos[s].sym = s /\ pos[s].qty > 0 /\ <<pos[s].side, s>> \in Enters
    /\ \A sd \in Sides : \A s, t \in Symbols : Holds(sd, s) /\ Holds(sd, t) => s = t
    /\ \A sd \in Sides : sem[sd] <=> \E s \in Symbols : Holds(sd, s)

\* What the decision that opened a position saw still holds of it.
GatesKept(p) ==
    /\ FloorHolds(p.why.reward - p.why.cap, p.why.netLoss)
    /\ route = "decision" /\ p.entry >= p.why.close =>
           StopFraction(p.atr, stopMult, p.entry) + 2 * TakerBp <= p.why.netLoss
    /\ StopsAreOrdered =>
           IF p.side = "long" THEN p.stop <= p.entry - (p.atr * stopMult) \div 10
                              ELSE p.stop >= p.entry + (p.atr * stopMult) \div 10

Kept == \A s \in Symbols : pos[s] # None => GatesKept(pos[s])

Inv == Typed /\ Written /\ Timed /\ Filed /\ Kept

\* The parameters of a candidate are the registry's or CIATS' numbers: the L2
\* multiple of the decision route is the bootstrap's.
LEMMA ParameterTypes ==
    ASSUME Inv, NEW sd \in Sides, NEW name \in {"mae_mult", "emergency_sl_mult"}
    PROVE  ParameterOf(CycleParameters(sd), name) \in Nat
<1>1. name \in DOMAIN owned[sd] => owned[sd][name] \in Nat
  <2> SUFFICES ASSUME name \in DOMAIN owned[sd] PROVE owned[sd][name] \in Nat
    OBVIOUS
  <2> DEFINE v == owned[sd][name]
  <2>1. <<sd, name, v>> \in Tunings
    BY DEF Inv, Written
  <2>2. Tunings \subseteq Sides \X STRING \X Nat
    BY DecisionAssumption
  <2> HIDE DEF v
  <2>3. <<sd, name, v>> \in Sides \X STRING \X Nat
    BY <2>1, <2>2
  <2>4. v \in Nat
    BY <2>3
  <2> QED BY <2>4 DEF v
<1>2. CASE route = "decision"
  BY <1>1, <1>2, DecisionAssumption DEF ParameterOf, CycleParameters, Override, Parameters
<1>3. CASE route # "decision"
  BY <1>1, <1>3, DecisionAssumption DEF ParameterOf, CycleParameters, Parameters
<1>4. QED
  BY <1>2, <1>3

\* The invariant gives the properties of the runs; of the stops' order it needs
\* the hypothesis.
LEMMA InvGivesTypes == Inv => TypeOK
<1> SUFFICES ASSUME Inv PROVE TypeOK
  OBVIOUS
<1>1. ASSUME NEW sd \in Sides PROVE sem[sd] <=> Held(sd) # {}
  BY <1>1 DEF Inv, Filed, Held, Holds
<1>2. ASSUME NEW sd \in Sides PROVE ParameterOf(CycleParameters(sd), "mae_mult") \in Nat
  BY <1>2, ParameterTypes
<1>3. QED
  BY <1>1, <1>2 DEF Inv, Typed, Timed, Filed, TypeOK

LEMMA InvGivesGates == Inv => FloorSurvivesSlippage /\ OneRBasis
BY DEF Inv, Kept, GatesKept, FloorSurvivesSlippage, OneRBasis, Open

LEMMA InvGivesStops == Inv /\ StopsAreOrdered => StopBeyondL2
BY DEF Inv, Kept, GatesKept, StopBeyondL2, Open

\* A parameter nobody tunes is the registry's, on either route.
LEMMA UntunedIsSeed ==
    ASSUME Inv, NEW sd \in Sides, NEW name, name # "mae_mult", Untuned(name)
    PROVE  ParameterOf(CycleParameters(sd), name) = Registry[name]
<1>1. name \notin DOMAIN owned[sd]
  BY DEF Inv, Written, Untuned
<1>2. QED
  BY <1>1 DEF ParameterOf, CycleParameters, Override, Parameters

LEMMA DecisionMultiple ==
    ASSUME Inv, NEW sd \in Sides, route = "decision"
    PROVE  ParameterOf(CycleParameters(sd), "mae_mult") = stopMult
BY DEF ParameterOf, CycleParameters, Override, Parameters, Inv, Typed, L2Multiple

-----------------------------------------------------------------------------
(* A decision. *)

\* What gate:G8 hands over is typed.
LEMMA SizedTypes ==
    ASSUME Inv, NEW sd \in Sides, NEW in,
           in.atr \in Nat, in.close \in Nat \ {0}, in.reward \in Int
    PROVE  /\ SizedTyped(Sized(sd, in, CycleParameters(sd)))
           /\ Sized(sd, in, CycleParameters(sd)).netLoss \in Nat
<1> DEFINE params == CycleParameters(sd)
<1>1. /\ StopFraction(in.atr, ParameterOf(params, "mae_mult"), in.close) \in Nat
      /\ StopFraction(in.atr, ParameterOf(params, "emergency_sl_mult"), in.close) \in Nat
  BY ParameterTypes, FractionType
<1> HIDE DEF params
<1>2. NetLoss(sd, in, params) \in Nat
  BY <1>1, DecisionAssumption DEF NetLoss
<1>3. QED
  BY <1>1, <1>2 DEF Sized, SizedTyped, params

\* The gates' findings a decision on the feed f of side sd, at symbol s.
Found(sd, s, f, q, blocks) ==
    Sized(sd, Inputs(sd, s, f, q, blocks), CycleParameters(sd))

\* What the candidate of a feed hands to the gates, as far as it is used here.
LEMMA InputFields ==
    ASSUME NEW sd, NEW s, NEW f, NEW q, NEW blocks
    PROVE  LET in == Inputs(sd, s, f, q, blocks)
           IN  /\ in.close = f.close /\ in.atr = f.atr /\ in.reward = f.reward
               /\ in.locked = sem[sd] /\ in.losses = losses[sd][s]
               /\ in.baseline = Start /\ in.portfolio = Portfolio(sd, s, f, q, blocks)
BY DEF Inputs

\* The position a decision opens is one the mirror can keep.
LEMMA OpenedType ==
    ASSUME Inv, NEW sd \in Sides, NEW s \in Symbols, NEW f \in Feeds, Ready(f),
           NEW q, NEW blocks
    PROVE  LET p == Opened(sd, s, f, Found(sd, s, f, q, blocks))
           IN  p \in Positions /\ p # None /\ p.sym = s /\ p.side = sd /\ p.qty > 0
<1> DEFINE sized == Found(sd, s, f, q, blocks)
           limit == EntryLimit(sd, sized, f.mpp, f.quote.bid, f.quote.ask)
           top == 1000000 * (SizeFloor \div 2)
<1>1. /\ f.close \in Nat \ {0} /\ f.atr \in Nat /\ f.regime \in Regimes
      /\ f.pair.costMin \in Nat /\ f.pair.qtyMin \in Nat
      /\ f.reward \in Int /\ PricesTyped(f)
  BY FeedAssumption DEF PricesTyped
<1>2. SizedTyped(sized) /\ sized.netLoss \in Nat
  BY <1>1, InputFields, SizedTypes DEF Found
<1> HIDE DEF sized
<1>3. limit \in 1 .. top
  BY <1>1, <1>2, LimitIsAPrice
<1>4. UsdOf(f) \in Nat /\ UsdOf(f) >= SizeFloor \div 2
  BY <1>1, SizeIsWorth
<1>5. OrderQty(UsdOf(f), limit) \in Nat \ {0}
  BY <1>3, <1>4, QuantityIsPositive
<1>6. limit \in Nat
  BY <1>3
<1> HIDE DEF limit
<1>7. EmergencyStop(sd, sized, limit) \in Int
  <2>1. sized.slDistance * sized.close \in Int /\ Bp \in Nat \ {0}
    BY <1>2, SMT DEF SizedTyped, Bp
  <2>2. (sized.slDistance * sized.close) \div Bp \in Int
    BY <2>1, Quotient
  <2>3. QED
    BY <2>2, <1>6 DEF EmergencyStop
<1>8. f.mpp \in Nat
  BY <1>1 DEF PricesTyped
<1>9. SlippageCap(sized, f.mpp) \in Nat
  BY <1>2, <1>8, CapBounds
<1>10. [close |-> f.close, reward |-> f.reward, netLoss |-> sized.netLoss,
        cap |-> SlippageCap(sized, f.mpp)]
           \in [close : Nat, reward : Int, netLoss : Int, cap : Nat]
  BY <1>1, <1>2, <1>9
<1>11. Opened(sd, s, f, sized) \in Positions
  BY <1>1, <1>5, <1>6, <1>7, <1>10 DEF Opened, Positions, limit
<1>12. QED
  BY <1>5, <1>11, DecisionAssumption DEF Opened, limit, sized

\* It keeps what its gates found.
LEMMA OpenedKeepsGates ==
    ASSUME Inv, NEW sd \in Sides, NEW s \in Symbols, NEW f \in Feeds, Ready(f),
           NEW q, NEW blocks,
           SizePasses(sd, Inputs(sd, s, f, q, blocks), CycleParameters(sd))
    PROVE  GatesKept(Opened(sd, s, f, Found(sd, s, f, q, blocks)))
<1> DEFINE in == Inputs(sd, s, f, q, blocks)
           sized == Found(sd, s, f, q, blocks)
           params == CycleParameters(sd)
           p == Opened(sd, s, f, sized)
<1>1. /\ f.close \in Nat \ {0} /\ f.atr \in Nat /\ f.reward \in Int /\ f.mpp \in Nat
  BY FeedAssumption
<1>2. SizedTyped(sized) /\ sized.netLoss \in Nat
  BY <1>1, InputFields, SizedTypes DEF Found
<1>3. /\ sized.close = f.close /\ sized.reward = f.reward
      /\ sized.netLoss = NetLoss(sd, in, params)
      /\ sized.slDistance = StopFraction(f.atr, ParameterOf(params, "emergency_sl_mult"), f.close)
  BY InputFields DEF Sized, Found
<1>4. FloorHolds(sized.reward, sized.netLoss)
  BY <1>3, InputFields DEF SizePasses
<1>5. p \in Positions
  BY OpenedType
<1>6. /\ p.atr = f.atr /\ p.side = sd
      /\ p.why.close = f.close /\ p.why.reward = f.reward /\ p.why.netLoss = sized.netLoss
      /\ p.why.cap = SlippageCap(sized, f.mpp)
      /\ p.stop = EmergencyStop(sd, sized, p.entry)
  BY DEF Opened
<1>7. p.entry \in Nat
  BY <1>5 DEF Positions
<1>8. stopMult \in Nat /\ route \in Routes /\ stopMult = L2Multiple(route)
  BY DecisionAssumption DEF Inv, Typed, L2Multiple
<1>9. NetLoss(sd, in, params) >= StopFraction(f.atr, ParameterOf(params, "mae_mult"), f.close) + 2 * TakerBp
  <2>1. StopFraction(f.atr, ParameterOf(params, "mae_mult"), f.close) \in Nat
    BY <1>1, ParameterTypes, FractionType
  <2>2. QED
    BY <2>1, InputFields, DecisionAssumption DEF NetLoss
<1> HIDE DEF in, sized, params, p
<1>10. FloorHolds(p.why.reward - p.why.cap, p.why.netLoss)
  BY <1>1, <1>2, <1>3, <1>4, <1>6, CapLeavesFloor
<1>11. ASSUME route = "decision", p.entry >= p.why.close
       PROVE  StopFraction(p.atr, stopMult, p.entry) + 2 * TakerBp <= p.why.netLoss
  <2>1. ParameterOf(params, "mae_mult") = stopMult
    BY <1>11, DecisionMultiple DEF params
  <2>2. StopFraction(f.atr, stopMult, p.entry) <= StopFraction(f.atr, stopMult, f.close)
    BY <1>1, <1>6, <1>7, <1>8, <1>11, FractionFalls
  <2>3. /\ StopFraction(f.atr, stopMult, p.entry) \in Nat
        /\ StopFraction(f.atr, stopMult, f.close) \in Nat
    <3>1. p.entry \in Nat \ {0}
      BY <1>1, <1>6, <1>7, <1>11
    <3>2. QED
      BY <3>1, <1>1, <1>8, FractionType
  <2>4. QED
    BY <2>1, <2>2, <2>3, <1>2, <1>3, <1>6, <1>9, DecisionAssumption
<1>12. ASSUME StopsAreOrdered
       PROVE  IF p.side = "long" THEN p.stop <= p.entry - (p.atr * stopMult) \div 10
                                 ELSE p.stop >= p.entry + (p.atr * stopMult) \div 10
  <2> DEFINE wide == Registry["emergency_sl_mult"]
             distance == (sized.slDistance * sized.close) \div Bp
             l2 == (p.atr * stopMult) \div 10
  <2>1. ParameterOf(params, "emergency_sl_mult") = wide
    BY <1>12, UntunedIsSeed DEF StopsAreOrdered, params
  <2>2. wide \in Nat /\ f.atr * (wide - stopMult) * 1000 >= f.close
    BY <1>8, <1>12, DecisionAssumption DEF StopsAreOrdered
  <2>3. (StopFraction(f.atr, wide, f.close) * f.close) \div Bp >= (f.atr * stopMult) \div 10
    BY <2>2, <1>1, <1>8, WiderStop
  <2>4. distance >= l2
    BY <2>1, <2>3, <1>3, <1>6
  <2>5. distance \in Int /\ l2 \in Int
    <3>1. sized.slDistance * sized.close \in Int /\ Bp \in Nat \ {0}
      BY <1>2, SMT DEF SizedTyped, Bp
    <3>2. p.atr * stopMult \in Int
      BY <1>1, <1>6, <1>8
    <3>3. QED
      BY <3>1, <3>2, Quotient
  <2>6. p.stop = IF sd = "long" THEN p.entry - distance ELSE p.entry + distance
    BY <1>6 DEF EmergencyStop
  <2> HIDE DEF distance, l2
  <2>7. IF p.side = "long" THEN p.stop <= p.entry - l2 ELSE p.stop >= p.entry + l2
    BY <2>4, <2>5, <2>6, <1>6, <1>7
  <2>8. QED
    BY <2>7 DEF l2
<1>13. QED
  BY <1>10, <1>11, <1>12 DEF GatesKept, p, sized

-----------------------------------------------------------------------------
(* The invariant holds. *)

LEMMA InitInv == Init => Inv
<1> SUFFICES ASSUME Init PROVE Inv
  OBVIOUS
<1>1. Typed
  BY DecisionAssumption DEF Init, Typed, L2Multiple
<1>2. Written
  BY DEF Init, Written
<1>3. Timed /\ Filed /\ Kept
  BY DEF Init, Timed, Filed, Kept, Holds
<1>4. QED
  BY <1>1, <1>2, <1>3 DEF Inv

\* A wallet moves by whole dollars.
LEMMA MoneyTypes ==
    ASSUME NEW sd \in Sides, NEW usd \in Int
    PROVE  /\ EntryCash(sd, usd) \in Int /\ ExitCash(sd, usd) \in Int
<1>1. usd * TakerBp \in Int /\ usd * MarginOpenBp \in Int
  BY DecisionAssumption
<1>2. Bp \in Nat \ {0}
  BY SMT DEF Bp
<1>3. Taker(usd) \in Int /\ (usd * MarginOpenBp) \div Bp \in Int
  BY <1>1, <1>2, Quotient DEF Taker
<1>4. QED
  BY <1>3 DEF EntryCash, ExitCash, Fee

\* What a quantity is worth at a price is a number of dollars.
LEMMA ValueType ==
    ASSUME NEW qty \in Nat, NEW price \in Nat
    PROVE  ValueOf(qty, price) \in Int
BY SMT DEF ValueOf

\* A decision: the side was free, and what it opens keeps what the gates found.
LEMMA DecideKeepsInv ==
    ASSUME Inv, NEW e \in Enters, NEW f \in Feeds, NEW q, NEW blocks,
           Decide(e[1], e[2], f, q, blocks)
    PROVE  Inv'
<1> DEFINE sd == e[1]
           s == e[2]
           p == Opened(sd, s, f, Found(sd, s, f, q, blocks))
<1>1. sd \in Sides /\ s \in Symbols /\ e = <<sd, s>>
  BY DecisionAssumption
<1>2. Ready(f)
  BY DEF Decide, Candidate
<1>3. /\ SizePasses(sd, Inputs(sd, s, f, q, blocks), CycleParameters(sd))
      /\ ~sem[sd]
  BY AcceptedPasses, GuardPasses, InputFields DEF Decide
<1>4. p \in Positions /\ p # None /\ p.sym = s /\ p.side = sd /\ p.qty > 0
  BY <1>1, <1>2, OpenedType
<1>5. GatesKept(p)
  BY <1>1, <1>2, <1>3, OpenedKeepsGates
<1>6. /\ pos' = [pos EXCEPT ![s] = p]
      /\ cash' = [cash EXCEPT ![sd] = @ + EntryCash(sd, Notional(p))]
      /\ sem' = [sem EXCEPT ![sd] = TRUE]
      /\ entered' = entered + 1 /\ entered < MaxEntries
      /\ UNCHANGED <<route, stopMult, losses, sinceExit, owned, disallowed>>
  BY DEF Decide, Found
<1> HIDE DEF p
<1>7. Typed'
  <2>1. EntryCash(sd, Notional(p)) \in Int
    <3>1. ValueOf(p.qty, p.entry) \in Int
      BY <1>4, ValueType DEF Positions
    <3>2. QED
      BY <3>1, <1>1, MoneyTypes DEF Notional
  <2>2. entered' \in 0 .. MaxEntries
    BY <1>6, DecisionAssumption DEF Inv, Typed
  <2>3. QED
    BY <2>1, <2>2, <1>1, <1>4, <1>6 DEF Inv, Typed
<1>8. Written'
  BY <1>6 DEF Inv, Written
<1>9. Timed'
  BY <1>6 DEF Inv, Timed
<1>10. \A t \in Symbols : pos'[t] = IF t = s THEN p ELSE pos[t]
  BY <1>1, <1>6 DEF Inv, Typed
<1>11. pos[s] = None
  <2>1. ASSUME pos[s] # None PROVE FALSE
    <3>1. <<pos[s].side, s>> \in Enters
      BY <1>1, <2>1 DEF Inv, Filed
    <3>2. <<pos[s].side, s>> = e
      BY <3>1, <1>1, DecisionAssumption
    <3>3. Holds(sd, s)
      BY <3>2, <1>1, <2>1 DEF Holds
    <3>4. QED
      BY <3>3, <1>1, <1>3 DEF Inv, Filed
  <2>2. QED
    BY <2>1
<1>12. \A d \in Sides : \A t \in Symbols :
           Holds(d, t)' <=> (Holds(d, t) \/ (d = sd /\ t = s))
  BY <1>1, <1>4, <1>10, <1>11 DEF Holds
<1>13. Filed'
  <2>1. \A t \in Symbols : pos'[t] # None =>
            pos'[t].sym = t /\ pos'[t].qty > 0 /\ <<pos'[t].side, t>> \in Enters
    BY <1>1, <1>4, <1>10 DEF Inv, Filed
  <2>2. \A t \in Symbols : ~Holds(sd, t)
    BY <1>1, <1>3 DEF Inv, Filed
  <2>3. \A d \in Sides : \A t, u \in Symbols : Holds(d, t)' /\ Holds(d, u)' => t = u
    BY <2>2, <1>12 DEF Inv, Filed
  <2>4. \A d \in Sides : sem'[d] <=> \E t \in Symbols : Holds(d, t)'
    <3>1. \A d \in Sides : sem'[d] <=> (sem[d] \/ d = sd)
      BY <1>1, <1>6 DEF Inv, Typed
    <3>2. QED
      BY <3>1, <1>1, <1>12 DEF Inv, Filed
  <2>5. QED
    BY <2>1, <2>3, <2>4 DEF Filed
<1>14. Kept'
  BY <1>5, <1>6, <1>10 DEF Inv, Kept, GatesKept, StopsAreOrdered
<1>15. QED
  BY <1>7, <1>8, <1>9, <1>13, <1>14 DEF Inv

\* A close frees the side: it held nothing else.
LEMMA CloseKeepsInv ==
    ASSUME Inv, NEW s \in Symbols, NEW quote \in Quotes,
           NEW x \in {quote.bid, quote.ask}, Close(s, x)
    PROVE  Inv'
<1> DEFINE p == pos[s]
           sd == p.side
           isWin == NetPL(p, x) > 0
<1>1. p # None /\ p \in Positions /\ sd \in Sides /\ x \in Nat
  BY DecisionAssumption DEF Close, Inv, Typed, Positions
<1>2. /\ cash' = [cash EXCEPT ![sd] = @ + ExitCash(sd, ValueOf(p.qty, x))]
      /\ losses' = [losses EXCEPT ![sd][s] = IF isWin THEN 0 ELSE @ + 1]
      /\ sinceExit' = IF isWin THEN sinceExit ELSE [sinceExit EXCEPT ![sd][s] = 0]
      /\ sem' = [sem EXCEPT ![sd] = FALSE]
      /\ pos' = [pos EXCEPT ![s] = None]
      /\ UNCHANGED <<route, stopMult, owned, disallowed, entered>>
  BY DEF Close, CountLoss
<1> HIDE DEF isWin
<1>3. Typed' /\ Timed'
  <2>1. ExitCash(sd, ValueOf(p.qty, x)) \in Int
    <3>1. ValueOf(p.qty, x) \in Int
      BY <1>1, ValueType DEF Positions
    <3>2. QED
      BY <3>1, <1>1, MoneyTypes
  <2> HIDE DEF p, sd
  <2>2. cash' \in [Sides -> Int] /\ pos' \in [Symbols -> Positions \cup {None}]
        /\ sem' \in [Sides -> BOOLEAN]
    BY <2>1, <1>1, <1>2 DEF Inv, Typed
  <2>3. losses' \in [Sides -> [Symbols -> Nat]]
    BY <1>1, <1>2 DEF Inv, Typed
  <2>4. sinceExit' \in [Sides -> [Symbols -> Nat \cup {None}]]
    BY <1>1, <1>2 DEF Inv, Typed
  <2>5. Timed'
    <3> SUFFICES ASSUME NEW d \in Sides, NEW t \in Symbols, losses'[d][t] > 0
                 PROVE  sinceExit'[d][t] \in Nat
      BY DEF Timed
    <3>1. CASE d = sd /\ t = s
      BY <3>1, <1>1, <1>2 DEF Inv, Typed
    <3>2. CASE ~(d = sd /\ t = s)
      <4>1. losses'[d][t] = losses[d][t] /\ sinceExit'[d][t] = sinceExit[d][t]
        BY <3>2, <1>1, <1>2 DEF Inv, Typed
      <4>2. QED
        BY <4>1 DEF Inv, Timed
    <3>3. QED
      BY <3>1, <3>2
  <2>6. QED
    BY <2>2, <2>3, <2>4, <2>5, <1>2 DEF Inv, Typed
<1>4. Written'
  BY <1>2 DEF Inv, Written
<1>5. \A t \in Symbols : pos'[t] = IF t = s THEN None ELSE pos[t]
  BY <1>2 DEF Inv, Typed
<1>6. \A d \in Sides : \A t \in Symbols : Holds(d, t)' <=> (Holds(d, t) /\ t # s)
  BY <1>5 DEF Holds
<1>7. Holds(sd, s)
  BY <1>1 DEF Holds
<1>8. Filed'
  <2>1. \A t \in Symbols : pos'[t] # None =>
            pos'[t].sym = t /\ pos'[t].qty > 0 /\ <<pos'[t].side, t>> \in Enters
    BY <1>5 DEF Inv, Filed
  <2>2. \A d \in Sides : \A t, u \in Symbols : Holds(d, t)' /\ Holds(d, u)' => t = u
    BY <1>6 DEF Inv, Filed
  <2>3. \A d \in Sides : sem'[d] <=> (sem[d] /\ d # sd)
    BY <1>1, <1>2 DEF Inv, Typed
  <2>4. \A d \in Sides : d # sd => ~Holds(d, s)
    BY DEF Holds
  <2>5. \A d \in Sides : sem'[d] <=> \E t \in Symbols : Holds(d, t)'
    BY <2>3, <2>4, <1>1, <1>6, <1>7 DEF Inv, Filed
  <2>6. QED
    BY <2>1, <2>2, <2>5 DEF Filed
<1>9. Kept'
  BY <1>2, <1>5 DEF Inv, Kept, GatesKept, StopsAreOrdered
<1>10. QED
  BY <1>3, <1>4, <1>8, <1>9 DEF Inv

\* Time passes on the timers only.
LEMMA WaitKeepsInv == ASSUME Inv, Wait PROVE Inv'
<1>1. \A sd \in Sides, s \in Symbols :
          /\ sinceExit'[sd][s] \in Nat \cup {None}
          /\ sinceExit[sd][s] \in Nat => sinceExit'[sd][s] \in Nat
  <2> SUFFICES ASSUME NEW sd \in Sides, NEW s \in Symbols
               PROVE  /\ sinceExit'[sd][s] \in Nat \cup {None}
                      /\ sinceExit[sd][s] \in Nat => sinceExit'[sd][s] \in Nat
    OBVIOUS
  <2>1. sinceExit[sd][s] \in Nat \cup {None}
    BY DEF Inv, Typed
  <2>2. sinceExit'[sd][s] = IF sinceExit[sd][s] = None THEN None
            ELSE Smaller(Registry["sc_cooldown_seconds"], sinceExit[sd][s] + 1)
    BY DEF Wait
  <2>3. QED
    BY <2>1, <2>2, DecisionAssumption DEF Smaller
<1>2. sinceExit' \in [Sides -> [Symbols -> Nat \cup {None}]]
  BY <1>1 DEF Wait
<1>3. UNCHANGED <<route, stopMult, cash, pos, sem, losses, owned, disallowed, entered>>
  BY DEF Wait
<1>4. Typed' /\ Written'
  BY <1>2, <1>3 DEF Inv, Typed, Written
<1>5. Timed'
  BY <1>1, <1>3 DEF Inv, Timed
<1>6. Filed' /\ Kept'
  BY <1>3 DEF Inv, Filed, Holds, Kept, GatesKept, StopsAreOrdered
<1>7. QED
  BY <1>4, <1>5, <1>6 DEF Inv

\* A change of CIATS is in the store, and in nothing that is open.
LEMMA TuneKeepsInv ==
    ASSUME Inv, NEW t \in Tunings, Tune(t[1], t[2], t[3])
    PROVE  Inv'
<1>1. t[1] \in Sides /\ t = <<t[1], t[2], t[3]>>
  BY DecisionAssumption
<1>2. /\ owned' = [owned EXCEPT ![t[1]] = [n \in DOMAIN @ \cup {t[2]} |->
                                             IF n = t[2] THEN t[3] ELSE @[n]]]
      /\ UNCHANGED <<route, stopMult, cash, pos, sem, losses, sinceExit, disallowed, entered>>
  BY DEF Tune
<1>3. Written'
  <2>1. DOMAIN owned' = Sides
    BY <1>2 DEF Inv, Written
  <2>2. ASSUME NEW sd \in Sides, NEW n \in DOMAIN owned'[sd]
        PROVE  <<sd, n, owned'[sd][n]>> \in Tunings
    <3>1. CASE sd = t[1]
      BY <3>1, <2>2, <1>1, <1>2 DEF Inv, Written
    <3>2. CASE sd # t[1]
      BY <3>2, <2>2, <1>1, <1>2 DEF Inv, Written
    <3>3. QED
      BY <3>1, <3>2
  <2>3. QED
    BY <2>1, <2>2 DEF Written
<1>4. QED
  BY <1>2, <1>3 DEF Inv, Typed, Timed, Filed, Holds, Kept, GatesKept, StopsAreOrdered

LEMMA StepInv == Inv /\ [Next]_vars => Inv'
<1> SUFFICES ASSUME Inv, [Next]_vars PROVE Inv'
  OBVIOUS
<1>1. ASSUME NEW e \in Enters, NEW f \in Feeds,
             NEW q \in Marks(e[1]), NEW blocks \in HeldFor(e[1]),
             Decide(e[1], e[2], f, q, blocks)
      PROVE  Inv'
  BY <1>1, DecideKeepsInv
<1>2. ASSUME NEW s \in Symbols, NEW q \in Quotes, NEW x \in {q.bid, q.ask}, Close(s, x)
      PROVE  Inv'
  BY <1>2, CloseKeepsInv
<1>3. CASE Wait
  BY <1>3, WaitKeepsInv
<1>4. ASSUME NEW t \in Tunings, Tune(t[1], t[2], t[3])
      PROVE  Inv'
  BY <1>4, TuneKeepsInv
<1>5. ASSUME NEW d \in Disallowances, Disallow(d[1], d[2])
      PROVE  Inv'
  BY <1>5 DEF Disallow, Inv, Typed, Written, Timed, Filed, Holds, Kept, GatesKept,
              StopsAreOrdered
<1>6. CASE UNCHANGED vars
  BY <1>6 DEF vars, Inv, Typed, Written, Timed, Filed, Holds, Kept, GatesKept,
              StopsAreOrdered
<1>7. QED
  BY <1>1, <1>2, <1>3, <1>4, <1>5, <1>6 DEF Next

\* Every position carries what the gates of its decision found (sweep.py,
\* live_driver.py): whatever the registry, the feeds and what CIATS writes.
THEOREM DecisionInv == Spec => []Inv
BY InitInv, StepInv, PTL DEF Spec

\* The worst fill the order allows leaves the reward one and a half times the
\* loss, and CIATS cannot move the loss of a decided position past what gate:G8
\* accepted (TB00790): for every tuning, also of the emergency multiple.
THEOREM FloorAndBasisHold == Spec => [](TypeOK /\ FloorSurvivesSlippage /\ OneRBasis)
<1>1. Inv => TypeOK /\ FloorSurvivesSlippage /\ OneRBasis
  BY InvGivesTypes, InvGivesGates
<1>2. QED
  BY <1>1, DecisionInv, PTL

\* The order keeps its gates, the resting stop beyond layer:L2 included, where
\* the emergency multiple is the registry's and the wider one (execute_entry).
THEOREM OrdersKeepTheirGates ==
    ASSUME StopsAreOrdered
    PROVE  Spec => []OrderKeepsTheGates
<1>1. StopsAreOrdered
  OBVIOUS
<1>2. Inv => OrderKeepsTheGates
  BY <1>1, InvGivesTypes, InvGivesGates, InvGivesStops DEF OrderKeepsTheGates
<1>3. QED
  BY <1>2, DecisionInv, PTL

-----------------------------------------------------------------------------
(* The bars. *)

\* The pause and the losing streak's limit are the registry's.
BarsUntuned == Untuned("session_pause_drawdown_pct") /\ Untuned("sc_consecutive_limit")

\* A wallet before its pause drawdown.
AbovePause(usd) == (Start - usd) * Bp < Registry["session_pause_drawdown_pct"] * Start

\* An open position was decided above the pause and below the streak's limit.
Allowed ==
    /\ \A s \in Symbols : pos[s] # None =>
           /\ AbovePause(WalletBefore(pos[s]))
           /\ losses[pos[s].side][s] < Registry["sc_consecutive_limit"]
    /\ \A sd \in Sides, s \in Symbols :
           losses[sd][s] <= Registry["sc_consecutive_limit"]

\* A free wallet is worth its cash, so what gate:G7 passes is above the pause.
LEMMA PassedIsAbovePause ==
    ASSUME Inv, BarsUntuned, NEW sd \in Sides, NEW s, NEW f, NEW q, NEW blocks,
           Held(sd) = {},
           RiskGuard(Inputs(sd, s, f, q, blocks), CycleParameters(sd)) = "PASS"
    PROVE  AbovePause(cash[sd])
<1> DEFINE in == Inputs(sd, s, f, q, blocks)
           params == CycleParameters(sd)
           pause == Registry["session_pause_drawdown_pct"]
           lost == (Start - cash[sd]) * Bp
<1>1. ParameterOf(params, "session_pause_drawdown_pct") = pause
  BY UntunedIsSeed DEF BarsUntuned
<1>2. cash[sd] \in Int /\ Start \in Nat \ {0} /\ pause \in Int /\ Bp \in Int
  BY DecisionAssumption, SMT DEF Inv, Typed, Bp
<1>3. Portfolio(sd, s, f, q, blocks) = cash[sd]
  BY <1>2 DEF Portfolio
<1>4. Drawdown(in) = lost \div Start
  BY <1>3, InputFields DEF Drawdown
<1>5. ~(Drawdown(in) >= pause)
  BY <1>1, GuardPasses
<1>6. lost \in Int
  BY <1>2
<1>7. AbovePause(cash[sd]) <=> lost < pause * Start
  BY DEF AbovePause
<1> HIDE DEF in, params, pause, lost
<1>8. lost >= pause * Start => lost \div Start >= pause
  BY <1>2, <1>6, AtLeast
<1>9. pause * Start \in Int
  BY <1>2
<1>10. QED
  BY <1>4, <1>5, <1>6, <1>7, <1>8, <1>9

\* At the limit of its streak gate:G5 refuses the side on the symbol.
LEMMA PassedIsBelowLimit ==
    ASSUME Inv, BarsUntuned, NEW sd \in Sides, NEW s \in Symbols, NEW f, NEW q, NEW blocks,
           SelectionPasses(Inputs(sd, s, f, q, blocks), CycleParameters(sd))
    PROVE  losses[sd][s] < Registry["sc_consecutive_limit"]
<1>1. ParameterOf(CycleParameters(sd), "sc_consecutive_limit") = Registry["sc_consecutive_limit"]
  BY UntunedIsSeed DEF BarsUntuned
<1>2. losses[sd][s] \in Nat /\ Registry["sc_consecutive_limit"] \in Nat
  BY DecisionAssumption DEF Inv, Typed
<1>3. QED
  BY <1>1, <1>2, InputFields DEF SelectionPasses

\* What a decision takes from the wallet, given back, is what the wallet held.
LEMMA DecideIsAllowed ==
    ASSUME Inv, Inv', BarsUntuned, Allowed, NEW e \in Enters, NEW f \in Feeds,
           NEW q, NEW blocks, Decide(e[1], e[2], f, q, blocks)
    PROVE  Allowed'
<1> DEFINE sd == e[1]
           s == e[2]
           p == Opened(sd, s, f, Found(sd, s, f, q, blocks))
<1>1. sd \in Sides /\ s \in Symbols
  BY DecisionAssumption
<1>2. /\ pos' = [pos EXCEPT ![s] = p] /\ losses' = losses
      /\ cash' = [cash EXCEPT ![sd] = @ + EntryCash(sd, Notional(p))]
  BY DEF Decide, Found
<1>3. /\ RiskGuard(Inputs(sd, s, f, q, blocks), CycleParameters(sd)) = "PASS"
      /\ SelectionPasses(Inputs(sd, s, f, q, blocks), CycleParameters(sd))
  BY AcceptedPasses DEF Decide
<1>4. ~sem[sd]
  BY <1>3, GuardPasses, InputFields
<1>5. \A t \in Symbols : ~Holds(sd, t)
  BY <1>1, <1>4 DEF Inv, Filed
<1>6. Held(sd) = {}
  BY <1>5 DEF Held, Holds
<1>7. AbovePause(cash[sd]) /\ losses[sd][s] < Registry["sc_consecutive_limit"]
  BY <1>1, <1>3, <1>6, PassedIsAbovePause, PassedIsBelowLimit
<1>8. p \in Positions /\ p # None /\ p.side = sd
  <2>1. Ready(f)
    BY DEF Decide, Candidate
  <2>2. QED
    BY <1>1, <2>1, OpenedType
<1> HIDE DEF p
<1>9. EntryCash(sd, Notional(p)) \in Int
  <2>1. ValueOf(p.qty, p.entry) \in Int
    BY <1>8, ValueType DEF Positions
  <2>2. QED
    BY <2>1, <1>1, MoneyTypes DEF Notional
<1>10. \A d \in Sides : cash[d] \in Int
  BY DEF Inv, Typed
<1>11. ASSUME NEW t \in Symbols, pos'[t] # None
       PROVE  /\ AbovePause(WalletBefore(pos[t])')
              /\ losses'[pos'[t].side][t] < Registry["sc_consecutive_limit"]
  <2>1. CASE t = s
    <3>1. pos'[t] = p
      BY <2>1, <1>1, <1>2 DEF Inv, Typed
    <3>2. cash'[sd] = cash[sd] + EntryCash(sd, Notional(p))
      BY <1>1, <1>2 DEF Inv, Typed
    <3>3. WalletBefore(pos[t])' = cash[sd]
      BY <3>1, <3>2, <1>1, <1>8, <1>9, <1>10 DEF WalletBefore, EntryCash, Fee, Taker, Notional
    <3>4. QED
      BY <3>1, <3>3, <1>2, <1>7, <1>8, <2>1
  <2>2. CASE t # s
    <3>1. pos'[t] = pos[t]
      BY <2>2, <1>1, <1>2 DEF Inv, Typed
    <3>2. pos[t].side \in Sides /\ pos[t].side # sd
      BY <3>1, <1>5, <1>11 DEF Holds, Inv, Typed, Positions
    <3>3. cash'[pos[t].side] = cash[pos[t].side]
      BY <3>2, <1>1, <1>2 DEF Inv, Typed
    <3>4. WalletBefore(pos[t])' = WalletBefore(pos[t])
      BY <3>1, <3>3 DEF WalletBefore, EntryCash, Fee, Taker, Notional
    <3>5. QED
      BY <3>1, <3>4, <1>2, <1>11 DEF Allowed
  <2>3. QED
    BY <2>1, <2>2
<1>12. QED
  BY <1>2, <1>11 DEF Allowed, AbovePause

\* The other side's wallet stays, and a streak grows by the loss of a position
\* that was opened below the limit.
LEMMA CloseIsAllowed ==
    ASSUME Inv, Allowed, NEW s \in Symbols, NEW x, Close(s, x)
    PROVE  Allowed'
<1> DEFINE d == pos[s].side
           isWin == NetPL(pos[s], x) > 0
<1>1. d \in Sides /\ pos[s] # None
  BY DEF Close, Inv, Typed, Positions
<1>2. /\ pos' = [pos EXCEPT ![s] = None]
      /\ cash' = [cash EXCEPT ![d] = @ + ExitCash(d, ValueOf(pos[s].qty, x))]
      /\ losses' = [losses EXCEPT ![d][s] = IF isWin THEN 0 ELSE @ + 1]
  BY DEF Close, CountLoss
<1> HIDE DEF isWin
<1>3. Holds(d, s)
  BY <1>1 DEF Holds
<1>4. Registry["sc_consecutive_limit"] \in Nat
  BY DecisionAssumption
<1>5. \A sd \in Sides, t \in Symbols : losses'[sd][t] <= Registry["sc_consecutive_limit"]
  <2> SUFFICES ASSUME NEW sd \in Sides, NEW t \in Symbols
               PROVE  losses'[sd][t] <= Registry["sc_consecutive_limit"]
    OBVIOUS
  <2>1. losses[d][s] \in Nat /\ losses[d][s] < Registry["sc_consecutive_limit"]
    BY <1>1 DEF Allowed, Inv, Typed
  <2>2. losses'[sd][t] = IF sd = d /\ t = s THEN IF isWin THEN 0 ELSE losses[d][s] + 1
                                            ELSE losses[sd][t]
    BY <1>1, <1>2 DEF Inv, Typed
  <2>3. QED
    BY <2>1, <2>2, <1>4 DEF Allowed
<1>6. ASSUME NEW t \in Symbols, pos'[t] # None
      PROVE  /\ AbovePause(WalletBefore(pos[t])')
             /\ losses'[pos'[t].side][t] < Registry["sc_consecutive_limit"]
  <2>1. t # s /\ pos'[t] = pos[t]
    BY <1>2, <1>6 DEF Inv, Typed
  <2>2. pos[t].side \in Sides /\ pos[t].side # d
    BY <1>1, <1>3, <1>6, <2>1 DEF Holds, Inv, Typed, Filed, Positions
  <2>3. cash'[pos[t].side] = cash[pos[t].side] /\ losses'[pos[t].side][t] = losses[pos[t].side][t]
    BY <2>2, <1>1, <1>2 DEF Inv, Typed
  <2>4. WalletBefore(pos[t])' = WalletBefore(pos[t])
    BY <2>1, <2>3 DEF WalletBefore, EntryCash, Fee, Taker, Notional
  <2>5. QED
    BY <1>6, <2>1, <2>3, <2>4 DEF Allowed
<1>7. QED
  BY <1>5, <1>6 DEF Allowed, AbovePause

\* Losses stop what keeps losing: from the pause drawdown on a wallet opens
\* nothing, and a side's streak on a symbol ends at the limit (risk_guard.py,
\* selection.py), for any feeds, quotes and other tunings.
THEOREM LossesAreStopped ==
    ASSUME BarsUntuned
    PROVE  Spec => []LossesStopTheSide
<1>1. BarsUntuned
  OBVIOUS
<1>2. Init => Allowed
  BY DecisionAssumption DEF Init, Allowed
<1>3. ASSUME Inv, Inv', Allowed, [Next]_vars PROVE Allowed'
  <2>1. ASSUME UNCHANGED <<cash, pos, losses>> PROVE Allowed'
    BY <1>3, <2>1 DEF Allowed, AbovePause, WalletBefore, EntryCash, Fee, Taker, Notional
  <2>2. QED
    BY <1>1, <1>3, <2>1, DecideIsAllowed, CloseIsAllowed DEF Next, Wait, Tune, Disallow, vars
<1>4. Inv /\ Allowed => LossesStopTheSide
  BY DEF Inv, Typed, Allowed, AbovePause, LossesStopTheSide, Open
<1>5. QED
  BY <1>2, <1>3, <1>4, DecisionInv, PTL DEF Spec
=============================================================================
