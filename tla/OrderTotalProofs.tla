----------------------------- MODULE OrderTotalProofs -----------------------------
(***************************************************************************)
(* What the order total promises, proved for every currency, every price   *)
(* and every cart.                                                         *)
(***************************************************************************)
EXTENDS OrderPage, TLAPS

Amounts == [cur : {Currency}, units : Int, nanos : Int]

\* The quotient and the remainder of a number below twice the modulus.
LEMMA SmallQuotient ==
  ASSUME NEW k \in Nat, k < 2 * NanosMod
  PROVE  /\ k < NanosMod => Quotient(k) = 0 /\ Remainder(k) = k
         /\ k >= NanosMod => Quotient(k) = 1 /\ Remainder(k) = k - NanosMod
<1>1. CASE k < NanosMod
  <2>1. k \div NanosMod = 0
    BY <1>1, MoneyAssumption
  <2>. QED  BY <1>1, <2>1, MoneyAssumption DEF Quotient, Remainder
<1>2. CASE k >= NanosMod
  <2>1. k \div NanosMod = 1
    BY <1>2, MoneyAssumption
  <2>. QED  BY <1>2, <2>1, MoneyAssumption DEF Quotient, Remainder
<1>. QED
  BY <1>1, <1>2, MoneyAssumption

LEMMA QuotientType == ASSUME NEW k \in Int PROVE Quotient(k) \in Int
  BY MoneyAssumption DEF Quotient

\* Sum keeps the worth of what it adds, valid or not.
LEMMA SumIsExact ==
  ASSUME NEW l \in Amounts, NEW r \in Amounts
  PROVE  Sum(l, r) \in Amounts /\ Worth(Sum(l, r)) = Worth(l) + Worth(r)
<1>. DEFINE units == l.units + r.units
            nanos == l.nanos + r.nanos
            q == Quotient(nanos)
<1>1. units \in Int /\ nanos \in Int /\ q \in Int /\ NanosMod \in Int
  BY QuotientType, MoneyAssumption DEF Amounts
<1>2. Worth(l) + Worth(r) = units * NanosMod + nanos
  BY <1>1 DEF Worth, Amounts
<1>3. (units + q) * NanosMod + (nanos - q * NanosMod) = units * NanosMod + nanos
  BY <1>1
<1>4. (units - 1) * NanosMod + (nanos + NanosMod) = units * NanosMod + nanos
  BY <1>1
<1>5. (units + 1) * NanosMod + (nanos - NanosMod) = units * NanosMod + nanos
  BY <1>1
<1>. QED
  BY <1>1, <1>2, <1>3, <1>4, <1>5 DEF Sum, Worth, Amount, Remainder, Amounts

--------------------------------------------------------------------------------

(***************************************************************************)
(* Types.  Amounts that start out non-negative only get mixed signs with   *)
(* a whole unit in front, and Sum refuses those.                           *)
(***************************************************************************)
Typed == [cur : {Currency}, units : Nat, nanos : (1 - NanosMod)..(NanosMod - 1)]

Reached == {m \in Typed : m.nanos < 0 => m.units >= 1}

LEMMA SumReached ==
  ASSUME NEW l \in Reached, NEW r \in Reached, ~SumFails(l, r)
  PROVE  Sum(l, r) \in Reached
<1>. DEFINE units == l.units + r.units
            nanos == l.nanos + r.nanos
<1>1. /\ l.nanos \in Nat /\ r.nanos \in Nat
      /\ l.nanos < NanosMod /\ r.nanos < NanosMod
      /\ l.units \in Nat /\ r.units \in Nat
  BY MoneyAssumption
  DEF Reached, Typed, SumFails, IsValid, SignMatches, ValidNanos
<1>2. units \in Nat /\ nanos \in Nat /\ nanos < 2 * NanosMod
  BY <1>1, MoneyAssumption
<1>. HIDE DEF units, nanos
<1>3. /\ nanos < NanosMod => Quotient(nanos) = 0 /\ Remainder(nanos) = nanos
      /\ nanos >= NanosMod => /\ Quotient(nanos) = 1
                              /\ Remainder(nanos) = nanos - NanosMod
  BY <1>2, SmallQuotient
<1>4. CASE SameSign(units, nanos)
  <2>1. Sum(l, r) = Amount(l.cur, units + Quotient(nanos), Remainder(nanos))
    BY <1>4 DEF Sum, units, nanos
  <2>. QED
    BY <1>2, <1>3, <2>1, MoneyAssumption DEF Amount, Reached, Typed
<1>5. CASE ~SameSign(units, nanos)
  <2>1. units = 0
    BY <1>2, <1>5 DEF SameSign
  <2>2. Sum(l, r) = Amount(l.cur, units + 1, nanos - NanosMod)
    BY <1>5, <2>1, <1>2 DEF Sum, units, nanos
  <2>3. nanos >= 1
    BY <1>2, <1>5, <2>1 DEF SameSign
  <2>. QED
    BY <1>2, <2>1, <2>2, <2>3, MoneyAssumption DEF Amount, Reached, Typed
<1>. QED
  BY <1>4, <1>5

LEMMA CostReached ==
  ASSUME NEW c \in Costs \cup Shippings
  PROVE  /\ c \in Reached /\ ~SumFails(Zero, c) /\ Worth(c) \in Nat
  BY TotalAssumption, MoneyAssumption
  DEF Reached, Typed, SumFails, IsValid, SignMatches, ValidNanos, Zero, Amount,
      Worth

LEMMA ZeroReached == Zero \in Reached /\ Worth(Zero) = 0
  BY MoneyAssumption DEF Zero, Amount, Reached, Typed, Worth

TypeInv ==
    /\ TotalTypeOK
    /\ total \in Reached /\ cost \in Reached /\ out \in Reached
    /\ Worth(cost) \in Nat
    /\ phase = "shipping" => total = Zero

LEMMA TypeInvInit == TotalInit => TypeInv
<1>. SUFFICES ASSUME TotalInit PROVE TypeInv
  OBVIOUS
<1>1. small \in BOOLEAN /\ none \in BOOLEAN
  BY DEF TotalInit
<1>. QED
  BY <1>1, ZeroReached, TotalAssumption
  DEF TotalInit, TypeInv, TotalTypeOK, Reached, Typed

LEMMA TypeInvNext == TypeInv /\ [TotalNext]_totalVars => TypeInv'
<1>. SUFFICES ASSUME TypeInv, [TotalNext]_totalVars PROVE TypeInv'
  OBVIOUS
<1>. USE DEF TypeInv, TotalTypeOK
<1>0. ASSUME NEW m \in Reached PROVE m \in Typed
  BY DEF Reached
<1>1. CASE AddShipping
  <2>1. PICK c \in Shippings : /\ total' = Sum(total, c) /\ owed' = owed + Worth(c)
                              /\ small' = ~AtLeastOne(c)
    BY <1>1 DEF AddShipping
  <2>2. total' \in Reached
    BY <1>1, <2>1, CostReached, SumReached DEF AddShipping
  <2>. QED
    BY <1>0, <1>1, <2>1, <2>2, CostReached DEF AddShipping, Typed
<1>2. CASE NextLine
  <2>1. PICK c \in Costs, q \in Quantities :
           /\ cost' = c /\ out' = c /\ n' = q
           /\ owed' = owed + q * Worth(c)
           /\ small' = (small \/ ~AtLeastHalf(c)) /\ none' = (none \/ q = 0)
    BY <1>2 DEF NextLine
  <2>2. q \in Nat /\ q * Worth(c) \in Nat /\ c \in Reached /\ Worth(c) \in Nat
    BY CostReached, TotalAssumption
  <2>. QED
    BY <1>0, <1>2, <2>1, <2>2, TotalAssumption DEF NextLine, Typed
<1>3. CASE Again
  <2>1. out' \in Reached
    BY <1>3, SumReached DEF Again
  <2>. QED
    BY <1>0, <1>3, <2>1 DEF Again, Typed
<1>4. CASE AddLine
  <2>1. total' \in Reached
    BY <1>4, SumReached DEF AddLine
  <2>. QED
    BY <1>0, <1>4, <2>1 DEF AddLine, Typed
<1>5. CASE Panic
  BY <1>5 DEF Panic
<1>6. CASE ToCharge
  BY <1>6 DEF ToCharge
<1>7. CASE UNCHANGED totalVars
  BY <1>7 DEF totalVars
<1>. QED
  BY <1>1, <1>2, <1>3, <1>4, <1>5, <1>6, <1>7 DEF TotalNext

(***************************************************************************)
(* Every variable keeps its type; the nanos stay in range on every path.   *)
(***************************************************************************)
THEOREM TotalTypeCorrect == TotalSpec => []TotalTypeOK
<1>1. TypeInv => TotalTypeOK
  BY DEF TypeInv
<1>. QED
  BY <1>1, TypeInvInit, TypeInvNext, PTL DEF TotalSpec

--------------------------------------------------------------------------------

(***************************************************************************)
(* What is in the total, plus what MultiplySlow has and still has to add,  *)
(* is what the order is worth, if no line has quantity zero.               *)
(***************************************************************************)
ExactInv == ~none =>
    /\ phase \in {"shipping", "lines", "charge"} => Worth(total) = owed
    /\ phase = "multiply" =>
          n >= 1 /\ Worth(total) + Worth(out) + (n - 1) * Worth(cost) = owed

LEMMA ReachedAmounts == Reached \subseteq Amounts
  BY MoneyAssumption DEF Reached, Typed, Amounts

LEMMA WorthType == ASSUME NEW m \in Reached PROVE Worth(m) \in Int
  BY MoneyAssumption DEF Reached, Typed, Worth

LEMMA ExactNext ==
  ASSUME TypeInv, ExactInv, [TotalNext]_totalVars
  PROVE  ExactInv'
<1>. SUFFICES ASSUME ~none' PROVE ExactInv'
  BY DEF ExactInv
<1>. ~none
  BY DEF TotalNext, AddShipping, NextLine, Again, AddLine, Panic, ToCharge, totalVars
<1>. USE DEF ExactInv
<1>0. /\ n \in Nat /\ owed \in Nat
      /\ total \in Reached /\ cost \in Reached /\ out \in Reached
      /\ Worth(total) \in Int /\ Worth(cost) \in Int /\ Worth(out) \in Int
  BY WorthType DEF TypeInv, TotalTypeOK
<1>1. CASE AddShipping
  <2>1. PICK c \in Shippings : total' = Sum(total, c) /\ owed' = owed + Worth(c)
    BY <1>1 DEF AddShipping
  <2>2. Worth(total') = Worth(total) + Worth(c)
    BY <1>0, <2>1, CostReached, SumIsExact, ReachedAmounts
  <2>. QED
    BY <1>1, <2>1, <2>2 DEF AddShipping, Worth
<1>2. CASE NextLine
  <2>1. PICK c \in Costs, q \in Quantities :
           /\ cost' = c /\ out' = c /\ n' = q
           /\ owed' = owed + q * Worth(c)
           /\ q # 0
    BY <1>2 DEF NextLine
  <2>2. q \in Nat /\ q >= 1 /\ Worth(c) \in Int
    BY <2>1, CostReached, TotalAssumption
  <2>3. Worth(c) + (q - 1) * Worth(c) = q * Worth(c)
    BY <2>2
  <2>4. Worth(total') = Worth(total) /\ Worth(out') = Worth(c) /\ Worth(cost') = Worth(c)
    BY <1>2, <2>1 DEF NextLine, Worth
  <2>. QED
    BY <1>0, <1>2, <2>1, <2>2, <2>3, <2>4 DEF NextLine, Worth
<1>3. CASE Again
  <2>1. out' = Sum(out, cost) /\ n' = n - 1 /\ total' = total /\ cost' = cost
    BY <1>3 DEF Again
  <2>2. Worth(Sum(out, cost)) = Worth(out) + Worth(cost)
    BY <1>0, SumIsExact, ReachedAmounts
  <2>3. Worth(cost) + (n - 1 - 1) * Worth(cost) = (n - 1) * Worth(cost)
    BY <1>0
  <2>4. (n - 1 - 1) * Worth(cost) \in Int /\ (n - 1) * Worth(cost) \in Int
    BY <1>0
  <2>5. /\ Worth(total') = Worth(total) /\ Worth(cost') = Worth(cost)
        /\ Worth(out') = Worth(out) + Worth(cost)
    BY <2>1, <2>2 DEF Worth
  <2>6. Worth(total') + Worth(out') + (n' - 1) * Worth(cost') = owed
    BY <1>0, <1>3, <2>1, <2>3, <2>4, <2>5 DEF Again
  <2>. QED
    BY <1>0, <1>3, <2>6 DEF Again, Worth
<1>4. CASE AddLine
  <2>1. total' = Sum(total, out) /\ n = 1
    BY <1>0, <1>4 DEF AddLine
  <2>2. Worth(Sum(total, out)) = Worth(total) + Worth(out)
    BY <1>0, SumIsExact, ReachedAmounts
  <2>3. (n - 1) * Worth(cost) = 0
    BY <1>0, <2>1
  <2>. QED
    BY <1>0, <1>4, <2>1, <2>2, <2>3 DEF AddLine, Worth
<1>5. CASE Panic
  BY <1>5 DEF Panic
<1>6. CASE ToCharge
  BY <1>6 DEF ToCharge, Worth
<1>7. CASE UNCHANGED totalVars
  BY <1>7 DEF totalVars, Worth
<1>. QED
  BY <1>1, <1>2, <1>3, <1>4, <1>5, <1>6, <1>7 DEF TotalNext

(***************************************************************************)
(* The card is charged what the order is worth, to the nano, unless a line *)
(* has quantity zero.                                                      *)
(***************************************************************************)
THEOREM ChargeIsExactHolds == TotalSpec => []ChargeIsExact
<1>1. TotalInit => ExactInv
  BY ZeroReached DEF TotalInit, ExactInv
<1>2. TypeInv /\ ExactInv /\ [TotalNext]_totalVars => ExactInv'
  BY ExactNext
<1>3. ExactInv => ChargeIsExact
  BY DEF ExactInv, ChargeIsExact
<1>. QED
  BY <1>1, <1>2, <1>3, TypeInvInit, TypeInvNext, PTL DEF TotalSpec

--------------------------------------------------------------------------------

(***************************************************************************)
(* An amount of a whole unit or more, and one that reaches a whole unit    *)
(* when it is added to itself.                                             *)
(***************************************************************************)
Whole(m) == m \in Reached /\ m.nanos >= 0 /\ m.units >= 1

HalfUnit(m) == m \in Reached /\ m.nanos >= 0 /\ AtLeastHalf(m)

LEMMA WholeIsHalfUnit ==
  ASSUME NEW m, Whole(m)
  PROVE  HalfUnit(m) /\ IsValid(m)
  BY MoneyAssumption
  DEF Whole, HalfUnit, AtLeastHalf, IsValid, SignMatches, ValidNanos, Reached,
      Typed

LEMMA SumWhole ==
  ASSUME NEW l, NEW r, HalfUnit(l), HalfUnit(r)
  PROVE  ~SumFails(l, r) /\ Whole(Sum(l, r))
<1>. DEFINE units == l.units + r.units
            nanos == l.nanos + r.nanos
<1>1. /\ l.nanos \in Nat /\ r.nanos \in Nat
      /\ l.nanos < NanosMod /\ r.nanos < NanosMod
      /\ l.units \in Nat /\ r.units \in Nat /\ l.cur = r.cur
  BY MoneyAssumption DEF HalfUnit, Reached, Typed
<1>2. ~SumFails(l, r)
  BY <1>1, MoneyAssumption DEF SumFails, IsValid, SignMatches, ValidNanos
<1>3. Sum(l, r) \in Reached
  BY <1>2, SumReached DEF HalfUnit
<1>4. units \in Nat /\ nanos \in Nat /\ nanos < 2 * NanosMod
  BY <1>1, MoneyAssumption
<1>5. units = 0 => nanos >= NanosMod
  BY <1>1, MoneyAssumption DEF HalfUnit, AtLeastHalf
<1>. HIDE DEF units, nanos
<1>6. /\ nanos < NanosMod => Quotient(nanos) = 0 /\ Remainder(nanos) = nanos
      /\ nanos >= NanosMod => /\ Quotient(nanos) = 1
                              /\ Remainder(nanos) = nanos - NanosMod
  BY <1>4, SmallQuotient
<1>7. CASE SameSign(units, nanos)
  <2>1. Sum(l, r) = Amount(l.cur, units + Quotient(nanos), Remainder(nanos))
    BY <1>7 DEF Sum, units, nanos
  <2>2. units >= 1
    BY <1>4, <1>5, <1>7, MoneyAssumption DEF SameSign
  <2>. QED
    BY <1>2, <1>3, <1>4, <1>6, <2>1, <2>2, MoneyAssumption DEF Amount, Whole
<1>8. CASE ~SameSign(units, nanos)
  <2>1. units = 0
    BY <1>4, <1>8 DEF SameSign
  <2>2. Sum(l, r) = Amount(l.cur, units + 1, nanos - NanosMod)
    BY <1>8, <2>1, <1>4 DEF Sum, units, nanos
  <2>. QED
    BY <1>2, <1>3, <1>4, <1>5, <2>1, <2>2, MoneyAssumption DEF Amount, Whole
<1>. QED
  BY <1>7, <1>8

LEMMA ZeroPlusWhole ==
  ASSUME NEW c \in Shippings, Whole(c)
  PROVE  Whole(Sum(Zero, c))
<1>1. Sum(Zero, c) \in Reached
  BY ZeroReached, CostReached, SumReached
<1>2. Quotient(c.nanos) = 0 /\ Remainder(c.nanos) = c.nanos
  BY SmallQuotient, MoneyAssumption DEF Whole, Reached, Typed
<1>3. Sum(Zero, c) = Amount(Currency, c.units, c.nanos)
  BY <1>2, MoneyAssumption
  DEF Sum, Zero, Amount, SameSign, Whole, Reached, Typed
<1>. QED
  BY <1>1, <1>3 DEF Whole, Amount

(***************************************************************************)
(* Once the shipping cost is in, the total is whole, and so is what        *)
(* MultiplySlow has after its first addition, if no small amount came in.  *)
(***************************************************************************)
WholeInv == ~small =>
    /\ phase # "panic"
    /\ phase # "shipping" => Whole(total)
    /\ phase = "multiply" => HalfUnit(out) /\ HalfUnit(cost)

LEMMA AtLeast ==
  /\ \A c \in Shippings : AtLeastOne(c) => Whole(c)
  /\ \A c \in Costs : AtLeastHalf(c) => HalfUnit(c)
  BY CostReached, TotalAssumption, MoneyAssumption
  DEF AtLeastOne, Whole, HalfUnit

LEMMA WholeNext ==
  ASSUME TypeInv, WholeInv, [TotalNext]_totalVars
  PROVE  WholeInv'
<1>. SUFFICES ASSUME ~small' PROVE WholeInv'
  BY DEF WholeInv
<1>. USE DEF WholeInv
<1>1. CASE AddShipping
  <2>1. PICK c \in Shippings : total' = Sum(total, c) /\ AtLeastOne(c)
    BY <1>1 DEF AddShipping
  <2>2. Whole(total')
    BY <1>1, <2>1, AtLeast, ZeroPlusWhole DEF AddShipping, TypeInv
  <2>. QED
    BY <1>1, <2>2 DEF AddShipping
<1>2. CASE NextLine
  <2>1. PICK c \in Costs : cost' = c /\ out' = c /\ AtLeastHalf(c) /\ ~small
    BY <1>2 DEF NextLine
  <2>. QED
    BY <1>2, <2>1, AtLeast DEF NextLine
<1>3. CASE Again
  BY <1>3, SumWhole, WholeIsHalfUnit DEF Again
<1>4. CASE AddLine
  BY <1>4, SumWhole, WholeIsHalfUnit DEF AddLine
<1>5. CASE Panic
  BY <1>5, SumWhole, WholeIsHalfUnit DEF Panic
<1>6. CASE ToCharge
  BY <1>6 DEF ToCharge
<1>7. CASE UNCHANGED totalVars
  BY <1>7 DEF totalVars
<1>. QED
  BY <1>1, <1>2, <1>3, <1>4, <1>5, <1>6, <1>7 DEF TotalNext

LEMMA WholeInvariant == TotalSpec => []WholeInv
<1>1. TotalInit => WholeInv
  BY DEF TotalInit, WholeInv
<1>2. TypeInv /\ WholeInv /\ [TotalNext]_totalVars => WholeInv'
  BY WholeNext
<1>. QED
  BY <1>1, <1>2, TypeInvInit, TypeInvNext, PTL DEF TotalSpec

(***************************************************************************)
(* If shipping costs a unit or more and no price is below half a unit, no  *)
(* order panics the process.                                               *)
(***************************************************************************)
THEOREM PanicsOnlyOverSmallAmountsHolds ==
  TotalSpec => []PanicsOnlyOverSmallAmounts
<1>1. TypeInv /\ WholeInv => PanicsOnlyOverSmallAmounts
  BY DEF WholeInv, PanicsOnlyOverSmallAmounts, TypeInv, TotalTypeOK
<1>. QED
  BY <1>1, WholeInvariant, TypeInvInit, TypeInvNext, PTL DEF TotalSpec

\* Without such small amounts payment is only asked for valid amounts.
THEOREM ChargeIsValidHolds == TotalSpec => []ChargeIsValid
<1>1. TypeInv /\ WholeInv => ChargeIsValid
  BY WholeIsHalfUnit DEF WholeInv, ChargeIsValid, TypeInv, TotalTypeOK
<1>. QED
  BY <1>1, WholeInvariant, TypeInvInit, TypeInvNext, PTL DEF TotalSpec

--------------------------------------------------------------------------------
(* The page of the order *)

\* Item by item, the page has what is owed.
PageInv ==
    /\ itemsTotal \in Amounts /\ shippingCost \in Amounts
    /\ owed = Worth(itemsTotal) + Worth(shippingCost)
    /\ phase = "shipping" => owed = 0 /\ itemsTotal = Zero

LEMMA LineWorth ==
  ASSUME NEW u \in Int, NEW k \in Int, NEW cu \in Int, NEW ck \in Int, NEW q \in Int, NEW m \in Int
  PROVE  (u + cu * q) * m + (k + ck * q) = (u * m + k) + q * (cu * m + ck)
  OBVIOUS

LEMMA PageInvInit == OrderPageInit => PageInv
  BY MoneyAssumption DEF OrderPageInit, TotalInit, PageInv, Amounts, Zero, Amount, Worth

LEMMA PageInvNext ==
  ASSUME TypeInv, TypeInv', PageInv, [OrderPageNext]_orderPageVars
  PROVE  PageInv'
<1>1. CASE ShowShipping
  <2>1. PICK c \in Shippings : total' = Sum(total, c) /\ owed' = owed + Worth(c)
    BY <1>1 DEF ShowShipping, AddShipping
  <2>2. total = Zero /\ owed = 0 /\ itemsTotal' = Zero /\ shippingCost' = total'
    BY <1>1 DEF ShowShipping, AddShipping, TypeInv, PageInv
  <2>3. Zero \in Amounts /\ c \in Amounts
    BY CostReached, ZeroReached, ReachedAmounts
  <2>4. Worth(total') = Worth(Zero) + Worth(c) /\ Worth(Zero) = 0 /\ Worth(c) \in Nat
    BY <2>1, <2>2, <2>3, SumIsExact, CostReached, ZeroReached
  <2>5. total' \in Amounts /\ Zero \in Amounts
    BY MoneyAssumption DEF TypeInv, TotalTypeOK, Amounts, Zero, Amount
  <2>. QED
    BY <1>1, <2>1, <2>2, <2>4, <2>5 DEF PageInv, ShowShipping, AddShipping
<1>2. CASE ShowLine
  <2>1. PICK c \in Costs, q \in Quantities :
           cost' = c /\ n' = q /\ owed' = owed + q * Worth(c)
    BY <1>2 DEF ShowLine, NextLine
  <2>2. /\ c.units \in Int /\ c.nanos \in Int /\ q \in Int /\ NanosMod \in Int
        /\ itemsTotal.units \in Int /\ itemsTotal.nanos \in Int /\ itemsTotal \in Amounts
    BY <2>1, TotalAssumption, MoneyAssumption DEF PageInv, Amounts
  <2>3. itemsTotal' = Amount(Currency, itemsTotal.units + c.units * q,
                                       itemsTotal.nanos + c.nanos * q)
    BY <1>2, <2>1 DEF ShowLine
  <2>4. itemsTotal' \in Amounts /\ Worth(itemsTotal') = Worth(itemsTotal) + q * Worth(c)
    BY <2>2, <2>3, LineWorth DEF Amounts, Amount, Worth
  <2>5. shippingCost' = shippingCost /\ phase' # "shipping"
    BY <1>2 DEF ShowLine, NextLine
  <2>6. Worth(shippingCost) \in Int /\ Worth(itemsTotal) \in Int /\ q * Worth(c) \in Int
    BY <2>2, MoneyAssumption DEF Worth, PageInv, Amounts
  <2>. QED
    BY <2>1, <2>4, <2>5, <2>6 DEF PageInv
<1>3. CASE (Again \/ AddLine \/ Panic \/ ToCharge) /\ UNCHANGED <<itemsTotal, shippingCost>>
  BY <1>3 DEF Again, AddLine, Panic, ToCharge, PageInv
<1>4. CASE UNCHANGED orderPageVars
  BY <1>4 DEF orderPageVars, totalVars, PageInv
<1>. QED
  BY <1>1, <1>2, <1>3, <1>4 DEF OrderPageNext

LEMMA CarriedIsExact ==
  ASSUME NEW u \in Int, NEW k \in Int
  PROVE  Worth(Carried(u, k)) = u * NanosMod + k
<1>. DEFINE d == k \div NanosMod
            r == k % NanosMod
<1>1. d \in Int /\ r \in Int /\ k = NanosMod * d + r /\ NanosMod \in Int
  BY MoneyAssumption
<1>. HIDE DEF d, r
<1>2. (u + d) * NanosMod + r = u * NanosMod + k
  BY <1>1
<1>. QED
  BY <1>2 DEF Carried, Amount, Worth, d, r

(***************************************************************************)
(* Every order's page shows what its card was charged: orderTotal of the   *)
(* page and the additions of PlaceOrder come to the same.                  *)
(***************************************************************************)
THEOREM PageShowsTheChargeHolds == OrderPageSpec => []PageShowsTheCharge
<1>1. OrderPageInit => TypeInv /\ ExactInv /\ PageInv
  BY TypeInvInit, PageInvInit, ZeroReached DEF OrderPageInit, TotalInit, ExactInv
<1>2. [OrderPageNext]_orderPageVars => [TotalNext]_totalVars
  BY DEF OrderPageNext, ShowShipping, ShowLine, TotalNext, orderPageVars
<1>3. /\ TypeInv /\ ExactInv /\ PageInv
      /\ [OrderPageNext]_orderPageVars
      => TypeInv' /\ ExactInv' /\ PageInv'
  BY <1>2, TypeInvNext, ExactNext, PageInvNext
<1>4. ExactInv /\ PageInv => PageShowsTheCharge
  <2>. SUFFICES ASSUME ExactInv, PageInv, phase = "charge", ~none
                PROVE  Worth(orderTotal) = Worth(total)
    BY DEF PageShowsTheCharge
  <2>1. Worth(total) = owed
    BY DEF ExactInv
  <2>. DEFINE u == itemsTotal.units + shippingCost.units
              k == itemsTotal.nanos + shippingCost.nanos
  <2>2. u \in Int /\ k \in Int
    BY DEF PageInv, Amounts
  <2>3. Worth(orderTotal) = u * NanosMod + k
    BY <2>2, CarriedIsExact DEF orderTotal
  <2>4. u * NanosMod + k = Worth(itemsTotal) + Worth(shippingCost)
    BY MoneyAssumption DEF PageInv, Amounts, Worth
  <2>. QED
    BY <2>1, <2>3, <2>4 DEF PageInv
<1>. QED
  BY <1>1, <1>3, <1>4, PTL DEF OrderPageSpec
================================================================================
