-------------------------------- MODULE OrderPage --------------------------------
(***************************************************************************)
(* What the shop's pages show of the money that PlaceOrder charges.  The   *)
(* page of a placed order, and the cart page before it, add up the same    *)
(* costs and quantities on their own: units and nanos apart, multiplied    *)
(* and added as JavaScript numbers, with one carry at the end.             *)
(***************************************************************************)
EXTENDS OrderTotal

VARIABLES
    itemsTotal,   \* reduce over the items: units and nanos
    shippingCost  \* of the order

orderPageVars == <<totalVars, itemsTotal, shippingCost>>

\* Fault for a mutant of Carried: the carry is left out of the units.
CarriedNanosOnly(units, nanos) == Amount(Currency, units, nanos % NanosMod)

\* nanoExceed = Math.floor(nanos / 1000000000); amounts are not negative here.
Carried(units, nanos) ==
    Amount(Currency, units + nanos \div NanosMod, nanos % NanosMod)

orderTotal ==
    Carried(itemsTotal.units + shippingCost.units, itemsTotal.nanos + shippingCost.nanos)

OrderPageInit ==
    /\ TotalInit
    /\ itemsTotal = Zero
    /\ shippingCost = Zero

\* The page gets the lines and the shipping cost that PlaceOrder has used.
ShowShipping ==
    /\ AddShipping
    /\ shippingCost' = total'
    /\ UNCHANGED itemsTotal

ShowLine ==
    /\ NextLine
    /\ itemsTotal' = Amount(Currency, itemsTotal.units + cost'.units * n',
                                      itemsTotal.nanos + cost'.nanos * n')
    /\ UNCHANGED shippingCost

OrderPageNext ==
    \/ ShowShipping
    \/ ShowLine
    \/ /\ Again \/ AddLine \/ Panic \/ ToCharge
       /\ UNCHANGED <<itemsTotal, shippingCost>>

OrderPageSpec == OrderPageInit /\ [][OrderPageNext]_orderPageVars

--------------------------------------------------------------------------------

(***************************************************************************)
(* The total on the page of an order is what the card was charged, and the *)
(* one on the cart page what it would be charged, though the pages add in  *)
(* another order and carry only once.  A line of quantity zero is the      *)
(* exception: it is charged once and shown as nothing.                     *)
(***************************************************************************)
PageShowsTheCharge ==
    phase = "charge" /\ ~none => Worth(orderTotal) = Worth(total)
================================================================================
