-------------------------------- MODULE OrderTotal --------------------------------
(***************************************************************************)
(* The total that PlaceOrder charges: zero, plus the localized shipping    *)
(* cost, plus for each line its cost multiplied by its quantity, where     *)
(* MultiplySlow adds the cost to itself one unit at a time.  Each addition *)
(* goes through money.Must, which panics when Sum fails; nothing recovers  *)
(* the panic, so it ends the checkout process with every order in it.      *)
(***************************************************************************)
EXTENDS Money

CONSTANTS
    Currency,    \* the currency of the user
    Costs,       \* the amounts that Convert gives as prices
    Shippings,   \* the amounts that Convert gives as shipping costs
    Quantities,  \* the quantities of a cart line
    MaxLines     \* bound: the lines of one cart

ASSUME TotalAssumption ==
    /\ Costs \cup Shippings \subseteq
          [cur : {Currency}, units : Nat, nanos : 0..(NanosMod - 1)]
    /\ Quantities \subseteq Nat
    /\ MaxLines \in Nat

VARIABLES
    phase,   \* "shipping", "lines", "multiply", "charge" or "panic"
    total,   \* the total so far
    cost,    \* the cost of the line in hand
    out,     \* MultiplySlow's result so far
    n,       \* MultiplySlow's countdown
    lines,   \* the lines added so far
    owed,    \* history: what the order is worth, in nanos
    small,   \* history: a price below half a unit, or a shipping cost below one
    none     \* history: a line with quantity zero

totalVars == <<phase, total, cost, out, n, lines, owed, small, none>>

AtLeastOne(m) == m.units >= 1

AtLeastHalf(m) == m.units >= 1 \/ 2 * m.nanos >= NanosMod

Zero == Amount(Currency, 0, 0)

TotalInit ==
    /\ phase = "shipping"
    /\ total = Zero /\ cost = Zero /\ out = Zero
    /\ n = 0 /\ lines = 0 /\ owed = 0
    /\ small = FALSE /\ none = FALSE

\* Zero and a valid amount of the user's currency: this Sum cannot fail.
AddShipping ==
    /\ phase = "shipping"
    /\ \E c \in Shippings :
          /\ total' = Sum(total, c) /\ owed' = owed + Worth(c)
          /\ small' = ~AtLeastOne(c)
    /\ phase' = "lines"
    /\ UNCHANGED <<cost, out, n, lines, none>>

\* MultiplySlow(it.Cost, quantity) begins with out := m.
NextLine ==
    /\ phase = "lines" /\ lines < MaxLines
    /\ \E c \in Costs, q \in Quantities :
          /\ cost' = c /\ out' = c /\ n' = q
          /\ owed' = owed + q * Worth(c)
          /\ small' = (small \/ ~AtLeastHalf(c))
          /\ none' = (none \/ q = 0)
    /\ lines' = lines + 1
    /\ phase' = "multiply"
    /\ UNCHANGED total

\* One round of "for n > 1".
Again ==
    /\ phase = "multiply" /\ n > 1
    /\ ~SumFails(out, cost)
    /\ out' = Sum(out, cost)
    /\ n' = n - 1
    /\ UNCHANGED <<phase, total, cost, lines, owed, small, none>>

AddLine ==
    /\ phase = "multiply" /\ n =< 1
    /\ ~SumFails(total, out)
    /\ total' = Sum(total, out)
    /\ phase' = "lines"
    /\ UNCHANGED <<cost, out, n, lines, owed, small, none>>

\* Must panics: Sum refuses the addition that is next.
Panic ==
    /\ phase = "multiply"
    /\ IF n > 1 THEN SumFails(out, cost) ELSE SumFails(total, out)
    /\ phase' = "panic"
    /\ UNCHANGED <<total, cost, out, n, lines, owed, small, none>>

ToCharge ==
    /\ phase = "lines"
    /\ phase' = "charge"
    /\ UNCHANGED <<total, cost, out, n, lines, owed, small, none>>

TotalNext == AddShipping \/ NextLine \/ Again \/ AddLine \/ Panic \/ ToCharge

TotalSpec == TotalInit /\ [][TotalNext]_totalVars

--------------------------------------------------------------------------------

TotalTypeOK ==
    /\ phase \in {"shipping", "lines", "multiply", "charge", "panic"}
    /\ {total, cost, out} \subseteq
          [cur : {Currency}, units : Nat, nanos : (1 - NanosMod)..(NanosMod - 1)]
    /\ n \in Nat /\ lines \in 0..MaxLines
    /\ owed \in Nat
    /\ small \in BOOLEAN /\ none \in BOOLEAN

(***************************************************************************)
(* The card is charged what the order is worth, to the nano: no carry and  *)
(* no borrow is lost on the way through Sum and MultiplySlow, also when Sum *)
(* has left an amount with mixed signs behind.  This holds for orders      *)
(* without a line of quantity zero, which MultiplySlow takes for one.      *)
(***************************************************************************)
ChargeIsExact == phase = "charge" /\ ~none => Worth(total) = owed

(***************************************************************************)
(* It takes a price below half a unit, or a shipping cost below one, to    *)
(* have an addition of valid amounts fail and the process panic.           *)
(***************************************************************************)
PanicsOnlyOverSmallAmounts == phase = "panic" => small

(***************************************************************************)
(* The amount that payment is asked for is a valid one, of same signs and  *)
(* with its nanos in range, unless an amount as small as that went into it.*)
(***************************************************************************)
ChargeIsValid == phase = "charge" /\ ~small => IsValid(total)
================================================================================
