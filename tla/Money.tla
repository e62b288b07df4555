---------------------------------- MODULE Money ----------------------------------
(***************************************************************************)
(* The money package of the checkout service: an amount is a currency      *)
(* code, whole units and nanos, billionths of a unit that carry the same   *)
(* sign.  NanosMod stands for the 1 000 000 000 of the code.               *)
(***************************************************************************)
EXTENDS Integers

CONSTANT NanosMod

ASSUME MoneyAssumption == NanosMod \in Nat \ {0}

Amount(cur, units, nanos) == [cur |-> cur, units |-> units, nanos |-> nanos]

\* Go's / and % on int32: the quotient is cut towards zero.
Quotient(n)  == IF n >= 0 THEN n \div NanosMod ELSE -((-n) \div NanosMod)
Remainder(n) == n - Quotient(n) * NanosMod

SignMatches(m) ==
    m.nanos = 0 \/ m.units = 0 \/ (m.nanos < 0) = (m.units < 0)

ValidNanos(n) == -(NanosMod - 1) =< n /\ n =< NanosMod - 1

IsValid(m) == SignMatches(m) /\ ValidNanos(m.nanos)

(***************************************************************************)
(* Sum either fails with an error or returns an amount.                    *)
(***************************************************************************)
SumFails(l, r) == ~IsValid(l) \/ ~IsValid(r) \/ l.cur # r.cur

SameSign(units, nanos) ==
    \/ units = 0 /\ nanos = 0
    \/ units > 0 /\ nanos >= 0
    \/ units < 0 /\ nanos =< 0

\* Faults for mutants of Sum: the carry is not added; the nanos keep it.
SumWithoutCarry(l, r) ==
    Amount(l.cur, l.units + r.units, Remainder(l.nanos + r.nanos))
SumUnreduced(l, r) ==
    LET nanos == l.nanos + r.nanos
    IN Amount(l.cur, l.units + r.units + Quotient(nanos), nanos)

Sum(l, r) ==
    LET units == l.units + r.units
        nanos == l.nanos + r.nanos
    IN IF SameSign(units, nanos)
       THEN Amount(l.cur, units + Quotient(nanos), Remainder(nanos))
       ELSE IF units > 0
            THEN Amount(l.cur, units - 1, nanos + NanosMod)
            ELSE Amount(l.cur, units + 1, nanos - NanosMod)

\* What an amount is worth, in nanos.
Worth(m) == m.units * NanosMod + m.nanos
================================================================================
