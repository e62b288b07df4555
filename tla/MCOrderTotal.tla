------------------------------- MODULE MCOrderTotal -------------------------------
(* Carts of up to two lines in a currency of eight nanos, for TLC. *)
EXTENDS OrderPage

USD(units, nanos) == Amount("USD", units, nanos)

(* Every amount below two units, and below half a unit to begin with. *)
MCCosts == {USD(u, k) : u \in 0..1, k \in 0..7}

MCShippings == {USD(0, 0), USD(0, 5), USD(1, 0), USD(1, 7), USD(2, 3)}
================================================================================
