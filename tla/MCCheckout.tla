------------------------------- MODULE MCCheckout -------------------------------
(* Two orders and a shopper on one cart, for TLC. *)
EXTENDS CheckoutProperties

MCPrice == [p \in Products |-> 2]
================================================================================
