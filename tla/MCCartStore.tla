------------------------------ MODULE MCCartStore ------------------------------
(* The cart service with two concurrent callers on one cart, for TLC. *)
EXTENDS CartStore
================================================================================
