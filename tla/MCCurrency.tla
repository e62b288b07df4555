-------------------------------- MODULE MCCurrency --------------------------------
(* Two listed currencies, one unknown code and amounts of three decimals. *)
EXTENDS Currency, TLC

MCTable == "EUR" :> 4 @@ "USD" :> 5

MCSent == [units : {0, 3}, nanos : {0, 7, 50, 80, 100, 120, 505, 990, 999}]
================================================================================
