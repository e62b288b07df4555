------------------------------ MODULE MCStorefront ------------------------------
(* Two additions, an emptying and two orders, in two currencies. *)
EXTENDS Storefront, FiniteSets

CONSTANTS Second,  \* the order that comes second
          Late     \* the addition that comes while an order is on its way

(***************************************************************************)
(* An emptying, and a second currency beside failing loads, show what they *)
(* bring with fewer clicks than the rest.  A third click is for the second *)
(* order, or for an addition that meets the first one, and the fourth for  *)
(* an order after these: runs with more are not followed.                  *)
(***************************************************************************)
OneStory ==
    LET n == Cardinality(Clicked)
        oneCurrency == \A k \in Currencies : k = selectedCurrency \/ query[k] = NoQuery
        noFailure   == page.tries = 0 /\ ~page.failed
    IN /\ n > 1 => oneCurrency \/ noFailure
       /\ n > 2 => oneCurrency
       /\ Empties \cap Clicked # {} => n =< 2 /\ oneCurrency
       /\ Second \in Clicked => (Adds \ {Late}) \cup Orders \subseteq Clicked
       /\ Late \in Clicked =>
             /\ Adds \ {Late} \subseteq Succeeded /\ \E o \in Orders : readAt[o] # 0
             /\ noFailure
             /\ Second \in Clicked => Orders \ {Second} \subseteq Succeeded /\ doneAt[Late] # 0
================================================================================
