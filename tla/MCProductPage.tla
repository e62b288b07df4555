------------------------------ MODULE MCProductPage ------------------------------
(* Two listed currencies, one unknown code, a catalogue of four products,    *)
(* and prices of three decimals, one with a leading zero.                    *)
EXTENDS PageMessages

MCTable == "EUR" :> 4 @@ "USD" :> 5

MCSent == [units : {0, 3}, nanos : {0, 80, 505, 990}]

MCPrice ==
    "A" :> [units |-> 3, nanos |-> 505] @@ "B" :> [units |-> 0, nanos |-> 990] @@
    "C" :> [units |-> 3, nanos |-> 0] @@ "D" :> [units |-> 0, nanos |-> 80]

MCCartLists == {<<>>, <<"B">>, <<"C", "B">>}

\* Flashlights and books have no ads.
MCCategories ==
    "A" :> {"telescopes", "travel"} @@ "B" :> {"accessories", "flashlights"} @@
    "C" :> {"accessories", "telescopes"} @@ "D" :> {"books"}

MCAdsOf ==
    "telescopes" :> {"explorer"} @@ "travel" :> {"eclipsmart"} @@
    "accessories" :> {"imager", "filter"} @@ "books" :> {} @@ "flashlights" :> {}

(***************************************************************************)
(* The parts of the page share nothing but the product on it.  Runs in     *)
(* which more than one of them has moved show nothing new, and are not     *)
(* followed; for the last two one product is enough.  Of the orders that   *)
(* reviews may come in, the ascending one is followed.                     *)
(***************************************************************************)
PriceMoved == price # NoPrice \/ reply # NoReply \/ selectedCurrency # NoText
RowMoved   == row # NoRow \/ ~first_run \/ cached_ids # {}

Moved == <<PriceMoved, RowMoved, asks # <<>>, ad # NoAd, percents # <<>>, call # <<>> >>

Only(part) == \A i \in DOMAIN Moved : Moved[i] => i = part

Ascending(s) == \A i \in 2..Len(s) : s[i - 1] =< s[i]

OnePartNext ==
    \/ Only(6) /\ productId = "A" /\ AnyCall
    \/ /\ call = <<>>
       /\ \/ Only(1) /\ PriceNext
          \/ Only(2) /\ RowNext
          \/ Only(3) /\ AssistantNext
          \/ Only(4) /\ LoadAds
          \/ Only(5) /\ productId = "A" /\ PageReviews /\ Ascending(productReviews')
          \/ \E p \in Products : Open(p)
       /\ UNCHANGED call

OnePartSpec == MessagesInit /\ [][OnePartNext]_<<pageVars, currencyVars, call>>
================================================================================
