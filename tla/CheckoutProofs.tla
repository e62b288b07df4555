---------------------------- MODULE CheckoutProofs ----------------------------
(***************************************************************************)
(* Proofs about PlaceOrder over the cart service, for any users, products, *)
(* orders, shoppers and prices.                                            *)
(***************************************************************************)
EXTENDS CheckoutProperties, CartProofs

Unpaid == {"new", "prepare", "charge"}
Unsent == Unpaid \cup {"charging", "ship"}

(***************************************************************************)
(* What the stage of a handler says of the outside world: an order that is *)
(* past chargeCard was charged exactly once, and so on.  Of an order that  *)
(* is done it only says that nothing happened twice.                       *)
(***************************************************************************)
HandlerInv(o) ==
    /\ charges[o] \in {0, 1} /\ shipments[o] \in {0, 1}
    /\ stage[o] \in Unpaid => charges[o] = 0
    /\ stage[o] \notin Unpaid \cup {"done"} => charges[o] = 1
    /\ stage[o] \in Unsent => shipments[o] = 0
    /\ stage[o] \notin Unsent \cup {"done"} => shipments[o] = 1
    /\ answer[o] = "none" <=> stage[o] # "done"
    /\ o \in emailed => stage[o] \in {"publish", "sent", "answer", "done"}
    /\ \A r \in outbox : r.order = o => stage[o] \in {"sent", "answer", "done"}

Reading == {"prepare", "charge", "charging", "ship", "shipping"}

(***************************************************************************)
(* How a handler and its call at the cart service keep step: the cart it   *)
(* read is the one it works with, and only goods that were charged and     *)
(* shipped have their cart emptied.                                        *)
(***************************************************************************)
CallInv(o) ==
    /\ stage[o] \in Reading => /\ call[o].pc = "held"
                               /\ call[o].seen = prep[o].items
    /\ call[o].pc # "write"
    /\ call[o].pc = "held" => stage[o] \in Reading
    /\ call[o].pc \in {"empty", "expire"} =>
          /\ charges[o] = 1 /\ shipments[o] = 1
          /\ stage[o] \notin Reading \cup {"new"}

\* The charge was for what the handler has prepared, and stays so.
InvoiceInv ==
    /\ \A o \in Orders :
          stage[o] \notin Unpaid \cup {"done"} => amount[o] = Total(prep[o])
    /\ InvoiceIsWhatWasCharged

(***************************************************************************)
(* The units of an undisturbed user: while an order is between its charge  *)
(* and the emptying of its cart the units are counted as billed and are    *)
(* still in the cart; at any other time billed and stored units together   *)
(* are at most the units that were added.                                  *)
(***************************************************************************)
BillInv ==
    \A u \in Users, p \in Products : Undisturbed(u) =>
        /\ billed[u][p] =< added[u][p]
        /\ (\A o \in Orders : ~Settling(o, u)) =>
              billed[u][p] + cart[u][p] =< added[u][p]

Inv ==
    /\ CartInv /\ SerialInv /\ OrderTypeOK
    /\ \A o \in Orders : HandlerInv(o) /\ CallInv(o)
    /\ InvoiceInv /\ BillInv

--------------------------------------------------------------------------------

LEMMA InitInv == Init => Inv
<1>. SUFFICES ASSUME Init PROVE Inv
  OBVIOUS
<1>1. CartInv /\ SerialInv
  BY CartInitInv, CartInitSerial DEF Init
<1>2. NoPrep \in Preps
  BY EmptyCartType DEF NoPrep, Preps
<1>3. OrderTypeOK
  BY <1>2, EmptyCartType, CheckoutAssumption DEF Init, OrderTypeOK, Stages
<1>4. \A o \in Orders : HandlerInv(o) /\ CallInv(o)
  BY NoCallType, CheckoutAssumption
  DEF Init, CartInit, HandlerInv, CallInv, Unpaid, Unsent, Reading
<1>5. InvoiceInv
  BY DEF Init, InvoiceInv, InvoiceIsWhatWasCharged, Unpaid
<1>6. BillInv
  BY DEF Init, CartInit, BillInv, EmptyCart
<1>. QED
  BY <1>1, <1>3, <1>4, <1>5, <1>6 DEF Inv

LEMMA CartUnchanged ==
  ASSUME Inv, UNCHANGED cartVars
  PROVE  CartInv' /\ SerialInv'
<1>1. CartInv'
  BY DEF Inv, cartVars, CartInv, CartTypeOK, NoUnitsFromNowhere,
         ReadCartsAreBounded, CartsExpireUnlessACallFailed
<1>2. SerialInv'
  BY DEF Inv, cartVars, SerialInv, InCall
<1>. QED
  BY <1>1, <1>2

(***************************************************************************)
(* Steps of a handler that touch neither carts, charges nor bills: they    *)
(* move the stage on and do not enter or leave the settling stages.        *)
(***************************************************************************)
LEMMA PrepareInv ==
  ASSUME Inv, NEW o \in Orders, Prepare(o)
  PROVE  Inv'
<1>1. CartInv' /\ SerialInv'
  BY CartUnchanged DEF Prepare
<1>2. OrderTypeOK'
  BY DEF Inv, OrderTypeOK, Prepare, GoTo, Preps, Stages
<1>3. \A x \in Orders : HandlerInv(x)'
  BY DEF Inv, OrderTypeOK, Prepare, GoTo, HandlerInv, Unpaid, Unsent
<1>4. \A x \in Orders : CallInv(x)'
  BY DEF Inv, OrderTypeOK, Prepare, GoTo, CallInv, cartVars, Reading, Preps
<1>5. InvoiceInv'
  BY DEF Inv, OrderTypeOK, Prepare, GoTo, InvoiceInv, InvoiceIsWhatWasCharged, Unpaid
<1>6. BillInv'
  BY DEF Inv, OrderTypeOK, Prepare, GoTo, BillInv, Undisturbed, Settling,
         HalfDone, cartVars
<1>. QED
  BY <1>1, <1>2, <1>3, <1>4, <1>5, <1>6 DEF Inv

LEMMA ChargeAnsweredInv ==
  ASSUME Inv, NEW o \in Orders, ChargeAnswered(o)
  PROVE  Inv'
<1>1. CartInv' /\ SerialInv'
  BY CartUnchanged DEF ChargeAnswered
<1>2. OrderTypeOK'
  BY EmptyCartType DEF Inv, OrderTypeOK, ChargeAnswered, GoTo, Preps, NoPrep, Stages, Results
<1>3. \A x \in Orders : HandlerInv(x)'
  BY DEF Inv, OrderTypeOK, ChargeAnswered, GoTo, HandlerInv, Unpaid, Unsent
<1>4. \A x \in Orders : CallInv(x)'
  BY DEF Inv, OrderTypeOK, ChargeAnswered, GoTo, CallInv, HandlerInv, cartVars, Reading, Unpaid, Unsent
<1>5. InvoiceInv'
  BY DEF Inv, OrderTypeOK, ChargeAnswered, GoTo, InvoiceInv, InvoiceIsWhatWasCharged, HandlerInv, Unpaid
<1>6. BillInv'
  BY DEF Inv, OrderTypeOK, ChargeAnswered, GoTo, BillInv, Undisturbed, Settling,
         HalfDone, cartVars
<1>. QED
  BY <1>1, <1>2, <1>3, <1>4, <1>5, <1>6 DEF Inv

LEMMA ShipInv ==
  ASSUME Inv, NEW o \in Orders, Ship(o)
  PROVE  Inv'
<1>1. CartInv' /\ SerialInv'
  BY CartUnchanged DEF Ship
<1>2. OrderTypeOK'
  BY EmptyCartType DEF Inv, OrderTypeOK, Ship, GoTo, Preps, NoPrep, Stages, Results
<1>3. \A x \in Orders : HandlerInv(x)'
  BY DEF Inv, OrderTypeOK, Ship, GoTo, HandlerInv, Unpaid, Unsent
<1>4. \A x \in Orders : CallInv(x)'
  BY DEF Inv, OrderTypeOK, Ship, GoTo, CallInv, HandlerInv, cartVars, Reading, Unpaid, Unsent
<1>5. InvoiceInv'
  BY DEF Inv, OrderTypeOK, Ship, GoTo, InvoiceInv, InvoiceIsWhatWasCharged, HandlerInv, Unpaid
<1>6. BillInv'
  BY DEF Inv, OrderTypeOK, Ship, GoTo, BillInv, Undisturbed, Settling,
         HalfDone, cartVars
<1>. QED
  BY <1>1, <1>2, <1>3, <1>4, <1>5, <1>6 DEF Inv

LEMMA EmptyCartAnsweredInv ==
  ASSUME Inv, NEW o \in Orders, EmptyCartAnswered(o)
  PROVE  Inv'
<1>1. CartInv' /\ SerialInv'
  BY CartUnchanged DEF EmptyCartAnswered
<1>2. OrderTypeOK'
  BY EmptyCartType DEF Inv, OrderTypeOK, EmptyCartAnswered, GoTo, Preps, NoPrep, Stages, Results
<1>3. \A x \in Orders : HandlerInv(x)'
  BY DEF Inv, OrderTypeOK, EmptyCartAnswered, GoTo, HandlerInv, Unpaid, Unsent
<1>4. \A x \in Orders : CallInv(x)'
  BY DEF Inv, OrderTypeOK, EmptyCartAnswered, GoTo, CallInv, HandlerInv, cartVars, Reading, Unpaid, Unsent
<1>5. InvoiceInv'
  BY DEF Inv, OrderTypeOK, EmptyCartAnswered, GoTo, InvoiceInv, InvoiceIsWhatWasCharged, HandlerInv, Unpaid
<1>6. BillInv'
  BY DEF Inv, OrderTypeOK, EmptyCartAnswered, GoTo, BillInv, Undisturbed, Settling,
         HalfDone, cartVars
<1>. QED
  BY <1>1, <1>2, <1>3, <1>4, <1>5, <1>6 DEF Inv

LEMMA SendConfirmationInv ==
  ASSUME Inv, NEW o \in Orders, SendConfirmation(o)
  PROVE  Inv'
<1>1. CartInv' /\ SerialInv'
  BY CartUnchanged DEF SendConfirmation
<1>2. OrderTypeOK'
  BY EmptyCartType DEF Inv, OrderTypeOK, SendConfirmation, GoTo, Preps, NoPrep, Stages, Results
<1>3. \A x \in Orders : HandlerInv(x)'
  BY DEF Inv, OrderTypeOK, SendConfirmation, GoTo, HandlerInv, Unpaid, Unsent
<1>4. \A x \in Orders : CallInv(x)'
  BY DEF Inv, OrderTypeOK, SendConfirmation, GoTo, CallInv, HandlerInv, cartVars, Reading, Unpaid, Unsent
<1>5. InvoiceInv'
  BY DEF Inv, OrderTypeOK, SendConfirmation, GoTo, InvoiceInv, InvoiceIsWhatWasCharged, HandlerInv, Unpaid
<1>6. BillInv'
  BY DEF Inv, OrderTypeOK, SendConfirmation, GoTo, BillInv, Undisturbed, Settling,
         HalfDone, cartVars
<1>. QED
  BY <1>1, <1>2, <1>3, <1>4, <1>5, <1>6 DEF Inv

LEMMA AnswerInv ==
  ASSUME Inv, NEW o \in Orders, Answer(o)
  PROVE  Inv'
<1>1. CartInv' /\ SerialInv'
  BY CartUnchanged DEF Answer
<1>2. OrderTypeOK'
  BY EmptyCartType DEF Inv, OrderTypeOK, Answer, GoTo, Preps, NoPrep, Stages, Results
<1>3. \A x \in Orders : HandlerInv(x)'
  BY DEF Inv, OrderTypeOK, Answer, GoTo, HandlerInv, Unpaid, Unsent
<1>4. \A x \in Orders : CallInv(x)'
  BY DEF Inv, OrderTypeOK, Answer, GoTo, CallInv, HandlerInv, cartVars, Reading, Unpaid, Unsent
<1>5. InvoiceInv'
  BY DEF Inv, OrderTypeOK, Answer, GoTo, InvoiceInv, InvoiceIsWhatWasCharged, HandlerInv, Unpaid
<1>6. BillInv'
  BY DEF Inv, OrderTypeOK, Answer, GoTo, BillInv, Undisturbed, Settling,
         HalfDone, cartVars
<1>. QED
  BY <1>1, <1>2, <1>3, <1>4, <1>5, <1>6 DEF Inv

LEMMA SendToPostProcessorInv ==
  ASSUME Inv, NEW o \in Orders, SendToPostProcessor(o)
  PROVE  Inv'
<1>1. CartInv' /\ SerialInv'
  BY CartUnchanged DEF SendToPostProcessor
<1>2. OrderTypeOK'
  BY EmptyCartType DEF Inv, OrderTypeOK, SendToPostProcessor, GoTo, Preps, NoPrep, Stages, Results, OrderResult, Total
<1>3. \A x \in Orders : HandlerInv(x)'
  BY DEF Inv, OrderTypeOK, SendToPostProcessor, GoTo, HandlerInv, Unpaid, Unsent, OrderResult, Total
<1>4. \A x \in Orders : CallInv(x)'
  BY DEF Inv, OrderTypeOK, SendToPostProcessor, GoTo, CallInv, HandlerInv, cartVars, Reading, Unpaid, Unsent
<1>5. InvoiceInv'
  BY DEF Inv, OrderTypeOK, SendToPostProcessor, GoTo, InvoiceInv, InvoiceIsWhatWasCharged, HandlerInv, Unpaid, OrderResult, Total
<1>6. BillInv'
  BY DEF Inv, OrderTypeOK, SendToPostProcessor, GoTo, BillInv, Undisturbed, Settling,
         HalfDone, cartVars
<1>. QED
  BY <1>1, <1>2, <1>3, <1>4, <1>5, <1>6 DEF Inv

LEMMA LeavePostProcessorInv ==
  ASSUME Inv, NEW o \in Orders, LeavePostProcessor(o)
  PROVE  Inv'
<1>1. CartInv' /\ SerialInv'
  BY CartUnchanged DEF LeavePostProcessor
<1>2. OrderTypeOK'
  BY EmptyCartType DEF Inv, OrderTypeOK, LeavePostProcessor, GoTo, Preps, NoPrep, Stages, Results
<1>3. \A x \in Orders : HandlerInv(x)'
  BY DEF Inv, OrderTypeOK, LeavePostProcessor, GoTo, HandlerInv, Unpaid, Unsent
<1>4. \A x \in Orders : CallInv(x)'
  BY DEF Inv, OrderTypeOK, LeavePostProcessor, GoTo, CallInv, HandlerInv, cartVars, Reading, Unpaid, Unsent
<1>5. InvoiceInv'
  BY DEF Inv, OrderTypeOK, LeavePostProcessor, GoTo, InvoiceInv, InvoiceIsWhatWasCharged, HandlerInv, Unpaid
<1>6. BillInv'
  BY DEF Inv, OrderTypeOK, LeavePostProcessor, GoTo, BillInv, Undisturbed, Settling,
         HalfDone, cartVars
<1>. QED
  BY <1>1, <1>2, <1>3, <1>4, <1>5, <1>6 DEF Inv

--------------------------------------------------------------------------------

LEMMA OrderIsCaller == \A o \in Orders : o \in Callers
  BY CheckoutAssumption

\* The charge: the held cart is the stored one, so it is billed once.
LEMMA ChargeInv ==
  ASSUME Inv, NEW o \in Orders, Charge(o)
  PROVE  Inv'
<1>. DEFINE u == call[o].user
<1>1. CartInv' /\ SerialInv'
  BY CartUnchanged DEF Charge
<1>2. u \in Users /\ prep[o].items \in Carts
  BY OrderIsCaller DEF Inv, CartInv, CartTypeOK, Calls, OrderTypeOK, Preps
<1>3. billed' = [billed EXCEPT ![u] = [p \in Products |-> billed[u][p] + prep[o].items[p]]]
  BY DEF Charge
<1>4. OrderTypeOK'
  <2>1. billed' \in [Users -> Carts]
    BY <1>2, <1>3 DEF Inv, OrderTypeOK, Carts
  <2>. QED
    BY <2>1 DEF Inv, OrderTypeOK, Charge, GoTo, Stages
<1>5. \A x \in Orders : HandlerInv(x)'
  BY DEF Inv, OrderTypeOK, Charge, GoTo, HandlerInv, Unpaid, Unsent
<1>6. \A x \in Orders : CallInv(x)'
  BY DEF Inv, OrderTypeOK, Charge, GoTo, CallInv, HandlerInv, cartVars, Reading, Unpaid, Unsent
<1>7. InvoiceInv'
  BY DEF Inv, OrderTypeOK, Charge, GoTo, InvoiceInv, InvoiceIsWhatWasCharged,
         HandlerInv, Unpaid
<1>8. BillInv'
  <2>. SUFFICES ASSUME NEW v \in Users, NEW p \in Products, Undisturbed(v)'
                PROVE  /\ billed'[v][p] =< added'[v][p]
                       /\ (\A x \in Orders : ~Settling(x, v)') =>
                             billed'[v][p] + cart'[v][p] =< added'[v][p]
    BY DEF BillInv
  <2>1. Undisturbed(v) /\ UNCHANGED <<cart, added, call>>
    BY DEF Undisturbed, Charge, cartVars
  <2>2. CASE v = u
    <3>1. /\ call[o].pc = "held" /\ call[o].seen = prep[o].items
          /\ InCall(o, u)
      BY DEF Inv, CallInv, Reading, Charge, InCall
    <3>2. prep[o].items = cart[u]
      BY <3>1, <2>1, <2>2, OrderIsCaller DEF Inv, SerialInv, Undisturbed
    <3>3. \A x \in Orders : ~Settling(x, u)
      BY <3>1, <2>1, <2>2, OrderIsCaller
      DEF Inv, SerialInv, Undisturbed, Settling, InCall, HalfDone, Charge
    <3>4. billed[u][p] + cart[u][p] =< added[u][p]
      BY <3>3, <2>1, <2>2, <1>2 DEF Inv, BillInv
    <3>5. Settling(o, u)'
      BY <3>1, <2>1 DEF Settling, Charge, GoTo, HalfDone, Inv, OrderTypeOK
    <3>. QED
      BY <3>2, <3>4, <3>5, <2>1, <2>2, <1>2, <1>3 DEF Inv, OrderTypeOK
  <2>3. CASE v # u
    <3>1. billed'[v] = billed[v]
      BY <2>3, <1>3 DEF Inv, OrderTypeOK
    <3>2. \A x \in Orders : Settling(x, v)' <=> Settling(x, v)
      BY <2>1, <2>3 DEF Settling, Charge, GoTo, Inv, OrderTypeOK
    <3>. QED
      BY <3>1, <3>2, <2>1 DEF Inv, BillInv
  <2>. QED  BY <2>2, <2>3
<1>. QED
  BY <1>1, <1>4, <1>5, <1>6, <1>7, <1>8 DEF Inv

LEMMA ShipAnsweredInv ==
  ASSUME Inv, NEW o \in Orders, ShipAnswered(o)
  PROVE  Inv'
<1>0. call' = [call EXCEPT ![o].pc = "empty"] /\ call[o].pc = "held"
  BY DEF ShipAnswered, EmptyHeldCart
<1>1. CartInv'
  BY EmptyHeldCartInv, OrderIsCaller DEF Inv, ShipAnswered
<1>2. SerialInv'
  BY <1>0, LeaveSerial, OrderIsCaller
  DEF Inv, ShipAnswered, EmptyHeldCart, CartInv, CartTypeOK, Calls
<1>3. OrderTypeOK'
  BY DEF Inv, OrderTypeOK, ShipAnswered, GoTo, Stages
<1>4. \A x \in Orders : HandlerInv(x)'
  BY DEF Inv, OrderTypeOK, ShipAnswered, GoTo, HandlerInv, Unpaid, Unsent
<1>5. \A x \in Orders : /\ x # o => call'[x] = call[x]
                        /\ call'[o].pc = "empty" /\ call'[o].user = call[o].user
  BY <1>0, OrderIsCaller DEF Inv, CartInv, CartTypeOK, Calls
<1>6. \A x \in Orders : CallInv(x)'
  BY <1>5 DEF Inv, OrderTypeOK, ShipAnswered, GoTo, CallInv, HandlerInv, Reading,
              Unpaid, Unsent
<1>7. InvoiceInv'
  BY DEF Inv, OrderTypeOK, ShipAnswered, GoTo, InvoiceInv,
         InvoiceIsWhatWasCharged, HandlerInv, Unpaid
<1>8. \A x \in Orders, u \in Users : Settling(x, u)' <=> Settling(x, u)
  BY <1>0, <1>5 DEF Settling, HalfDone, ShipAnswered, GoTo, Inv, OrderTypeOK
<1>9. BillInv'
  BY <1>8 DEF Inv, BillInv, Undisturbed, ShipAnswered, EmptyHeldCart
<1>. QED
  BY <1>1, <1>2, <1>3, <1>4, <1>6, <1>7, <1>9 DEF Inv

(***************************************************************************)
(* Handlers that end early: they drop the cart they hold, and if they were *)
(* settling their user counts as disturbed from then on.                   *)
(***************************************************************************)
LEMMA BillAfterDropping ==
  ASSUME Inv, DropCalls, UNCHANGED billed,
         \A x \in Orders, u \in Users :
            Settling(x, u) /\ ~Settling(x, u)' => failed'[u]
  PROVE  BillInv'
<1>. SUFFICES ASSUME NEW u \in Users, NEW p \in Products, Undisturbed(u)'
              PROVE  /\ billed'[u][p] =< added'[u][p]
                     /\ (\A x \in Orders : ~Settling(x, u)') =>
                           billed'[u][p] + cart'[u][p] =< added'[u][p]
  BY DEF BillInv
<1>1. Undisturbed(u) /\ UNCHANGED <<cart, added>>
  BY DEF Undisturbed, DropCalls
<1>2. (\A x \in Orders : ~Settling(x, u)') => (\A x \in Orders : ~Settling(x, u))
  BY DEF Undisturbed
<1>. QED
  BY <1>1, <1>2 DEF Inv, BillInv

LEMMA DropCallsSerial ==
  ASSUME CartInv, SerialInv, DropCalls
  PROVE  SerialInv'
  BY LeaveSerial, NoCallType DEF DropCalls

LEMMA ReturnErrorInv ==
  ASSUME Inv, NEW o \in Orders, ReturnError(o), stage[o] \in Reading \cup {"new"}
  PROVE  Inv'
<1>0. /\ stage' = [stage EXCEPT ![o] = "done"]
      /\ answer' = [answer EXCEPT ![o] = "error"]
      /\ prep' = [prep EXCEPT ![o] = NoPrep]
      /\ call' = IF call[o].pc = "held" THEN [call EXCEPT ![o] = NoCall] ELSE call
      /\ failed' = IF stage[o] \in HalfDone
                   THEN [failed EXCEPT ![call[o].user] = TRUE] ELSE failed
      /\ UNCHANGED <<cart, key, added, clean, charges, amount, shipments,
                     emailed, outbox, billed>>
  BY DEF ReturnError, GoTo
<1>1. DropCalls
  BY <1>0, NoCallType, OrderIsCaller
  DEF DropCalls, Inv, CartInv, CartTypeOK, Calls
<1>2. CartInv' /\ SerialInv'
  BY <1>1, DropCallsInv, DropCallsSerial DEF Inv
<1>3. OrderTypeOK'
  BY <1>0, EmptyCartType DEF Inv, OrderTypeOK, Stages, Preps, NoPrep
<1>4. \A x \in Orders : HandlerInv(x)'
  BY <1>0 DEF Inv, OrderTypeOK, HandlerInv, Unpaid, Unsent, Reading
<1>5. \A x \in Orders : x # o => call'[x] = call[x]
  BY <1>0, OrderIsCaller DEF Inv, CartInv, CartTypeOK
<1>6. call'[o].pc = "idle" \/ (call'[o] = call[o] /\ call[o].pc # "held")
  BY <1>0, NoCallType, OrderIsCaller DEF Inv, CartInv, CartTypeOK
<1>7. \A x \in Orders : CallInv(x)'
  <2>. SUFFICES ASSUME NEW x \in Orders PROVE CallInv(x)'
    OBVIOUS
  <2>1. CASE x = o
    BY <2>1, <1>0, <1>6 DEF Inv, OrderTypeOK, CallInv, Reading
  <2>2. CASE x # o
    BY <2>2, <1>0, <1>5 DEF Inv, OrderTypeOK, CallInv
  <2>. QED  BY <2>1, <2>2
<1>8. InvoiceInv'
  BY <1>0 DEF Inv, OrderTypeOK, InvoiceInv, InvoiceIsWhatWasCharged, Unpaid
<1>9. BillInv'
  <2>1. ASSUME NEW x \in Orders, NEW u \in Users, Settling(x, u), ~Settling(x, u)'
        PROVE  failed'[u]
    <3>1. x = o
      BY <2>1, <1>0, <1>5 DEF Settling, Inv, OrderTypeOK
    <3>2. stage[o] \in HalfDone /\ call[o].user = u
      BY <3>1, <2>1 DEF Settling
    <3>. QED
      BY <3>2, <1>0 DEF Inv, CartInv, CartTypeOK
  <2>. QED
    BY <2>1, <1>0, <1>1, BillAfterDropping
<1>. QED
  BY <1>2, <1>3, <1>4, <1>7, <1>8, <1>9 DEF Inv

LEMMA EmptyCartGivenUpInv ==
  ASSUME Inv, NEW o \in Orders, EmptyCartGivenUp(o)
  PROVE  Inv'
<1>0. /\ stage[o] = "empty"
      /\ stage' = [stage EXCEPT ![o] = "email"]
      /\ failed' = [failed EXCEPT ![call[o].user] = TRUE]
      /\ UNCHANGED <<cart, key, call, added, clean, prep, charges, amount,
                     shipments, emailed, outbox, answer, billed>>
  BY DEF EmptyCartGivenUp, GoTo
<1>1. DropCalls
  BY <1>0, OrderIsCaller DEF DropCalls, Inv, CartInv, CartTypeOK, Calls
<1>2. CartInv' /\ SerialInv'
  BY <1>1, DropCallsInv, DropCallsSerial DEF Inv
<1>3. OrderTypeOK'
  BY <1>0 DEF Inv, OrderTypeOK, Stages
<1>4. \A x \in Orders : HandlerInv(x)'
  BY <1>0 DEF Inv, OrderTypeOK, HandlerInv, Unpaid, Unsent
<1>5. \A x \in Orders : CallInv(x)'
  BY <1>0 DEF Inv, OrderTypeOK, CallInv, Reading
<1>6. InvoiceInv'
  BY <1>0 DEF Inv, OrderTypeOK, InvoiceInv, InvoiceIsWhatWasCharged, Unpaid
<1>7. BillInv'
  <2>1. ASSUME NEW x \in Orders, NEW u \in Users, Settling(x, u), ~Settling(x, u)'
        PROVE  failed'[u]
    <3>1. x = o /\ call[o].user = u
      BY <2>1, <1>0 DEF Settling, Inv, OrderTypeOK
    <3>. QED
      BY <3>1, <1>0 DEF Inv, CartInv, CartTypeOK
  <2>. QED
    BY <2>1, <1>0, <1>1, BillAfterDropping
<1>. QED
  BY <1>2, <1>3, <1>4, <1>5, <1>6, <1>7 DEF Inv

LEMMA CrashInv ==
  ASSUME Inv, Crash
  PROVE  Inv'
<1>. DEFINE lost == {o \in Orders : InHandler(o)}
<1>0. /\ stage' = [o \in Orders |-> IF o \in lost THEN "done" ELSE stage[o]]
      /\ answer' = [o \in Orders |-> IF o \in lost THEN "lost" ELSE answer[o]]
      /\ prep' = [o \in Orders |-> IF o \in lost THEN NoPrep ELSE prep[o]]
      /\ call' = [c \in Callers |->
                    IF c \in lost /\ call[c].pc = "held" THEN NoCall ELSE call[c]]
      /\ failed' = [u \in Users |-> failed[u] \/ u \in
            {call[o].user : o \in {l \in lost : stage[l] \in HalfDone}}]
      /\ UNCHANGED <<cart, key, added, clean, charges, amount, shipments,
                     emailed, outbox, billed>>
  BY DEF Crash
<1>1. DropCalls
  <2>1. call' \in [Callers -> Calls]
    BY <1>0, NoCallType DEF Inv, CartInv, CartTypeOK
  <2>2. \A c \in Callers : call'[c] = call[c] \/ (call'[c] = NoCall /\ call[c].pc # "expire")
    BY <1>0
  <2>3. failed' \in [Users -> BOOLEAN] /\ \A u \in Users : failed[u] => failed'[u]
    BY <1>0 DEF Inv, CartInv, CartTypeOK
  <2>. QED
    BY <2>1, <2>2, <2>3, <1>0 DEF DropCalls
<1>2. CartInv' /\ SerialInv'
  BY <1>1, DropCallsInv, DropCallsSerial DEF Inv
<1>3. OrderTypeOK'
  BY <1>0, EmptyCartType DEF Inv, OrderTypeOK, Stages, Preps, NoPrep
<1>4. \A x \in Orders : HandlerInv(x)'
  BY <1>0 DEF Inv, OrderTypeOK, HandlerInv, Unpaid, Unsent, InHandler
<1>5. \A x \in Orders : CallInv(x)'
  BY <1>0, NoCallType, OrderIsCaller
  DEF Inv, OrderTypeOK, CallInv, InHandler, Reading
<1>6. InvoiceInv'
  BY <1>0 DEF Inv, OrderTypeOK, InvoiceInv, InvoiceIsWhatWasCharged, Unpaid, InHandler
<1>7. BillInv'
  <2>1. ASSUME NEW x \in Orders, NEW u \in Users, Settling(x, u), ~Settling(x, u)'
        PROVE  failed'[u]
    <3>1. stage[x] \in HalfDone /\ call[x].user = u
      BY <2>1 DEF Settling
    <3>2. x \in lost
      BY <3>1 DEF InHandler, HalfDone
    <3>. QED
      BY <3>1, <3>2, <1>0
  <2>. QED
    BY <2>1, <1>0, <1>1, BillAfterDropping
<1>. QED
  BY <1>2, <1>3, <1>4, <1>5, <1>6, <1>7 DEF Inv

--------------------------------------------------------------------------------

(***************************************************************************)
(* Steps that leave orders alone and only enter calls.                     *)
(***************************************************************************)
LEMMA ReadUserCartInv ==
  ASSUME Inv, NEW o \in Orders, NEW u \in Users, ReadUserCart(o, u)
  PROVE  Inv'
<1>. DEFINE r == [NoCall EXCEPT !.pc = "held", !.user = u, !.seen = cart[u]]
<1>0. GetCart(o, u) /\ o \in Callers /\ cart[u] \in Carts
  BY OrderIsCaller DEF ReadUserCart, Inv, CartInv, CartTypeOK
<1>1. CartInv' /\ SerialInv'
  BY <1>0, GetCartInv, GetCartSerial DEF Inv
<1>2. r \in Calls /\ r.pc = "held" /\ r.user = u /\ r.seen = cart[u]
  BY <1>0, NoCallType DEF Calls, CallStates
<1>3. call' = [call EXCEPT ![o] = r] /\ UNCHANGED <<cart, added, failed>>
  BY <1>0 DEF GetCart, Enter
<1>. HIDE DEF r
<1>4. /\ \A x \in Orders : x # o => call'[x] = call[x]
      /\ call'[o] = r
  BY <1>0, <1>3 DEF Inv, CartInv, CartTypeOK
<1>5. OrderTypeOK'
  BY <1>0 DEF Inv, OrderTypeOK, ReadUserCart, GoTo, Preps, Stages
<1>6. \A x \in Orders : HandlerInv(x)'
  BY DEF Inv, OrderTypeOK, ReadUserCart, GoTo, HandlerInv, Unpaid, Unsent
<1>7. \A x \in Orders : CallInv(x)'
  <2>1. CallInv(o)'
    BY <1>2, <1>4 DEF Inv, OrderTypeOK, ReadUserCart, GoTo, CallInv, Reading, Preps
  <2>2. \A x \in Orders \ {o} : CallInv(x)'
    BY <1>4 DEF Inv, OrderTypeOK, ReadUserCart, GoTo, CallInv, Preps
  <2>. QED  BY <2>1, <2>2
<1>8. InvoiceInv'
  BY DEF Inv, OrderTypeOK, ReadUserCart, GoTo, InvoiceInv,
         InvoiceIsWhatWasCharged, Unpaid
<1>9. BillInv'
  <2>1. \A x \in Orders, v \in Users : Settling(x, v)' <=> Settling(x, v)
    BY <1>4 DEF Settling, HalfDone, ReadUserCart, GoTo, Inv, OrderTypeOK
  <2>2. \A v \in Users : Undisturbed(v)' => Undisturbed(v)
    BY <1>2, <1>3, <1>0 DEF Undisturbed, GetCart, Enter, Inv, CartInv, CartTypeOK, r
  <2>. QED
    BY <2>1, <2>2, <1>3 DEF Inv, BillInv, ReadUserCart
<1>. QED
  BY <1>1, <1>5, <1>6, <1>7, <1>8, <1>9 DEF Inv

LEMMA EnterTouchesOneCall ==
  ASSUME CartInv, NEW c \in Callers, NEW rec, Enter(c, rec)
  PROVE  /\ \A d \in Callers : d # c => call'[d] = call[d]
         /\ \A v \in Users : clean'[v] => clean[v]
<1>1. clean' = [clean EXCEPT ![rec.user] = clean[rec.user] /\ ~Busy(rec.user)]
  BY DEF Enter
<1>2. \A v \in Users : clean'[v] => clean[v]
  BY <1>1 DEF CartInv, CartTypeOK
<1>. QED
  BY <1>2 DEF Enter, CartInv, CartTypeOK

LEMMA ShopperStepInv ==
  ASSUME Inv, NEW c \in Shoppers, ShopperStep(c)
  PROVE  Inv'
<1>0. PICK u \in Users :
        \/ \E p \in Products, q \in Quantities : AddItemRead(c, u, p, q)
        \/ EmptyCartRequest(c, u)
  BY DEF ShopperStep
<1>1. c \in Callers /\ c \notin Orders /\ UNCHANGED orderVars
  BY DEF Shoppers, ShopperStep
<1>2. CartInv' /\ SerialInv'
  BY <1>0, <1>1, AddItemReadInv, AddItemReadSerial, EmptyCartRequestInv,
     EmptyCartRequestSerial DEF Inv
<1>3. /\ UNCHANGED <<cart, added, failed>>
      /\ \A x \in Orders : call'[x] = call[x]
      /\ \A v \in Users : clean'[v] => clean[v]
  <2>1. \E rec : Enter(c, rec)
    BY <1>0 DEF AddItemRead, EmptyCartRequest
  <2>2. UNCHANGED <<cart, added, failed>>
    BY <1>0 DEF AddItemRead, EmptyCartRequest
  <2>. QED
    BY <2>1, <2>2, <1>1, OrderIsCaller, EnterTouchesOneCall DEF Inv
<1>4. OrderTypeOK'
  BY <1>1 DEF Inv, OrderTypeOK, orderVars
<1>5. \A x \in Orders : HandlerInv(x)'
  BY <1>1 DEF Inv, HandlerInv, orderVars
<1>6. \A x \in Orders : CallInv(x)'
  BY <1>1, <1>3 DEF Inv, CallInv, orderVars
<1>7. InvoiceInv'
  BY <1>1 DEF Inv, InvoiceInv, InvoiceIsWhatWasCharged, orderVars
<1>8. BillInv'
  BY <1>1, <1>3 DEF Inv, BillInv, Undisturbed, Settling, orderVars
<1>. QED
  BY <1>2, <1>4, <1>5, <1>6, <1>7, <1>8 DEF Inv

(***************************************************************************)
(* What a step of the cart service does to a call.                         *)
(***************************************************************************)
LEMMA CartServiceCalls ==
  ASSUME CartInv, CartServiceStep, NEW c \in Callers
  PROVE  \/ call'[c] = call[c]
         \/ call[c].pc \in {"write", "empty"} /\ call'[c] = [call[c] EXCEPT !.pc = "expire"]
         \/ call[c].pc \in {"write", "empty", "expire"} /\ call'[c] = NoCall
  BY DEF CartServiceStep, AddItemWrite, EmptyCartWrite, KeyExpire, CallFails,
         KeyExpires, CartInv, CartTypeOK

LEMMA CartStepBill ==
  ASSUME Inv, CartServiceStep, UNCHANGED orderVars
  PROVE  BillInv'
<1>. SUFFICES ASSUME NEW u \in Users, NEW p \in Products, Undisturbed(u)'
              PROVE  /\ billed'[u][p] =< added'[u][p]
                     /\ (\A x \in Orders : ~Settling(x, u)') =>
                           billed'[u][p] + cart'[u][p] =< added'[u][p]
  BY DEF BillInv
<1>1. billed' = billed /\ stage' = stage
  BY DEF orderVars
<1>2. Undisturbed(u)
  BY DEF Undisturbed, CartServiceStep, AddItemWrite, EmptyCartWrite, KeyExpire,
         CallFails, KeyExpires, Inv, CartInv, CartTypeOK, Calls
<1>3. /\ billed[u][p] \in Nat /\ cart[u][p] \in Nat /\ added[u][p] \in Nat
      /\ billed[u][p] =< added[u][p]
  BY <1>2 DEF Inv, CartInv, CartTypeOK, OrderTypeOK, BillInv, Carts
<1>4. ASSUME NEW c \in Callers, AddItemWrite(c)
      PROVE  /\ billed'[u][p] =< added'[u][p]
             /\ (\A x \in Orders : ~Settling(x, u)') =>
                   billed'[u][p] + cart'[u][p] =< added'[u][p]
  <2>1. /\ call[c].user \in Users /\ call[c].item \in Products
        /\ call[c].qty \in Quantities /\ call[c].qty \in Nat
        /\ call[c].seen \in Carts /\ call[c].pc = "write" /\ c \notin Orders
    BY <1>4, CartAssumption
    DEF AddItemWrite, Inv, CartInv, CartTypeOK, Calls, Quantities, CallInv
  <2>2. CASE call[c].user # u
    <3>1. cart'[u] = cart[u] /\ added'[u] = added[u]
      BY <2>1, <2>2, <1>4 DEF AddItemWrite, HashSet, Inv, CartInv, CartTypeOK
    <3>2. \A x \in Orders : Settling(x, u)' <=> Settling(x, u)
      BY <2>1, <1>1, <1>4, OrderIsCaller DEF Settling, AddItemWrite, Inv, CartInv, CartTypeOK
    <3>. QED
      BY <3>1, <3>2, <1>1, <1>2 DEF Inv, BillInv
  <2>3. CASE call[c].user = u
    <3>1. call[c].seen = cart[u] /\ \A d \in Callers : InCall(d, u) => d = c
      BY <2>1, <2>3, <1>2 DEF Inv, SerialInv, InCall, Undisturbed
    <3>2. \A x \in Orders : ~Settling(x, u)
      BY <3>1, <2>1, OrderIsCaller DEF Settling, InCall
    <3>3. billed[u][p] + cart[u][p] =< added[u][p]
      BY <3>2, <1>2 DEF Inv, BillInv
    <3>4. /\ cart'[u] = WithItem(cart[u], call[c].item, call[c].qty)
          /\ added'[u] = [added[u] EXCEPT ![call[c].item] = added[u][call[c].item] + call[c].qty]
      BY <2>1, <2>3, <3>1, <1>4 DEF AddItemWrite, HashSet, Inv, CartInv, CartTypeOK
    <3>5. cart'[u][p] - cart[u][p] = added'[u][p] - added[u][p]
          /\ cart'[u][p] \in Nat /\ added'[u][p] \in Nat /\ cart[u][p] =< cart'[u][p]
      BY <3>1, <3>4, <2>1, <1>3 DEF WithItem, Inv, CartInv, CartTypeOK, Carts
    <3>. QED
      BY <3>3, <3>5, <1>1, <1>3
  <2>. QED  BY <2>2, <2>3
<1>5. ASSUME added' = added, cart'[u][p] \in Nat, cart'[u][p] = 0 \/
               (cart'[u] = cart[u] /\ \A x \in Orders : Settling(x, u) => Settling(x, u)')
      PROVE  /\ billed'[u][p] =< added'[u][p]
             /\ (\A x \in Orders : ~Settling(x, u)') =>
                   billed'[u][p] + cart'[u][p] =< added'[u][p]
  BY <1>1, <1>2, <1>3, <1>5 DEF Inv, BillInv
<1>6. ASSUME NEW c \in Callers, EmptyCartWrite(c)
      PROVE  /\ billed'[u][p] =< added'[u][p]
             /\ (\A x \in Orders : ~Settling(x, u)') =>
                   billed'[u][p] + cart'[u][p] =< added'[u][p]
  <2>1. /\ call[c].user \in Users
        /\ cart' = [cart EXCEPT ![call[c].user] = EmptyCart] /\ added' = added
        /\ call' = [call EXCEPT ![c].pc = "expire"]
    BY <1>6 DEF EmptyCartWrite, HashSet, Inv, CartInv, CartTypeOK, Calls
  <2>2. CASE call[c].user = u
    BY <2>1, <2>2, <1>5 DEF EmptyCart, Inv, CartInv, CartTypeOK
  <2>3. CASE call[c].user # u
    <3>1. cart'[u] = cart[u]
      BY <2>1, <2>3 DEF Inv, CartInv, CartTypeOK
    <3>2. \A x \in Orders : Settling(x, u) => Settling(x, u)'
      BY <2>1, <2>3, <1>1, OrderIsCaller DEF Settling, Inv, CartInv, CartTypeOK
    <3>. QED
      BY <3>1, <3>2, <2>1, <1>3, <1>5
  <2>. QED  BY <2>2, <2>3
<1>7. ASSUME NEW c \in Callers, KeyExpire(c) \/ CallFails(c)
      PROVE  /\ billed'[u][p] =< added'[u][p]
             /\ (\A x \in Orders : ~Settling(x, u)') =>
                   billed'[u][p] + cart'[u][p] =< added'[u][p]
  <2>1. cart' = cart /\ added' = added /\ call' = [call EXCEPT ![c] = NoCall]
    BY <1>7 DEF KeyExpire, CallFails
  <2>2. call[c].pc = "expire" \/ call[c].user # u
    BY <1>7 DEF KeyExpire, CallFails, Undisturbed, Inv, CartInv, CartTypeOK, Calls
  <2>3. \A x \in Orders : Settling(x, u) => Settling(x, u)'
    BY <2>1, <2>2, <1>1, OrderIsCaller DEF Settling, Inv, CartInv, CartTypeOK
  <2>. QED
    BY <2>1, <2>3, <1>3, <1>5
<1>8. ASSUME NEW v \in Users, KeyExpires(v)
      PROVE  /\ billed'[u][p] =< added'[u][p]
             /\ (\A x \in Orders : ~Settling(x, u)') =>
                   billed'[u][p] + cart'[u][p] =< added'[u][p]
  <2>1. added' = added /\ call' = call /\ (cart'[u] = cart[u] \/ cart'[u] = EmptyCart)
    BY <1>8 DEF KeyExpires, Inv, CartInv, CartTypeOK
  <2>2. \A x \in Orders : Settling(x, u) => Settling(x, u)'
    BY <2>1, <1>1 DEF Settling
  <2>. QED
    BY <2>1, <2>2, <1>3, <1>5 DEF EmptyCart
<1>. QED
  BY <1>4, <1>6, <1>7, <1>8 DEF CartServiceStep

LEMMA CartStepInv ==
  ASSUME Inv, CartStep
  PROVE  Inv'
<1>0. CartServiceStep /\ UNCHANGED orderVars
  BY DEF CartStep
<1>1. CartInv' /\ SerialInv'
  BY <1>0, CartServiceStepInv, CartServiceStepSerial DEF Inv
<1>2. OrderTypeOK' /\ \A x \in Orders : HandlerInv(x)'
  BY <1>0 DEF Inv, OrderTypeOK, HandlerInv, orderVars
<1>3. \A x \in Orders : CallInv(x)'
  <2>. SUFFICES ASSUME NEW x \in Orders PROVE CallInv(x)'
    OBVIOUS
  <2>1. CallInv(x) /\ call[x] \in Calls /\ x \in Callers
    BY OrderIsCaller DEF Inv, CartInv, CartTypeOK
  <2>2. \/ call'[x] = call[x]
        \/ call[x].pc = "empty" /\ call'[x].pc = "expire"
        \/ call[x].pc \in {"empty", "expire"} /\ call'[x].pc = "idle"
    BY <2>1, <1>0, CartServiceCalls, NoCallType DEF Inv, CallInv, Calls
  <2>. QED
    BY <2>1, <2>2, <1>0 DEF CallInv, orderVars, Reading
<1>4. InvoiceInv'
  BY <1>0 DEF Inv, InvoiceInv, InvoiceIsWhatWasCharged, orderVars
<1>5. BillInv'
  BY <1>0, CartStepBill
<1>. QED
  BY <1>1, <1>2, <1>3, <1>4, <1>5 DEF Inv

LEMMA NextInv == Inv /\ [Next]_vars => Inv'
<1>. SUFFICES ASSUME Inv, [Next]_vars PROVE Inv'
  OBVIOUS
<1>1. ASSUME NEW o \in Orders, NEW u \in Users, ReadUserCart(o, u) PROVE Inv'
  BY <1>1, ReadUserCartInv
<1>2. ASSUME NEW o \in Orders,
             ReadFails(o) \/ PrepareFails(o) \/ ChargeFails(o) \/ ShipFails(o)
      PROVE  Inv'
  BY <1>2, ReturnErrorInv DEF ReadFails, PrepareFails, ChargeFails, ShipFails, Reading
<1>3. ASSUME NEW o \in Orders, HandlerStep(o) \/ ProducerStep(o) PROVE Inv'
  BY <1>2, <1>3, PrepareInv, ChargeInv, ChargeAnsweredInv, ShipInv, ShipAnsweredInv,
     EmptyCartAnsweredInv, SendConfirmationInv, SendToPostProcessorInv,
     LeavePostProcessorInv, AnswerInv
  DEF HandlerStep, ProducerStep
<1>4. CASE UNCHANGED vars
  <2>1. UNCHANGED cartVars /\ UNCHANGED orderVars
    BY <1>4 DEF vars
  <2>2. CartInv' /\ SerialInv'
    BY <2>1, CartUnchanged
  <2>3. OrderTypeOK' /\ InvoiceInv' /\ \A x \in Orders : HandlerInv(x)' /\ CallInv(x)'
    BY <2>1
    DEF Inv, OrderTypeOK, HandlerInv, CallInv, InvoiceInv,
        InvoiceIsWhatWasCharged, cartVars, orderVars
  <2>4. BillInv'
    BY <2>1 DEF Inv, BillInv, Undisturbed, Settling, cartVars, orderVars
  <2>. QED
    BY <2>2, <2>3, <2>4 DEF Inv
<1>. QED
  BY <1>1, <1>2, <1>3, <1>4, EmptyCartGivenUpInv, CrashInv, ShopperStepInv,
     CartStepInv DEF Next

LEMMA Invariant == Spec => []Inv
  BY InitInv, NextInv, PTL DEF Spec

--------------------------------------------------------------------------------

(***************************************************************************)
(* Every variable keeps its type.                                          *)
(***************************************************************************)
THEOREM TypeCorrect == Spec => []TypeOK
<1>1. Inv => TypeOK
  BY DEF Inv, CartInv, TypeOK
<1>. QED
  BY <1>1, Invariant, PTL

(***************************************************************************)
(* An undisturbed user is never charged for more units of a product than   *)
(* were put into the cart, and units that were paid for have left it.      *)
(***************************************************************************)
THEOREM NoUnitBilledTwiceHolds == Spec => []NoUnitBilledTwice
<1>1. Inv => NoUnitBilledTwice
  BY DEF Inv, BillInv, NoUnitBilledTwice
<1>. QED
  BY <1>1, Invariant, PTL

\* Goods that were paid for are not in the cart of an undisturbed user.
THEOREM PaidGoodsLeaveTheCartHolds == Spec => []PaidGoodsLeaveTheCart
<1>1. Inv => PaidGoodsLeaveTheCart
  BY DEF Inv, BillInv, PaidGoodsLeaveTheCart
<1>. QED
  BY <1>1, Invariant, PTL

\* The published order result is what the card was charged for.
THEOREM InvoiceHolds == Spec => []InvoiceIsWhatWasCharged
<1>1. Inv => InvoiceIsWhatWasCharged
  BY DEF Inv, InvoiceInv
<1>. QED
  BY <1>1, Invariant, PTL

\* A cart is emptied for an order only when it was charged and shipped.
THEOREM CartEmptiedOnlyForShippedGoodsHolds ==
  Spec => CartEmptiedOnlyForShippedGoods
<1>1. Inv /\ [Next]_vars =>
        [\A o \in Orders :
            call[o].pc = "empty" /\ call'[o].pc = "expire" =>
                charges[o] = 1 /\ shipments[o] = 1]_vars
  BY DEF Inv, CallInv
<1>. QED
  BY <1>1, Invariant, PTL DEF Spec, CartEmptiedOnlyForShippedGoods

--------------------------------------------------------------------------------

(***************************************************************************)
(* PlaceOrder implements OrderSaga: each step of a handler is a step of    *)
(* the saga or changes nothing the saga speaks of.                         *)
(***************************************************************************)
Told == emailed \cup {r.order : r \in outbox}

LEMMA SagaInitHolds == Init => Saga!SagaInit
  BY DEF Init, Saga!SagaInit

LEMMA SagaStutter ==
  UNCHANGED <<charges, shipments, emailed, outbox, answer>> =>
      UNCHANGED Saga!sagaVars
  BY DEF Saga!sagaVars

LEMMA SagaRefuse ==
  ASSUME Inv, NEW o \in Orders, ReturnError(o), stage[o] \in Reading \cup {"new"}
  PROVE  Saga!Refuse(o)
  BY DEF Inv, HandlerInv, ReturnError, Saga!Refuse, Saga!Open, Reading

LEMMA SagaHandler ==
  ASSUME Inv, NEW o \in Orders, HandlerStep(o) \/ ProducerStep(o)
  PROVE  [Saga!SagaNext]_(Saga!sagaVars)
<1>1. HandlerInv(o)
  BY DEF Inv
<1>2. CASE PrepareFails(o) \/ ChargeFails(o) \/ ShipFails(o)
  BY <1>2, SagaRefuse
  DEF PrepareFails, ChargeFails, ShipFails, Reading, Saga!SagaNext
<1>3. CASE \/ Prepare(o) \/ ChargeAnswered(o) \/ ShipAnswered(o)
           \/ EmptyCartAnswered(o) \/ LeavePostProcessor(o)
  BY <1>3, SagaStutter
  DEF Prepare, ChargeAnswered, ShipAnswered, EmptyCartAnswered, LeavePostProcessor
<1>4. CASE Charge(o)
  <2>1. Saga!Open(o) /\ charges[o] = 0
    BY <1>1, <1>4 DEF Charge, HandlerInv, Unpaid, Saga!Open
  <2>2. charges' = [charges EXCEPT ![o] = 1]
    BY <2>1, <1>4 DEF Charge
  <2>3. Saga!Pay(o)
    BY <2>1, <2>2, <1>4 DEF Charge, Saga!Pay
  <2>. QED  BY <2>3 DEF Saga!SagaNext
<1>5. CASE Ship(o)
  <2>1. Saga!Open(o) /\ charges[o] = 1 /\ shipments[o] = 0
    BY <1>1, <1>5 DEF Ship, HandlerInv, Unpaid, Unsent, Saga!Open
  <2>2. shipments' = [shipments EXCEPT ![o] = 1]
    BY <2>1, <1>5 DEF Ship
  <2>3. Saga!Send(o)
    BY <2>1, <2>2, <1>5 DEF Ship, Saga!Send
  <2>. QED  BY <2>3 DEF Saga!SagaNext
<1>6. CASE SendConfirmation(o)
  <2>1. /\ UNCHANGED <<charges, shipments, outbox, answer>>
        /\ emailed' = emailed \/ emailed' = emailed \cup {o}
    BY <1>6 DEF SendConfirmation
  <2>2. Saga!Open(o) /\ charges[o] = 1 /\ shipments[o] = 1
    BY <1>1, <1>6 DEF SendConfirmation, HandlerInv, Unpaid, Unsent, Saga!Open
  <2>3. CASE emailed' = emailed \cup {o}
    <3>1. Saga!Tell(o)
      BY <2>1, <2>2, <2>3 DEF Saga!Tell
    <3>. QED  BY <3>1 DEF Saga!SagaNext
  <2>. QED
    BY <2>1, <2>3, SagaStutter
<1>7. CASE SendToPostProcessor(o)
  <2>1. /\ UNCHANGED <<charges, shipments, emailed, answer>>
        /\ outbox' = outbox \cup {OrderResult(o)}
    BY <1>7 DEF SendToPostProcessor
  <2>2. Saga!Open(o) /\ charges[o] = 1 /\ shipments[o] = 1
    BY <1>1, <1>7 DEF SendToPostProcessor, HandlerInv, Unpaid, Unsent, Saga!Open
  <2>3. OrderResult(o).order = o
    BY DEF OrderResult
  <2>4. {r.order : r \in outbox'} = {r.order : r \in outbox} \cup {o}
    BY <2>1, <2>3, Zenon
  <2>5. Saga!Tell(o)
    BY <2>1, <2>2, <2>4 DEF Saga!Tell
  <2>. QED  BY <2>5 DEF Saga!SagaNext
<1>8. CASE Answer(o)
  <2>1. Saga!Confirm(o)
    BY <1>1, <1>8 DEF Answer, HandlerInv, Unpaid, Unsent, Saga!Confirm, Saga!Open
  <2>. QED  BY <2>1 DEF Saga!SagaNext
<1>. QED
  BY <1>2, <1>3, <1>4, <1>5, <1>6, <1>7, <1>8 DEF HandlerStep, ProducerStep

LEMMA SagaCrash ==
  ASSUME Inv, Crash
  PROVE  Saga!SagaNext
<1>. DEFINE lost == {o \in Orders : InHandler(o)}
<1>1. \A o \in lost : Saga!Open(o)
  BY DEF Inv, HandlerInv, InHandler, Saga!Open
<1>2. Saga!Lose(lost)
  BY <1>1 DEF Crash, Saga!Lose
<1>. QED
  BY <1>2 DEF Saga!SagaNext

LEMMA SagaStep == Inv /\ [Next]_vars => [Saga!SagaNext]_(Saga!sagaVars)
<1>. SUFFICES ASSUME Inv, [Next]_vars PROVE [Saga!SagaNext]_(Saga!sagaVars)
  OBVIOUS
<1>1. ASSUME NEW o \in Orders, ReadFails(o) PROVE Saga!SagaNext
  BY <1>1, SagaRefuse DEF ReadFails, Saga!SagaNext
<1>2. ASSUME \/ \E o \in Orders : \/ \E u \in Users : ReadUserCart(o, u)
                                  \/ EmptyCartGivenUp(o)
             \/ \E c \in Shoppers : ShopperStep(c)
             \/ CartStep
             \/ UNCHANGED vars
      PROVE  UNCHANGED Saga!sagaVars
  BY <1>2, SagaStutter
  DEF ReadUserCart, EmptyCartGivenUp, ShopperStep, CartStep, vars, orderVars
<1>. QED
  BY <1>1, <1>2, SagaHandler, SagaCrash DEF Next

(***************************************************************************)
(* For any number of concurrent orders, with lost answers and crashes:     *)
(* one charge and one shipment per order at most, in this order, and       *)
(* nobody is told of an order before both.                                 *)
(***************************************************************************)
THEOREM CheckoutImplementsOrderSaga == Spec => ImplementsOrderSaga
  BY SagaInitHolds, SagaStep, Invariant, PTL
  DEF Spec, ImplementsOrderSaga, Saga!SagaSpec

--------------------------------------------------------------------------------

(***************************************************************************)
(* What checkout does to carts on its own side: it drops calls that hold a *)
(* cart, and it calls the service.                                         *)
(***************************************************************************)
LEMMA HandlerKeepsShared ==
  ASSUME Inv, NEW o \in Orders,
         ReadFails(o) \/ HandlerStep(o) \/ ProducerStep(o) \/ EmptyCartGivenUp(o)
  PROVE  UNCHANGED Shared!sharedVars
  BY DEF HandlerStep, Prepare, PrepareFails, Charge, ChargeAnswered, ChargeFails, Ship,
         ShipAnswered, ShipFails, EmptyCartAnswered, SendConfirmation, ProducerStep,
         SendToPostProcessor, LeavePostProcessor, Answer, ReadFails,
         EmptyCartGivenUp, ReturnError,
         EmptyHeldCart, cartVars, Shared!sharedVars

LEMMA SharedCheckoutStep ==
  Inv /\ Inv' /\ [Next]_vars => [Shared!SharedNext]_(Shared!sharedVars)
<1>. SUFFICES ASSUME Inv, Inv', [Next]_vars
              PROVE  Shared!SharedNext \/ UNCHANGED Shared!sharedVars
  OBVIOUS
<1>1. CartInv /\ SerialInv /\ CartInv'
  BY DEF Inv
<1>2. ASSUME NEW o \in Orders, NEW u \in Users, ReadUserCart(o, u)
      PROVE  Shared!SharedNext \/ UNCHANGED Shared!sharedVars
  BY <1>1, <1>2, OrderIsCaller, CallIsShared DEF ReadUserCart
<1>3. ASSUME NEW c \in Shoppers, ShopperStep(c)
      PROVE  Shared!SharedNext \/ UNCHANGED Shared!sharedVars
  BY <1>1, <1>3, CallIsShared DEF ShopperStep, Shoppers
<1>4. CASE CartStep
  BY <1>1, <1>4, ServiceStepIsShared DEF CartStep
<1>5. CASE Crash \/ UNCHANGED vars
  BY <1>5 DEF Crash, vars, cartVars, Shared!sharedVars
<1>. QED
  BY <1>2, <1>3, <1>4, <1>5, HandlerKeepsShared DEF Next

(***************************************************************************)
(* Also with orders that hold carts, give calls up and die in the middle   *)
(* of them, the cart service keeps the promise of SharedCart.              *)
(***************************************************************************)
THEOREM CheckoutKeepsSharedCart == Spec => ImplementsSharedCart
<1>1. Init => Shared!SharedInit
  BY SharedInitHolds DEF Init
<1>. QED
  BY <1>1, SharedCheckoutStep, Invariant, PTL
  DEF Spec, ImplementsSharedCart, Shared!SharedSpec

--------------------------------------------------------------------------------
(* The calls of one user, as CartCalls has them *)

At(at, items) == [at |-> at, cart |-> items]

Past == {"email", "publish", "sent", "answer", "done"}

(***************************************************************************)
(* A step in which one call moves and the others stay as they are.         *)
(***************************************************************************)
LEMMA OneCallMoves ==
  ASSUME NEW u \in Users, NEW c \in Callers, NEW rec,
         \A d \in Callers \ {c} : CallOf(d, u)' = CallOf(d, u),
         CallOf(c, u)' = rec
  PROVE  CallsOf(u)!Turns(c, rec)
  BY DEF CallsOf!Turns

LEMMA NobodyMoves ==
  ASSUME NEW u \in Users, cart'[u] = cart[u],
         \A d \in Callers : CallOf(d, u)' = CallOf(d, u)
  PROVE  UNCHANGED CallsOf(u)!callVars
  BY DEF CallsOf!callVars

\* A call shows the same as long as its order does not pass the emptying.
LEMMA CallStays ==
  ASSUME NEW u \in Users, NEW d \in Callers, call'[d] = call[d],
         d \in Orders => (stage'[d] \in Past <=> stage[d] \in Past)
  PROVE  CallOf(d, u)' = CallOf(d, u)
  BY DEF CallOf, Past

\* Calls that are over, or were given up, become nobody's.
LEMMA CallsAreLost ==
  ASSUME NEW u \in Users, NEW S \in SUBSET Callers, NEW L \in SUBSET Callers,
         cart'[u] = cart[u],
         \A c \in L : CallOf(c, u).at = "ordering" /\ CallOf(c, u)' = At("late", EmptyCart),
         \A c \in S \ L : CallOf(c, u)' = At("idle", EmptyCart),
         \A c \in Callers \ (S \cup L) : CallOf(c, u)' = CallOf(c, u)
  PROVE  CallsOf(u)!CallsNext
<1>1. CallsOf(u)!Lose(S, L)
  BY DEF CallsOf!Lose, CallsOf!NoCall, CallsOf!Call, At
<1>. QED
  BY <1>1 DEF CallsOf!CallsNext

Stays(u) == [CallsOf(u)!CallsNext]_(CallsOf(u)!callVars)

LEMMA ReturnErrorCalls ==
  ASSUME Inv, NEW o \in Orders, NEW u \in Users, ReturnError(o),
         stage[o] \in Reading \cup {"new"}
  PROVE  CallsOf(u)!CallsNext
<1>1. /\ o \in Callers /\ cart' = cart
      /\ \A d \in Callers \ {o} : call'[d] = call[d]
      /\ \A d \in Orders \ {o} : stage'[d] = stage[d]
  BY OrderIsCaller DEF ReturnError, GoTo, Inv, CartInv, CartTypeOK, OrderTypeOK
<1>2. call[o].pc \in {"idle", "held"} /\ call'[o].pc = "idle"
  BY <1>1, NoCallType DEF ReturnError, Inv, CallInv, CartInv, CartTypeOK, Calls, CallStates
<1>3. CallOf(o, u)' = At("idle", EmptyCart)
  BY <1>2 DEF CallOf, At
<1>4. \A d \in Callers \ {o} : CallOf(d, u)' = CallOf(d, u)
  BY <1>1, CallStays
<1>5. CallsOf(u)!Lose({o}, {})
  BY <1>1, <1>3, <1>4 DEF CallsOf!Lose, CallsOf!NoCall, CallsOf!Call, At
<1>. QED
  BY <1>1, <1>5 DEF CallsOf!CallsNext

LEMMA HandlerCalls ==
  ASSUME Inv, NEW o \in Orders, NEW u \in Users,
         ReadFails(o) \/ HandlerStep(o) \/ ProducerStep(o) \/ EmptyCartGivenUp(o)
  PROVE  Stays(u)
<1>0. /\ o \in Callers /\ call \in [Callers -> Calls] /\ stage \in [Orders -> Stages]
      /\ CallInv(o)
  BY OrderIsCaller DEF Inv, CartInv, CartTypeOK, OrderTypeOK
<1>1. CASE ReadFails(o) \/ PrepareFails(o) \/ ChargeFails(o) \/ ShipFails(o)
  BY <1>1, ReturnErrorCalls DEF ReadFails, PrepareFails, ChargeFails, ShipFails, Reading, Stays
<1>2. CASE \/ Prepare(o) \/ Charge(o) \/ ChargeAnswered(o) \/ Ship(o)
           \/ SendConfirmation(o) \/ ProducerStep(o) \/ Answer(o)
  <2>1. cart' = cart /\ call' = call
    BY <1>2 DEF Prepare, Charge, ChargeAnswered, Ship, SendConfirmation,
                ProducerStep, SendToPostProcessor, LeavePostProcessor, Answer, cartVars
  <2>2. \A d \in Orders : stage'[d] \in Past <=> stage[d] \in Past
    BY <1>0, <1>2 DEF Prepare, Charge, ChargeAnswered, Ship, SendConfirmation,
                ProducerStep, SendToPostProcessor, LeavePostProcessor, Answer, GoTo, Past
  <2>. QED
    BY <2>1, <2>2, CallStays, NobodyMoves DEF Stays
<1>3. CASE ShipAnswered(o)
  <2>1. /\ cart' = cart /\ call[o].pc = "held" /\ call' = [call EXCEPT ![o].pc = "empty"]
        /\ stage[o] = "shipping" /\ stage' = [stage EXCEPT ![o] = "empty"]
    BY <1>3 DEF ShipAnswered, EmptyHeldCart, GoTo
  <2>2. /\ call'[o] = [call[o] EXCEPT !.pc = "empty"] /\ stage'[o] = "empty"
        /\ \A d \in Callers \ {o} : call'[d] = call[d]
        /\ \A d \in Orders \ {o} : stage'[d] = stage[d]
    BY <2>1, <1>0
  <2>3. CallOf(o, u)' = CallOf(o, u)
    BY <2>1, <2>2, <1>0 DEF CallOf, Calls
  <2>4. \A d \in Callers \ {o} : CallOf(d, u)' = CallOf(d, u)
    BY <2>2, CallStays
  <2>. QED
    BY <2>1, <2>3, <2>4, NobodyMoves DEF Stays
<1>4. CASE EmptyCartAnswered(o) \/ EmptyCartGivenUp(o)
  <2>1. /\ cart' = cart /\ call' = call
        /\ stage[o] = "empty" /\ stage' = [stage EXCEPT ![o] = "email"]
    BY <1>4 DEF EmptyCartAnswered, EmptyCartGivenUp, cartVars, GoTo
  <2>2. stage'[o] = "email" /\ \A d \in Orders \ {o} : stage'[d] = stage[d]
    BY <2>1, <1>0
  <2>3. \A d \in Callers \ {o} : CallOf(d, u)' = CallOf(d, u)
    BY <2>1, <2>2, CallStays
  <2>4. CASE call[o].user # u \/ call[o].pc # "empty"
    <3>1. call[o].user # u \/ call[o].pc \in {"idle", "expire"}
      BY <2>1, <2>4, <1>0 DEF CallInv, Calls, CallStates, Reading
    <3>2. CallOf(o, u)' = CallOf(o, u)
      BY <3>1, <2>1 DEF CallOf
    <3>. QED
      BY <3>2, <2>1, <2>3, NobodyMoves DEF Stays
  <2>5. CASE call[o].user = u /\ call[o].pc = "empty"
    <3>1. CallOf(o, u) = At("ordering", call[o].seen)
      BY <2>1, <2>5 DEF CallOf, At
    <3>2. CallOf(o, u)' = At("late", EmptyCart)
      BY <2>1, <2>2, <2>5 DEF CallOf, At
    <3>3. CallOf(o, u).at = "ordering"
      BY <3>1 DEF At
    <3>4. CallsOf(u)!Lose({}, {o})
      BY <3>2, <3>3, <2>1, <2>3, <1>0 DEF CallsOf!Lose, CallsOf!NoCall, CallsOf!Call, At
    <3>. QED
      BY <3>4, <1>0 DEF Stays, CallsOf!CallsNext
  <2>. QED  BY <2>4, <2>5
<1>. QED
  BY <1>1, <1>2, <1>3, <1>4 DEF HandlerStep, ProducerStep

LEMMA CrashCalls ==
  ASSUME Inv, NEW u \in Users, Crash
  PROVE  CallsOf(u)!CallsNext
<1>. DEFINE lost == {o \in Orders : InHandler(o)}
            S == {o \in lost : call[o].pc = "held"}
            L == {o \in lost : call[o].pc = "empty" /\ call[o].user = u
                                /\ stage[o] = "empty"}
<1>1. /\ cart' = cart
      /\ \A c \in Callers : call'[c] = IF c \in S THEN NoCall ELSE call[c]
      /\ \A o \in Orders : stage'[o] = IF o \in lost THEN "done" ELSE stage[o]
  BY DEF Crash
<1>2. S \in SUBSET Callers /\ L \in SUBSET Callers
  BY OrderIsCaller
<1>3. ASSUME NEW c \in L PROVE CallOf(c, u).at = "ordering" /\ CallOf(c, u)' = At("late", EmptyCart)
  BY <1>1, <1>2 DEF CallOf, At
<1>4. ASSUME NEW c \in S PROVE CallOf(c, u)' = At("idle", EmptyCart)
  <2>1. c \in Callers /\ call'[c] = NoCall
    BY <1>1, <1>2
  <2>2. call'[c].pc = "idle"
    BY <2>1 DEF NoCall
  <2>. QED
    BY <2>2 DEF CallOf, At
<1>5. ASSUME NEW c \in Callers \ (S \cup L) PROVE CallOf(c, u)' = CallOf(c, u)
  <2>1. call'[c] = call[c]
    BY <1>1
  <2>2. CASE c \notin lost
    BY <1>1, <2>1, <2>2, CallStays
  <2>3. CASE c \in lost
    <3>1. c \in Orders /\ CallInv(c) /\ stage[c] \in Stages /\ stage[c] \notin {"new", "done"}
          /\ call[c] \in Calls /\ stage'[c] = "done"
      BY <2>3, <1>1 DEF InHandler, Inv, CartInv, CartTypeOK, OrderTypeOK
    <3>2. CASE stage[c] \in Past
      BY <3>1, <3>2, <2>1, CallStays DEF Past
    <3>3. CASE stage[c] \notin Past
      <4>1. call[c].user # u \/ call[c].pc \in {"idle", "expire"}
        BY <3>1, <3>3, <2>3 DEF CallInv, Calls, CallStates, Stages, Past, Reading
      <4>. QED
        BY <4>1, <2>1 DEF CallOf
    <3>. QED  BY <3>2, <3>3
  <2>. QED  BY <2>2, <2>3
<1>. QED
  BY <1>1, <1>2, <1>3, <1>4, <1>5, CallsAreLost

LEMMA CallStepCalls ==
  ASSUME Inv, NEW u \in Users, NEW c \in Callers, NEW v \in Users,
         \/ c \in Orders /\ ReadUserCart(c, v)
         \/ /\ c \notin Orders /\ UNCHANGED stage
            /\ \/ \E p \in Products, q \in Quantities : AddItemRead(c, v, p, q)
               \/ EmptyCartRequest(c, v)
  PROVE  Stays(u)
<1>0. call \in [Callers -> Calls] /\ stage \in [Orders -> Stages]
  BY DEF Inv, CartInv, CartTypeOK, OrderTypeOK
<1>1. /\ cart' = cart /\ call[c].pc = "idle"
      /\ \A d \in Callers \ {c} : call'[d] = call[d]
      /\ \A d \in Orders \ {c} : stage'[d] = stage[d]
  BY <1>0 DEF ReadUserCart, AddItemRead, GetCart, EmptyCartRequest, Enter, GoTo
<1>2. \A d \in Callers \ {c} : CallOf(d, u)' = CallOf(d, u)
  BY <1>1, CallStays
<1>3. CallOf(c, u) = At("idle", EmptyCart)
  BY <1>1 DEF CallOf, At
<1>4. CASE c \in Orders /\ ReadUserCart(c, v)
  <2>1. /\ call'[c] = [NoCall EXCEPT !.pc = "held", !.user = v, !.seen = cart[v]]
        /\ stage'[c] = "prepare"
    BY <1>4, <1>0 DEF ReadUserCart, GetCart, Enter, GoTo
  <2>2. call'[c].pc = "held" /\ call'[c].user = v /\ call'[c].seen = cart[v]
    BY <2>1 DEF NoCall
  <2>3. CASE v = u
    <3>1. CallOf(c, u)' = At("ordering", cart[u])
      BY <2>1, <2>2, <2>3, <1>4 DEF CallOf, At
    <3>2. CallsOf(u)!Turns(c, CallsOf(u)!Call("ordering", cart[u]))
      BY <3>1, <1>2, OneCallMoves DEF CallsOf!Call, At
    <3>3. CallOf(c, u).at = "idle" /\ cart'[u] = cart[u]
      BY <1>1, <1>3 DEF At
    <3>4. CallsOf(u)!ReadToOrder(c)
      BY <3>2, <3>3 DEF CallsOf!ReadToOrder
    <3>. QED  BY <3>4 DEF Stays, CallsOf!CallsNext
  <2>4. CASE v # u
    <3>1. CallOf(c, u)' = CallOf(c, u)
      BY <2>2, <2>4, <1>3 DEF CallOf, At
    <3>. QED  BY <3>1, <1>1, <1>2, NobodyMoves DEF Stays
  <2>. QED  BY <2>3, <2>4
<1>5. ASSUME c \notin Orders, NEW p \in Products, NEW q \in Quantities,
             AddItemRead(c, v, p, q)
      PROVE  Stays(u)
  <2>1. call'[c].pc = "write" /\ call'[c].user = v /\ call'[c].seen = cart[v]
    BY <1>5, <1>0 DEF AddItemRead, Enter
  <2>2. CASE v = u
    <3>1. CallOf(c, u)' = At("adding", cart[u])
      BY <2>1, <2>2 DEF CallOf, At
    <3>2. CallsOf(u)!Turns(c, CallsOf(u)!Call("adding", cart[u]))
      BY <3>1, <1>2, OneCallMoves DEF CallsOf!Call, At
    <3>3. CallOf(c, u).at = "idle" /\ cart'[u] = cart[u]
      BY <1>1, <1>3 DEF At
    <3>4. CallsOf(u)!ReadToAdd(c)
      BY <3>2, <3>3 DEF CallsOf!ReadToAdd
    <3>. QED  BY <3>4 DEF Stays, CallsOf!CallsNext
  <2>3. CASE v # u
    <3>1. CallOf(c, u)' = CallOf(c, u)
      BY <2>1, <2>3, <1>3 DEF CallOf, At
    <3>. QED  BY <3>1, <1>1, <1>2, NobodyMoves DEF Stays
  <2>. QED  BY <2>2, <2>3
<1>6. CASE c \notin Orders /\ EmptyCartRequest(c, v)
  <2>1. call'[c].pc = "empty"
    BY <1>6, <1>0 DEF EmptyCartRequest, Enter, NoCall
  <2>2. CallOf(c, u)' = CallOf(c, u)
    BY <2>1, <1>3, <1>6 DEF CallOf, At
  <2>. QED  BY <2>2, <1>1, <1>2, NobodyMoves DEF Stays
<1>. QED
  BY <1>4, <1>5, <1>6

LEMMA AddItemWriteCalls ==
  ASSUME Inv, NEW u \in Users, NEW c \in Callers, AddItemWrite(c), UNCHANGED stage
  PROVE  Stays(u)
<1>0. /\ call[c] \in Calls /\ call[c].pc = "write"
      /\ cart' = [cart EXCEPT ![call[c].user] =
                               WithItem(call[c].seen, call[c].item, call[c].qty)]
      /\ cart \in [Users -> Carts]
      /\ call'[c].pc = "expire"
      /\ \A d \in Callers \ {c} : call'[d] = call[d]
  BY DEF AddItemWrite, HashSet, Inv, CartInv, CartTypeOK, Calls
<1>1. \A d \in Callers \ {c} : CallOf(d, u)' = CallOf(d, u)
  BY <1>0, CallStays
<1>2. CallOf(c, u)' = At("idle", EmptyCart)
  BY <1>0 DEF CallOf, At
<1>3. CASE call[c].user = u
  <2>1. CallOf(c, u) = At("adding", call[c].seen)
    BY <1>0, <1>3 DEF CallOf, At
  <2>. DEFINE line == <<call[c].item, call[c].qty>>
  <2>2. line \in Products \X Quantities
    BY <1>0 DEF Calls
  <2>3. cart'[u] = WithLine(call[c].seen, line)
    BY <1>0, <1>3 DEF WithLine
  <2>4. CallsOf(u)!Turns(c, CallsOf(u)!NoCall)
    BY <1>1, <1>2, OneCallMoves DEF CallsOf!NoCall, CallsOf!Call, At
  <2>5. CallOf(c, u).at = "adding" /\ CallOf(c, u).cart = call[c].seen
    BY <2>1 DEF At
  <2>. HIDE DEF line
  <2>6. CallsOf(u)!WriteAddition(c, line)
    BY <2>3, <2>4, <2>5 DEF CallsOf!WriteAddition
  <2>. QED
    BY <2>2, <2>6 DEF Stays, CallsOf!CallsNext
<1>4. CASE call[c].user # u
  <2>1. cart'[u] = cart[u] /\ CallOf(c, u) = At("idle", EmptyCart)
    BY <1>0, <1>4 DEF CallOf, At
  <2>. QED
    BY <2>1, <1>1, <1>2, NobodyMoves DEF Stays
<1>. QED
  BY <1>3, <1>4

LEMMA EmptyCartWriteCalls ==
  ASSUME Inv, NEW u \in Users, NEW c \in Callers, EmptyCartWrite(c), UNCHANGED stage
  PROVE  Stays(u)
<1>0. /\ call[c] \in Calls /\ call[c].pc = "empty"
      /\ cart' = [cart EXCEPT ![call[c].user] = EmptyCart] /\ cart \in [Users -> Carts]
      /\ call'[c].pc = "expire"
      /\ \A d \in Callers \ {c} : call'[d] = call[d]
  BY DEF EmptyCartWrite, HashSet, Inv, CartInv, CartTypeOK, Calls
<1>1. \A d \in Callers \ {c} : CallOf(d, u)' = CallOf(d, u)
  BY <1>0, CallStays
<1>2. CallOf(c, u)' = At("idle", EmptyCart)
  BY <1>0 DEF CallOf, At
<1>3. CASE call[c].user = u /\ c \in Orders
  <2>1. CallOf(c, u).at \in {"ordering", "late"} /\ cart'[u] = EmptyCart
    BY <1>0, <1>3 DEF CallOf
  <2>2. CallsOf(u)!EmptyOrdered(c)
    BY <2>1, <1>1, <1>2
    DEF CallsOf!EmptyOrdered, CallsOf!Turns, CallsOf!NoCall, CallsOf!Call, At
  <2>. QED
    BY <2>2 DEF Stays, CallsOf!CallsNext
<1>4. CASE call[c].user = u /\ c \notin Orders
  <2>1. CallOf(c, u) = At("idle", EmptyCart) /\ cart'[u] = EmptyCart
    BY <1>0, <1>4 DEF CallOf, At
  <2>2. CallsOf(u)!Empty(c)
    BY <2>1, <1>1, <1>2 DEF CallsOf!Empty, At
  <2>. QED
    BY <2>2 DEF Stays, CallsOf!CallsNext
<1>5. CASE call[c].user # u
  <2>1. cart'[u] = cart[u] /\ CallOf(c, u) = At("idle", EmptyCart)
    BY <1>0, <1>5 DEF CallOf, At
  <2>. QED
    BY <2>1, <1>1, <1>2, NobodyMoves DEF Stays
<1>. QED
  BY <1>3, <1>4, <1>5

LEMMA EndedCalls ==
  ASSUME Inv, NEW u \in Users, NEW c \in Callers, KeyExpire(c) \/ CallFails(c), UNCHANGED stage
  PROVE  Stays(u)
<1>0. cart' = cart /\ call' = [call EXCEPT ![c] = NoCall] /\ call \in [Callers -> Calls]
  BY DEF KeyExpire, CallFails, Inv, CartInv, CartTypeOK
<1>1. call'[c].pc = "idle" /\ \A d \in Callers \ {c} : call'[d] = call[d]
  BY <1>0, NoCallType
<1>2. \A d \in Callers \ {c} : CallOf(d, u)' = CallOf(d, u)
  BY <1>1, CallStays
<1>3. CallOf(c, u)' = At("idle", EmptyCart)
  BY <1>1 DEF CallOf, At
<1>4. CallsOf(u)!Lose({c}, {})
  BY <1>0, <1>2, <1>3 DEF CallsOf!Lose, CallsOf!NoCall, CallsOf!Call, At
<1>. QED
  BY <1>4 DEF Stays, CallsOf!CallsNext

LEMMA CartServiceStepCalls ==
  ASSUME Inv, NEW u \in Users, CartServiceStep, UNCHANGED stage
  PROVE  Stays(u)
<1>1. ASSUME NEW v \in Users, KeyExpires(v) PROVE Stays(u)
  <2>1. /\ call' = call /\ cart' = [cart EXCEPT ![v] = EmptyCart]
        /\ cart \in [Users -> Carts]
    BY <1>1 DEF KeyExpires, Inv, CartInv, CartTypeOK
  <2>2. \A d \in Callers : CallOf(d, u)' = CallOf(d, u)
    BY <2>1, CallStays
  <2>3. CASE v = u
    <3>1. CallsOf(u)!Expire
      BY <2>1, <2>2, <2>3 DEF CallsOf!Expire
    <3>. QED  BY <3>1 DEF Stays, CallsOf!CallsNext
  <2>4. CASE v # u
    BY <2>1, <2>2, <2>4, NobodyMoves DEF Stays
  <2>. QED  BY <2>3, <2>4
<1>. QED
  BY <1>1, AddItemWriteCalls, EmptyCartWriteCalls, EndedCalls DEF CartServiceStep

LEMMA CallsStep ==
  ASSUME NEW u \in Users
  PROVE  Inv /\ [Next]_vars => [CallsOf(u)!CallsNext]_(CallsOf(u)!callVars)
<1>. SUFFICES ASSUME Inv, [Next]_vars PROVE Stays(u)
  BY DEF Stays
<1>1. ASSUME NEW o \in Orders, NEW v \in Users, ReadUserCart(o, v) PROVE Stays(u)
  BY <1>1, OrderIsCaller, CallStepCalls
<1>2. ASSUME NEW c \in Shoppers, ShopperStep(c) PROVE Stays(u)
  BY <1>2, CallStepCalls DEF ShopperStep, Shoppers, orderVars
<1>3. CASE CartStep
  BY <1>3, CartServiceStepCalls DEF CartStep, orderVars
<1>4. CASE UNCHANGED vars
  <2>1. UNCHANGED <<cart, call, stage>>
    BY <1>4 DEF vars, cartVars, orderVars
  <2>. QED
    BY <2>1, CallStays, NobodyMoves DEF Stays
<1>. QED
  BY <1>1, <1>2, <1>3, <1>4, HandlerCalls, CrashCalls DEF Next, Stays

LEMMA CallsInitHolds ==
  ASSUME NEW u \in Users
  PROVE  Init => CallsOf(u)!CallsInit
  BY DEF Init, CartInit, NoCall, CallOf, CallsOf!CallsInit, CallsOf!NoCall, CallsOf!Call

(***************************************************************************)
(* For any number of users, orders and shoppers: what reaches the cart of  *)
(* a user is what CartCalls says, an order's one reading and at most one   *)
(* emptying, additions that write back what they read, and after an error, *)
(* a lost answer or a crash nothing but an emptying that was asked for.    *)
(***************************************************************************)
THEOREM CheckoutImplementsCartCalls == Spec => ImplementsCartCalls
<1>. SUFFICES ASSUME NEW u \in Users PROVE Spec => CallsOf(u)!CallsSpec
  BY DEF ImplementsCartCalls
<1>1. Init => CallsOf(u)!CallsInit
  BY CallsInitHolds
<1>2. Inv /\ [Next]_vars => [CallsOf(u)!CallsNext]_(CallsOf(u)!callVars)
  BY CallsStep
<1>. QED
  BY <1>1, <1>2, Invariant, PTL DEF Spec, CallsOf!CallsSpec
================================================================================
