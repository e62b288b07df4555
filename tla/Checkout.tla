-------------------------------- MODULE Checkout --------------------------------
(***************************************************************************)
(* PlaceOrder of the checkout service over the cart service.  An order is  *)
(* one PlaceOrder handler: it reads the user's cart, prices it, charges    *)
(* the card, has the goods shipped, empties the cart, has the confirmation *)
(* mailed, hands the order to the Kafka producer and answers.  Handlers of *)
(* one user run side by side with each other and with the shoppers' calls  *)
(* on the same cart; nothing is locked, nothing is stored, nothing is      *)
(* undone.  Payment and shipping act first and answer later, so an answer  *)
(* can be lost after the act; the process can crash between any two steps  *)
(* (there is no recovery interceptor and money.Must panics).               *)
(***************************************************************************)
EXTENDS CartStore, Functions

CONSTANTS
    Orders,         \* the PlaceOrder calls; each is a caller of the cart
    Price,          \* the converted price of one unit of each product
    ShippingCosts,  \* the converted shipping costs a quote can give
    KafkaSet        \* whether KAFKA_ADDR is set

ASSUME CheckoutAssumption ==
    /\ Orders \subseteq Callers
    /\ Price \in [Products -> Nat]
    /\ ShippingCosts \subseteq Nat
    /\ KafkaSet \in BOOLEAN

VARIABLES
    stage,     \* per order, where its handler is
    prep,      \* per order, the orderPrep it works with
    charges,   \* payment: per order, the charges it executed
    amount,    \* payment: per order, the sum of its last charge
    shipments, \* shipping: per order, the shipments it accepted
    emailed,   \* e-mail: the orders a confirmation went out for
    outbox,    \* Kafka: the order results given to the producer
    answer,    \* per order, what its caller was told
    billed     \* history: per user and product, the units charged for

orderVars == <<stage, prep, charges, amount, shipments, emailed, outbox,
               answer, billed>>

vars == <<cartVars, orderVars>>

Shoppers == Callers \ Orders

Stages == {"new", "prepare", "charge", "charging", "ship", "shipping",
           "empty", "email", "publish", "sent", "answer", "done"}

Preps == [items : Carts, shipping : ShippingCosts \cup {0}]

NoPrep == [items |-> EmptyCart, shipping |-> 0]

Results == [order : Orders, items : Carts, shipping : ShippingCosts \cup {0}]

\* The sum over the lines of a cart that PlaceOrder charges for.
GoodsValue(items) == SumFunction([p \in Products |-> items[p] * Price[p]])

\* Fault for a mutant of Total: the shipping cost is left out.
GoodsOnly(pr) == GoodsValue(pr.items)

Total(pr) == pr.shipping + GoodsValue(pr.items)

OrderTypeOK ==
    /\ stage \in [Orders -> Stages]
    /\ prep \in [Orders -> Preps]
    /\ charges \in [Orders -> Nat]
    /\ DOMAIN amount = Orders
    /\ shipments \in [Orders -> Nat]
    /\ emailed \subseteq Orders
    /\ outbox \subseteq Results
    /\ answer \in [Orders -> {"none", "ok", "error", "lost"}]
    /\ billed \in [Users -> Carts]

TypeOK == CartTypeOK /\ OrderTypeOK

Init ==
    /\ CartInit
    /\ stage = [o \in Orders |-> "new"]
    /\ prep = [o \in Orders |-> NoPrep]
    /\ charges = [o \in Orders |-> 0]
    /\ amount = [o \in Orders |-> 0]
    /\ shipments = [o \in Orders |-> 0]
    /\ emailed = {}
    /\ outbox = {}
    /\ answer = [o \in Orders |-> "none"]
    /\ billed = [u \in Users |-> EmptyCart]

GoTo(o, s) == stage' = [stage EXCEPT ![o] = s]

\* Once the payment service has acted, an early exit leaves things half done.
HalfDone == {"charging", "ship", "shipping", "empty"}

\* The handler returns an error; it no longer holds the cart it read.
ReturnError(o) ==
    /\ GoTo(o, "done")
    /\ answer' = [answer EXCEPT ![o] = "error"]
    /\ IF call[o].pc = "held" THEN call' = [call EXCEPT ![o] = NoCall]
                              ELSE UNCHANGED call
    /\ failed' = IF stage[o] \in HalfDone
                 THEN [failed EXCEPT ![call[o].user] = TRUE] ELSE failed
    /\ prep' = [prep EXCEPT ![o] = NoPrep]
    /\ UNCHANGED <<cart, key, added, clean, charges, amount, shipments,
                   emailed, outbox, billed>>

(***************************************************************************)
(* prepareOrderItemsAndShippingQuoteFromCart                               *)
(***************************************************************************)

\* getUserCart answers with the cart of u.
ReadUserCart(o, u) ==
    /\ stage[o] = "new"
    /\ GetCart(o, u)
    /\ prep' = [prep EXCEPT ![o].items = cart[u]]
    /\ GoTo(o, "prepare")
    /\ UNCHANGED <<charges, amount, shipments, emailed, outbox, answer, billed>>

\* GetProduct and Convert of each line, the quote and its conversion; only
\* their answers matter.
Prepare(o) ==
    /\ stage[o] = "prepare"
    /\ \E cost \in ShippingCosts : prep' = [prep EXCEPT ![o].shipping = cost]
    /\ GoTo(o, "charge")
    /\ UNCHANGED <<cartVars, charges, amount, shipments, emailed, outbox,
                   answer, billed>>

\* No uuid or no cart.
ReadFails(o) == stage[o] = "new" /\ ReturnError(o)

\* A missing product, a failed conversion or a failed quote.
PrepareFails(o) == stage[o] = "prepare" /\ ReturnError(o)

(***************************************************************************)
(* chargeCard and shipOrder: the service acts, then the answer comes back  *)
(* or is lost.                                                             *)
(***************************************************************************)
Charge(o) ==
    LET u == call[o].user
    IN /\ stage[o] = "charge"
       /\ charges' = [charges EXCEPT ![o] = @ + 1]
       /\ amount' = [amount EXCEPT ![o] = Total(prep[o])]
       /\ billed' = [billed EXCEPT ![u] =
                       [p \in Products |-> @[p] + prep[o].items[p]]]
       /\ GoTo(o, "charging")
       /\ UNCHANGED <<cartVars, prep, shipments, emailed, outbox, answer>>

\* Fault for a mutant of ChargeAnswered: the cart is emptied once it is paid.
ChargeAnsweredEmptying(o) ==
    /\ stage[o] = "charging"
    /\ EmptyHeldCart(o)
    /\ GoTo(o, "ship")
    /\ UNCHANGED <<prep, charges, amount, shipments, emailed, outbox, answer,
                   billed>>

ChargeAnswered(o) ==
    /\ stage[o] = "charging"
    /\ GoTo(o, "ship")
    /\ UNCHANGED <<cartVars, prep, charges, amount, shipments, emailed, outbox,
                   answer, billed>>

\* The card is declined, the service is unreachable, or its answer is lost.
ChargeFails(o) ==
    /\ stage[o] \in {"charge", "charging"}
    /\ ReturnError(o)

Ship(o) ==
    /\ stage[o] = "ship"
    /\ shipments' = [shipments EXCEPT ![o] = @ + 1]
    /\ GoTo(o, "shipping")
    /\ UNCHANGED <<cartVars, prep, charges, amount, emailed, outbox, answer,
                   billed>>

\* Fault for mutants of ShipAnswered: the cart is not emptied.
ShipAnsweredKeepingCart(o) ==
    /\ stage[o] = "shipping"
    /\ Release(o)
    /\ GoTo(o, "email")
    /\ UNCHANGED <<prep, charges, amount, shipments, emailed, outbox, answer,
                   billed>>

\* With the tracking id in hand the handler asks for the cart to be emptied.
ShipAnswered(o) ==
    /\ stage[o] = "shipping"
    /\ EmptyHeldCart(o)
    /\ GoTo(o, "empty")
    /\ UNCHANGED <<prep, charges, amount, shipments, emailed, outbox, answer,
                   billed>>

\* Fault for a mutant of ShipFails: the error is logged and not returned.
ShipFailsUnreturned(o) ==
    /\ stage[o] \in {"ship", "shipping"}
    /\ Release(o)
    /\ GoTo(o, "email")
    /\ UNCHANGED <<prep, charges, amount, shipments, emailed, outbox, answer,
                   billed>>

\* No 200, no tracking id, no answer: Unavailable, and the charge stays.
ShipFails(o) ==
    /\ stage[o] \in {"ship", "shipping"}
    /\ ReturnError(o)

(***************************************************************************)
(* emptyUserCart, sendOrderConfirmation, sendToPostProcessor: none of them *)
(* stops the handler, whatever it returns.                                 *)
(***************************************************************************)

\* Fault for a mutant of EmptyCartAnswered: only success is an answer.
EmptyCartSucceeded(o) ==
    /\ stage[o] = "empty"
    /\ call[o].pc = "idle"
    /\ \A u \in Users : ~failed[u]
    /\ GoTo(o, "email")
    /\ UNCHANGED <<cartVars, prep, charges, amount, shipments, emailed, outbox,
                   answer, billed>>

EmptyCartAnswered(o) ==
    /\ stage[o] = "empty"
    /\ call[o].pc = "idle"
    /\ GoTo(o, "email")
    /\ UNCHANGED <<cartVars, prep, charges, amount, shipments, emailed, outbox,
                   answer, billed>>

\* The call fails on checkout's side while the cart service still has it.
EmptyCartGivenUp(o) ==
    /\ stage[o] = "empty"
    /\ call[o].pc # "idle"
    /\ GoTo(o, "email")
    /\ failed' = [failed EXCEPT ![call[o].user] = TRUE]
    /\ UNCHANGED <<cart, key, call, added, clean, prep, charges, amount,
                   shipments, emailed, outbox, answer, billed>>

SendConfirmation(o) ==
    /\ stage[o] = "email"
    /\ emailed' \in {emailed, emailed \cup {o}}
    /\ GoTo(o, "publish")
    /\ UNCHANGED <<cartVars, prep, charges, amount, shipments, outbox, answer,
                   billed>>

OrderResult(o) ==
    [order |-> o, items |-> prep[o].items, shipping |-> prep[o].shipping]

\* The producer takes the result; until it does the handler waits.
SendToPostProcessor(o) ==
    /\ stage[o] = "publish" /\ KafkaSet
    /\ outbox' = outbox \cup {OrderResult(o)}
    /\ GoTo(o, "sent")
    /\ UNCHANGED <<cartVars, prep, charges, amount, shipments, emailed, answer,
                   billed>>

\* The producer has answered, or the context ends, or there is no producer.
LeavePostProcessor(o) ==
    /\ stage[o] \in {"publish", "sent"}
    /\ GoTo(o, "answer")
    /\ UNCHANGED <<cartVars, prep, charges, amount, shipments, emailed, outbox,
                   answer, billed>>

Answer(o) ==
    /\ stage[o] = "answer"
    /\ answer' = [answer EXCEPT ![o] = "ok"]
    /\ GoTo(o, "done")
    /\ prep' = [prep EXCEPT ![o] = NoPrep]
    /\ UNCHANGED <<cartVars, charges, amount, shipments, emailed, outbox, billed>>

InHandler(o) == stage[o] \notin {"new", "done"}

(***************************************************************************)
(* The process dies, of a panic or from outside, and all its handlers with *)
(* it; what they had asked of the cart service goes on there.              *)
(***************************************************************************)
Crash ==
    LET lost == {o \in Orders : InHandler(o)}
        hit  == {call[o].user : o \in {l \in lost : stage[l] \in HalfDone}}
    IN /\ lost # {}
       /\ stage' = [o \in Orders |-> IF o \in lost THEN "done" ELSE stage[o]]
       /\ answer' = [o \in Orders |-> IF o \in lost THEN "lost" ELSE answer[o]]
       /\ call' = [c \in Callers |->
                     IF c \in lost /\ call[c].pc = "held" THEN NoCall ELSE call[c]]
       /\ failed' = [u \in Users |-> failed[u] \/ u \in hit]
       /\ prep' = [o \in Orders |-> IF o \in lost THEN NoPrep ELSE prep[o]]
       /\ UNCHANGED <<cart, key, added, clean, charges, amount, shipments,
                      emailed, outbox, billed>>

\* What the handler of o does next, but for what it leaves to the producer.
HandlerStep(o) ==
    \/ Prepare(o) \/ PrepareFails(o)
    \/ Charge(o) \/ ChargeAnswered(o) \/ ChargeFails(o)
    \/ Ship(o) \/ ShipAnswered(o) \/ ShipFails(o)
    \/ EmptyCartAnswered(o)
    \/ SendConfirmation(o)
    \/ Answer(o)

ProducerStep(o) == SendToPostProcessor(o) \/ LeavePostProcessor(o)

ShopperStep(c) ==
    /\ \E u \in Users :
          \/ \E p \in Products, q \in Quantities : AddItemRead(c, u, p, q)
          \/ EmptyCartRequest(c, u)
    /\ UNCHANGED orderVars

CartStep == CartServiceStep /\ UNCHANGED orderVars

Next ==
    \/ \E o \in Orders : \/ \E u \in Users : ReadUserCart(o, u)
                         \/ ReadFails(o)
                         \/ HandlerStep(o)
                         \/ ProducerStep(o)
                         \/ EmptyCartGivenUp(o)
    \/ Crash
    \/ \E c \in Shoppers : ShopperStep(c)
    \/ CartStep

Spec == Init /\ [][Next]_vars

\* The cart service finishes a call it was asked for.
FinishCall(c) ==
    /\ EmptyCartWrite(c) \/ KeyExpire(c) \/ CallFails(c)
    /\ UNCHANGED orderVars

(***************************************************************************)
(* An assumption about the services that PlaceOrder calls: they answer, or *)
(* their connections end.  Nobody sets a deadline that would make it so.   *)
(* Of the producer nothing is assumed: it may never take a message, what   *)
(* it answers may be taken by another handler (OrderPublish), and without  *)
(* a deadline the context need not end either.                             *)
(***************************************************************************)
FairSpec ==
    /\ Spec
    /\ \A o \in Orders :
          WF_vars(HandlerStep(o) \/ FinishCall(o) \/ (~KafkaSet /\ LeavePostProcessor(o)))
================================================================================
