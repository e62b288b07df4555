--------------------------- MODULE CheckoutProperties ---------------------------
(* What checkout and the cart service promise together. *)
EXTENDS Checkout

(***************************************************************************)
(* PlaceOrder implements OrderSaga: one charge and one shipment per order, *)
(* the shipment only after the charge, the e-mail and the Kafka message    *)
(* only after both, success only after both, and no error answer once the  *)
(* e-mail or the message is out.                                           *)
(***************************************************************************)
Saga == INSTANCE OrderSaga
            WITH paid <- charges, sent <- shipments,
                 told <- emailed \cup {r.order : r \in outbox}

ImplementsOrderSaga == Saga!SagaSpec

\* No handler is in a state in which an accident has touched this user.
Undisturbed(u) == clean[u] /\ ~failed[u]

(***************************************************************************)
(* A user whose calls never overlapped and of whose calls none was lost    *)
(* half way is never charged for more units of a product than were put     *)
(* into the cart: the cart that one order bought is gone before the next   *)
(* order reads it.                                                         *)
(***************************************************************************)
NoUnitBilledTwice ==
    \A u \in Users, p \in Products :
        Undisturbed(u) => billed[u][p] =< added[u][p]

\* The order's card was charged and its cart is not yet emptied.
Settling(o, u) ==
    stage[o] \in HalfDone /\ call[o].user = u /\ call[o].pc \in {"held", "empty"}

(***************************************************************************)
(* For such a user, and while no order is between its charge and the       *)
(* emptying of the cart, units that were paid for are no longer in the     *)
(* cart: charged and still offered units together are at most those put    *)
(* in, so a second PlaceOrder cannot buy the first one's goods again.      *)
(***************************************************************************)
PaidGoodsLeaveTheCart ==
    \A u \in Users, p \in Products :
        Undisturbed(u) /\ (\A o \in Orders : ~Settling(o, u)) =>
            billed[u][p] + cart[u][p] =< added[u][p]

(***************************************************************************)
(* An order that the post processors are told of names the lines and the   *)
(* shipping cost that the card was charged for, also when the cart changed *)
(* after the handler read it.                                              *)
(***************************************************************************)
InvoiceIsWhatWasCharged ==
    \A r \in outbox : amount[r.order] = r.shipping + GoodsValue(r.items)

(***************************************************************************)
(* Only checkout's own success path empties the cart on behalf of an       *)
(* order: a handler in the act of emptying has charged and shipped.        *)
(***************************************************************************)
CartEmptiedOnlyForShippedGoods ==
    [][\A o \in Orders :
          call[o].pc = "empty" /\ call'[o].pc = "expire" =>
              charges[o] = 1 /\ shipments[o] = 1]_vars

\* A line of u's cart, and a call as CartCalls sees it of u.
WithLine(items, line) == WithItem(items, line[1], line[2])

CallOf(c, u) ==
    LET At(at, items) == [at |-> at, cart |-> items]
    IN IF call[c].user # u \/ call[c].pc \in {"idle", "expire"} THEN At("idle", EmptyCart)
       ELSE IF call[c].pc = "write" THEN At("adding", call[c].seen)
       ELSE IF c \notin Orders THEN At("idle", EmptyCart)
       ELSE IF stage[c] \in {"email", "publish", "sent", "answer", "done"} THEN At("late", EmptyCart)
       ELSE At("ordering", call[c].seen)

CallsOf(u) == INSTANCE CartCalls
                 WITH Nothing <- EmptyCart, Items <- Products \X Quantities, With <- WithLine,
                      cart <- cart[u], call <- [c \in Callers |-> CallOf(c, u)]

(***************************************************************************)
(* For each user checkout and the cart service together are what the shop  *)
(* takes the services for: an order reads the cart once and has it emptied *)
(* at most once, an error or a stop between the two ends that, except for  *)
(* an emptying that was asked for, which may come after the answer; and of *)
(* all this other users see nothing.                                       *)
(***************************************************************************)
ImplementsCartCalls == \A u \in Users : CallsOf(u)!CallsSpec

(***************************************************************************)
(* Every order that is placed is answered, or lost in a crash, or waits    *)
(* for the Kafka producer: whatever fails before, and an emptying of the   *)
(* cart that fails or is never answered, does not hold it up, nor does     *)
(* anything once the producer has let it go.                               *)
(***************************************************************************)
EveryOrderEnds ==
    \A o \in Orders :
        InHandler(o) ~> \/ stage[o] = "done"
                        \/ KafkaSet /\ stage[o] \in {"publish", "sent"}
================================================================================
