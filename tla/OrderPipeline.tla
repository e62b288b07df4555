------------------------------- MODULE OrderPipeline -------------------------------
(***************************************************************************)
(* An order from its placement to the books.  Placing an order is OrderSaga *)
(* here, which PlaceOrder implements (CheckoutProperties); what it hands   *)
(* to the producer may come to the topic once, several times or never, at  *)
(* any time, also when its handler has long ended; the accounting service  *)
(* books what it finds there.                                              *)
(***************************************************************************)
EXTENDS Accounting

VARIABLES paid, sent, told, answer  \* of OrderSaga

Saga == INSTANCE OrderSaga

placingVars == <<paid, sent, told, answer>>

pipelineVars == <<accountingVars, placingVars>>

\* Fault for a mutant of Announced: orders go to Kafka when they are paid.
AnnouncedOnPayment == {o \in Orders : paid[o] = 1}

\* The orders that sendToPostProcessor may have been called with.
Announced == told

PipelineInit == AccountingInit /\ Saga!SagaInit

Placing == Saga!SagaNext /\ UNCHANGED accountingVars

Publishing == (\E o \in Announced : Publish(o)) /\ UNCHANGED placingVars

Consuming == (Consume \/ AutoCommit \/ Crash) /\ UNCHANGED placingVars

Processing == ProcessMessage /\ UNCHANGED placingVars

PipelineNext == Placing \/ Publishing \/ Consuming \/ Processing

PipelineSpec == PipelineInit /\ [][PipelineNext]_pipelineVars

\* The loop of StartListening keeps running.
FairPipelineSpec ==
    /\ PipelineSpec
    /\ WF_pipelineVars(Consume /\ UNCHANGED placingVars)
    /\ WF_pipelineVars(Processing)
--------------------------------------------------------------------------------

(***************************************************************************)
(* The books only have orders that were paid and shipped, and none that    *)
(* PlaceOrder itself answered with an error, now or later: neither a stop  *)
(* of checkout, nor messages that come late or again, nor a restart of the *)
(* accounting service brings another one there.  It says nothing of what   *)
(* a browser shows: the call of an order that was lost in a stop fails,    *)
(* and so does a page whose later calls fail, and the order may be booked. *)
(***************************************************************************)
BookedOrdersWereShipped ==
    \A o \in Orders :
        bookings[o] > 0 => paid[o] = 1 /\ sent[o] = 1 /\ answer[o] # "error"
================================================================================
