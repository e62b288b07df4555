------------------------------- MODULE OrderSaga -------------------------------
(***************************************************************************)
(* What placing an order promises, whatever fails on the way: the card is  *)
(* charged at most once and before the goods leave, the goods leave at     *)
(* most once, the customer is told of and other services learn of an order *)
(* only when it was charged and shipped, and only an order that was        *)
(* charged and shipped is answered with success.  Nothing is promised of   *)
(* an order that is not answered with success: it may have been charged,   *)
(* and shipped, and nothing ever undoes it.                                *)
(***************************************************************************)
EXTENDS Naturals

CONSTANT Orders

VARIABLES
    paid,       \* per order, how often the card was charged
    sent,       \* per order, how often its goods were shipped
    told,       \* the orders that e-mail or accounting were told of
    answer      \* per order: none yet, success, an error, or lost for ever

sagaVars == <<paid, sent, told, answer>>

SagaInit ==
    /\ paid = [o \in Orders |-> 0]
    /\ sent = [o \in Orders |-> 0]
    /\ told = {}
    /\ answer = [o \in Orders |-> "none"]

Open(o) == answer[o] = "none"

Pay(o) ==
    /\ Open(o)
    /\ paid[o] = 0
    /\ paid' = [paid EXCEPT ![o] = 1]
    /\ UNCHANGED <<sent, told, answer>>

Send(o) ==
    /\ Open(o)
    /\ paid[o] = 1 /\ sent[o] = 0
    /\ sent' = [sent EXCEPT ![o] = 1]
    /\ UNCHANGED <<paid, told, answer>>

Tell(o) ==
    /\ Open(o)
    /\ paid[o] = 1 /\ sent[o] = 1
    /\ told' = told \cup {o}
    /\ UNCHANGED <<paid, sent, answer>>

Confirm(o) ==
    /\ Open(o)
    /\ paid[o] = 1 /\ sent[o] = 1
    /\ answer' = [answer EXCEPT ![o] = "ok"]
    /\ UNCHANGED <<paid, sent, told>>

\* An order whose goods other services were told of is not refused.
Refuse(o) ==
    /\ Open(o)
    /\ o \notin told
    /\ answer' = [answer EXCEPT ![o] = "error"]
    /\ UNCHANGED <<paid, sent, told>>

\* The process that works on the open orders of S is gone.
Lose(S) ==
    /\ \A o \in S : Open(o)
    /\ answer' = [o \in Orders |-> IF o \in S THEN "lost" ELSE answer[o]]
    /\ UNCHANGED <<paid, sent, told>>

SagaNext ==
    \/ \E o \in Orders : Pay(o) \/ Send(o) \/ Tell(o) \/ Confirm(o) \/ Refuse(o)
    \/ \E S \in SUBSET Orders : Lose(S)

SagaSpec == SagaInit /\ [][SagaNext]_sagaVars
================================================================================
