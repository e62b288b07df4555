----------------------------- MODULE AccountingProofs -----------------------------
(***************************************************************************)
(* The books, proved for every set of orders, every length of the topic    *)
(* and any number of crashes, and the way of an order to them.             *)
(***************************************************************************)
EXTENDS OrderPipeline, TLAPS

AccountingInv == AccountingTypeOK /\ BookedAtMostOnce /\ NoSilentGap

LEMMA AccountingInitInv == AccountingInit => AccountingInv
<1>. SUFFICES ASSUME AccountingInit PROVE AccountingInv
  OBVIOUS
<1>1. topic = <<>> /\ Len(topic) = 0 /\ topic \in Seq(Orders)
  BY DEF AccountingInit
<1>. QED
  BY <1>1, AccountingAssumption
  DEF AccountingInit, AccountingInv, AccountingTypeOK, BookedAtMostOnce,
      NoSilentGap, Offsets

\* What is settled stays settled when the log grows.
LEMMA AppendKeeps ==
  ASSUME NEW o \in Orders, topic \in Seq(Orders), topic' = Append(topic, o)
  PROVE  /\ topic' \in Seq(Orders)
         /\ Len(topic') = Len(topic) + 1
         /\ \A i \in 1..Len(topic) : topic'[i] = topic[i]
  OBVIOUS

LEMMA HandledType ==
  ASSUME AccountingTypeOK, hand # 0
  PROVE  hand \in 1..Len(topic) /\ topic[hand] \in Orders
  BY DEF AccountingTypeOK

LEMMA AccountingNextInv ==
  AccountingInv /\ [AccountingNext]_accountingVars => AccountingInv'
<1>. SUFFICES ASSUME AccountingInv, [AccountingNext]_accountingVars
              PROVE  AccountingInv'
  OBVIOUS
<1>. USE DEF AccountingInv, AccountingTypeOK, BookedAtMostOnce, NoSilentGap,
             Offsets
<1>0. Len(topic) \in Nat
  OBVIOUS
<1>1. CASE \E o \in Orders : Publish(o)
  <2>1. PICK o \in Orders : Publish(o)
    BY <1>1
  <2>2. /\ topic' \in Seq(Orders) /\ Len(topic') = Len(topic) + 1
        /\ \A i \in 1..Len(topic) : topic'[i] = topic[i]
    BY <2>1, AppendKeeps DEF Publish
  <2>3. AccountingTypeOK'
    BY <2>1, <2>2 DEF Publish
  <2>4. NoSilentGap'
    BY <2>1, <2>2 DEF Publish, Settled
  <2>. QED
    BY <2>1, <2>3, <2>4 DEF Publish
<1>2. CASE Consume
  BY <1>0, <1>2 DEF Consume, Settled
<1>3. CASE AutoCommit
  BY <1>3 DEF AutoCommit, Settled
<1>4. CASE Book
  <2>1. topic[hand] \in Orders
    BY <1>4, HandledType DEF Book
  <2>2. bookings' \in [Orders -> Nat] /\ \A o \in Orders : bookings'[o] >= bookings[o]
    BY <1>4, <2>1 DEF Book
  <2>3. bookings'[topic[hand]] = 1
    BY <1>4, <2>1 DEF Book
  <2>4. BookedAtMostOnce'
    BY <1>4, <2>1, <2>3 DEF Book
  <2>5. NoSilentGap'
    <3>. SUFFICES ASSUME NEW i \in 1..(position - 1) PROVE Settled(i)'
      BY <1>4 DEF Book
    <3>1. topic[i] \in Orders
      OBVIOUS
    <3>. QED
      BY <1>4, <2>1, <2>2, <2>3, <3>1 DEF Book, Settled
  <2>. QED
    BY <1>4, <2>2, <2>4, <2>5 DEF Book
<1>5. CASE Refuse
  BY <1>5 DEF Refuse, Settled
<1>6. CASE Drop
  BY <1>6, HandledType DEF Drop, Settled
<1>7. CASE Crash
  <2>1. AccountingTypeOK'
    BY <1>7, HandledType, AccountingAssumption DEF Crash
  <2>2. NoSilentGap'
    <3>. SUFFICES ASSUME NEW i \in 1..(committed - 1) PROVE Settled(i)'
      BY <1>7 DEF Crash
    <3>1. i = hand \/ Settled(i)
      OBVIOUS
    <3>2. i = hand => i \in lost'
      BY <1>7 DEF Crash
    <3>. QED
      BY <1>7, <3>1, <3>2 DEF Crash, Settled
  <2>. QED
    BY <1>7, <2>1, <2>2 DEF Crash
<1>8. CASE UNCHANGED accountingVars
  BY <1>8 DEF accountingVars, Settled
<1>. QED
  BY <1>1, <1>2, <1>3, <1>4, <1>5, <1>6, <1>7, <1>8
  DEF AccountingNext, ProcessMessage

LEMMA AccountingInvariant == AccountingSpec => []AccountingInv
  BY AccountingInitInv, AccountingNextInv, PTL DEF AccountingSpec

\* Every variable keeps its type; the commit never runs ahead of Consume.
THEOREM AccountingTypeCorrect == AccountingSpec => []AccountingTypeOK
<1>1. AccountingInv => AccountingTypeOK
  BY DEF AccountingInv
<1>. QED
  BY <1>1, AccountingInvariant, PTL

\* An order is booked at most once, whatever is delivered again.
THEOREM BookedAtMostOnceHolds == AccountingSpec => []BookedAtMostOnce
<1>1. AccountingInv => BookedAtMostOnce
  BY DEF AccountingInv
<1>. QED
  BY <1>1, AccountingInvariant, PTL

(***************************************************************************)
(* A message before the consumer's position is in hand, booked, failed, or *)
(* one that a crash caught between its commit and its booking.             *)
(***************************************************************************)
THEOREM NoSilentGapHolds == AccountingSpec => []NoSilentGap
<1>1. AccountingInv => NoSilentGap
  BY DEF AccountingInv
<1>. QED
  BY <1>1, AccountingInvariant, PTL

--------------------------------------------------------------------------------
(* From the placement of an order to the books *)

\* What OrderSaga keeps of an order that others were told of.
Placed ==
    /\ told \subseteq Orders
    /\ {paid, sent} \subseteq [Orders -> {0, 1}]
    /\ answer \in [Orders -> {"none", "ok", "error", "lost"}]
    /\ \A o \in told : paid[o] = 1 /\ sent[o] = 1 /\ answer[o] # "error"

\* Only such orders are in the topic and in the books.
FromThePlaced ==
    /\ \A i \in 1..Len(topic) : topic[i] \in told
    /\ \A o \in Orders : bookings[o] > 0 => o \in told

PipelineInv == AccountingInv /\ Placed /\ FromThePlaced

LEMMA SagaKeepsPlaced ==
  ASSUME Placed, Saga!SagaNext
  PROVE  Placed' /\ told \subseteq told'
<1>. USE DEF Placed, Saga!Open
<1>1. ASSUME NEW o \in Orders, Saga!Pay(o) \/ Saga!Send(o)
      PROVE  Placed' /\ told \subseteq told'
  BY <1>1 DEF Saga!Pay, Saga!Send
<1>2. ASSUME NEW o \in Orders, Saga!Tell(o) PROVE Placed' /\ told \subseteq told'
  BY <1>2 DEF Saga!Tell
<1>3. ASSUME NEW o \in Orders, Saga!Confirm(o) \/ Saga!Refuse(o)
      PROVE  Placed' /\ told \subseteq told'
  BY <1>3 DEF Saga!Confirm, Saga!Refuse
<1>4. ASSUME NEW S \in SUBSET Orders, Saga!Lose(S) PROVE Placed' /\ told \subseteq told'
  BY <1>4 DEF Saga!Lose
<1>. QED
  BY <1>1, <1>2, <1>3, <1>4 DEF Saga!SagaNext

\* The consumer books what it has in hand and changes nothing else of this.
LEMMA ConsumerKeepsPlaced ==
  ASSUME AccountingTypeOK, FromThePlaced, UNCHANGED placingVars,
         Consume \/ AutoCommit \/ Crash \/ ProcessMessage
  PROVE  FromThePlaced'
<1>1. CASE Book
  <2>1. topic[hand] \in told /\ topic[hand] \in Orders
    BY <1>1, HandledType DEF Book, FromThePlaced
  <2>. QED
    BY <1>1, <2>1 DEF Book, FromThePlaced, AccountingTypeOK, placingVars
<1>2. CASE Consume \/ AutoCommit \/ Crash \/ Refuse \/ Drop
  BY <1>2
  DEF FromThePlaced, placingVars, Consume, AutoCommit, Crash, Refuse, Drop
<1>. QED
  BY <1>1, <1>2 DEF ProcessMessage

LEMMA PublishKeepsPlaced ==
  ASSUME AccountingTypeOK, Placed, FromThePlaced, UNCHANGED placingVars,
         NEW o \in told, Publish(o)
  PROVE  FromThePlaced'
<1>1. /\ Len(topic') = Len(topic) + 1 /\ Len(topic) \in Nat
      /\ \A i \in 1..Len(topic) : topic'[i] = topic[i]
      /\ topic'[Len(topic) + 1] = o
  BY DEF Publish, AccountingTypeOK, Placed
<1>2. \A i \in 1..Len(topic') : i \in 1..Len(topic) \/ i = Len(topic) + 1
  BY <1>1
<1>. QED
  BY <1>1, <1>2 DEF Publish, FromThePlaced, placingVars

\* A step of the pipeline is one of the accounting service and its topic.
LEMMA PipelineStepBooks ==
  Placed /\ [PipelineNext]_pipelineVars => [AccountingNext]_accountingVars
  BY DEF Placed, PipelineNext, Placing, Publishing, Consuming, Processing, Announced,
         AccountingNext, pipelineVars

LEMMA PipelineInitInv == PipelineInit => PipelineInv
<1>. SUFFICES ASSUME PipelineInit PROVE PipelineInv
  OBVIOUS
<1>1. Placed
  BY DEF PipelineInit, Saga!SagaInit, Placed
<1>2. FromThePlaced
  BY DEF PipelineInit, AccountingInit, FromThePlaced
<1>. QED
  BY <1>1, <1>2, AccountingInitInv DEF PipelineInit, PipelineInv

LEMMA PipelineNextInv == PipelineInv /\ [PipelineNext]_pipelineVars => PipelineInv'
<1>. SUFFICES ASSUME PipelineInv, [PipelineNext]_pipelineVars PROVE PipelineInv'
  OBVIOUS
<1>1. AccountingInv'
  BY PipelineStepBooks, AccountingNextInv DEF PipelineInv
<1>2. AccountingTypeOK /\ Placed /\ FromThePlaced
  BY DEF PipelineInv, AccountingInv
<1>3. CASE Placing
  <2>1. Placed' /\ told \subseteq told'
    BY <1>2, <1>3, SagaKeepsPlaced DEF Placing
  <2>2. FromThePlaced'
    BY <1>2, <1>3, <2>1 DEF Placing, FromThePlaced, accountingVars
  <2>. QED
    BY <1>1, <2>1, <2>2 DEF PipelineInv
<1>4. CASE UNCHANGED placingVars
  <2>1. Placed'
    BY <1>2, <1>4 DEF Placed, placingVars
  <2>2. CASE Publishing
    BY <1>1, <1>2, <1>4, <2>1, <2>2, PublishKeepsPlaced
    DEF Publishing, Announced, PipelineInv
  <2>3. CASE Consuming \/ Processing
    BY <1>1, <1>2, <1>4, <2>1, <2>3, ConsumerKeepsPlaced
    DEF Consuming, Processing, PipelineInv
  <2>4. CASE UNCHANGED accountingVars
    BY <1>1, <1>2, <1>4, <2>1, <2>4
    DEF accountingVars, placingVars, FromThePlaced, PipelineInv
  <2>. QED
    BY <1>3, <2>2, <2>3, <2>4 DEF PipelineNext, pipelineVars
<1>. QED
  BY <1>3, <1>4 DEF PipelineNext, pipelineVars, Publishing, Consuming, Processing

LEMMA PipelineInvariant == PipelineSpec => []PipelineInv
  BY PipelineInitInv, PipelineNextInv, PTL DEF PipelineSpec

(***************************************************************************)
(* What is in the books was paid and shipped and never refused, for any    *)
(* number of orders, repeats, stops of checkout and of the consumer.       *)
(***************************************************************************)
THEOREM BookedOrdersWereShippedHolds == PipelineSpec => []BookedOrdersWereShipped
<1>1. PipelineInv => BookedOrdersWereShipped
  BY DEF PipelineInv, Placed, FromThePlaced, BookedOrdersWereShipped
<1>. QED
  BY <1>1, PipelineInvariant, PTL

(***************************************************************************)
(* With the placement of orders before it the accounting service behaves   *)
(* as it does by itself, so that what is proved above holds here as well.  *)
(***************************************************************************)
THEOREM PipelineKeepsTheBooks == PipelineSpec => AccountingSpec
<1>1. PipelineInit => AccountingInit
  BY DEF PipelineInit
<1>2. PipelineInv => Placed
  BY DEF PipelineInv
<1>. QED
  BY <1>1, <1>2, PipelineStepBooks, PipelineInvariant, PTL
  DEF PipelineSpec, AccountingSpec
================================================================================
