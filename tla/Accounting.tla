-------------------------------- MODULE Accounting --------------------------------
(***************************************************************************)
(* The accounting service: one consumer of the orders topic that books     *)
(* each order in Postgres.  The Kafka client commits in the background     *)
(* whatever it has handed out, booked or not; ProcessMessage swallows      *)
(* every failure; the primary keys keep an order that comes twice from     *)
(* being booked twice.  A message is named by its offset, from 1 on.       *)
(***************************************************************************)
EXTENDS Integers, Sequences

CONSTANTS
    Orders,      \* the orders that checkout publishes
    MaxLog,      \* bound: the messages of the topic
    MaxCrashes   \* bound: the times the service dies

ASSUME AccountingAssumption ==
    MaxLog \in Nat /\ MaxCrashes \in Nat

VARIABLES
    topic,      \* the log of the orders topic, one order per message
    position,   \* the offset that Consume gives out next
    committed,  \* the offset that the group would resume from
    hand,       \* the offset of the message in ProcessMessage, 0 for none
    bookings,   \* per order, how often its rows were inserted
    dropped,    \* history: the offsets whose processing failed
    lost,       \* history: the offsets that were committed, then died with
    crashes     \* the times the service died

accountingVars == <<topic, position, committed, hand, bookings, dropped, lost,
                    crashes>>

AccountingInit ==
    /\ topic = <<>>
    /\ position = 1 /\ committed = 1 /\ hand = 0
    /\ bookings = [o \in Orders |-> 0]
    /\ dropped = {} /\ lost = {}
    /\ crashes = 0

\* A message of an order arrives; producers may send an order repeatedly.
Publish(o) ==
    /\ Len(topic) < MaxLog
    /\ topic' = Append(topic, o)
    /\ UNCHANGED <<position, committed, hand, bookings, dropped, lost, crashes>>

\* _consumer.Consume() in StartListening.
Consume ==
    /\ hand = 0 /\ position =< Len(topic)
    /\ hand' = position
    /\ position' = position + 1
    /\ UNCHANGED <<topic, committed, bookings, dropped, lost, crashes>>

\* Fault for a mutant of AutoCommit: all of the topic is committed.
CommitEnd ==
    /\ committed # position
    /\ committed' = Len(topic) + 1
    /\ UNCHANGED <<topic, position, hand, bookings, dropped, lost, crashes>>

\* EnableAutoCommit: the client commits what Consume has given out.
AutoCommit ==
    /\ committed # position
    /\ committed' = position
    /\ UNCHANGED <<topic, position, hand, bookings, dropped, lost, crashes>>

\* Fault for a mutant of Book: the tables have no primary keys.
BookAgain ==
    /\ hand # 0
    /\ bookings' = [bookings EXCEPT ![topic[hand]] = @ + 1]
    /\ hand' = 0
    /\ UNCHANGED <<topic, position, committed, dropped, lost, crashes>>

\* SaveChanges inserts the order, its lines and its shipping at once.  If its
\* answer is lost the exception is swallowed and the rows are there.
Book ==
    /\ hand # 0
    /\ bookings[topic[hand]] = 0
    /\ bookings' = [bookings EXCEPT ![topic[hand]] = @ + 1]
    /\ hand' = 0
    /\ UNCHANGED <<topic, position, committed, dropped, lost, crashes>>

\* Fault for a mutant of Refuse: the consumer seeks back to the message.
RefuseAndRetry ==
    /\ hand # 0
    /\ bookings[topic[hand]] > 0
    /\ position' = hand /\ hand' = 0
    /\ committed' = IF hand < committed THEN hand ELSE committed
    /\ UNCHANGED <<topic, bookings, dropped, lost, crashes>>

\* The order id is a primary key: SaveChanges throws, nothing is inserted.
Refuse ==
    /\ hand # 0
    /\ bookings[topic[hand]] > 0
    /\ hand' = 0
    /\ UNCHANGED <<topic, position, committed, bookings, dropped, lost, crashes>>

\* The message does not parse, or the database is not there.
Drop ==
    /\ hand # 0
    /\ dropped' = dropped \cup {hand}
    /\ hand' = 0
    /\ UNCHANGED <<topic, position, committed, bookings, lost, crashes>>

\* The process ends; a new one resumes from the committed offset, or from the
\* earliest one.  Nothing is committed on the way out: Consume takes no token
\* and the host that handles signals only runs after StartListening.
Crash ==
    /\ crashes < MaxCrashes
    /\ crashes' = crashes + 1
    /\ lost' = IF hand # 0 /\ hand < committed THEN lost \cup {hand} ELSE lost
    /\ position' = committed
    /\ hand' = 0
    /\ UNCHANGED <<topic, committed, bookings, dropped>>

ProcessMessage == Book \/ Refuse \/ Drop

AccountingNext ==
    \/ \E o \in Orders : Publish(o)
    \/ Consume \/ AutoCommit \/ ProcessMessage \/ Crash

AccountingSpec == AccountingInit /\ [][AccountingNext]_accountingVars

--------------------------------------------------------------------------------

Offsets == 1..Len(topic)

AccountingTypeOK ==
    /\ topic \in Seq(Orders)
    /\ position \in 1..(Len(topic) + 1)
    /\ committed \in 1..position
    /\ hand \in {0} \cup (1..(position - 1))
    /\ bookings \in [Orders -> Nat]
    /\ dropped \subseteq Offsets /\ lost \subseteq Offsets
    /\ crashes \in 0..MaxCrashes

\* The message at offset i has been dealt with for good.
Settled(i) == bookings[topic[i]] > 0 \/ i \in dropped \/ i \in lost

(***************************************************************************)
(* However often an order is published or delivered again after a crash,   *)
(* it is booked at most once.                                              *)
(***************************************************************************)
BookedAtMostOnce == \A o \in Orders : bookings[o] =< 1

(***************************************************************************)
(* The consumer leaves no gap behind: every message before its position    *)
(* is the one in hand, is booked, has failed to be processed, or died in   *)
(* a crash after the background commit had already counted it as done.     *)
(***************************************************************************)
NoSilentGap == \A i \in 1..(position - 1) : i = hand \/ Settled(i)

(***************************************************************************)
(* Every message of the topic is settled in the end: one that cannot be    *)
(* processed, or comes a second time, does not hold up those behind it.    *)
(***************************************************************************)
EveryMessageSettles ==
    \A i \in 1..MaxLog : i \in Offsets ~> (i \in Offsets /\ Settled(i))
================================================================================
