------------------------------- MODULE OrderPublish -------------------------------
(***************************************************************************)
(* How checkout hands orders to Kafka.  All PlaceOrder handlers share one  *)
(* sarama AsyncProducer: a handler puts its message into Input() and then  *)
(* takes one answer, whosever it is, from Successes() or Errors(), or      *)
(* gives up when its context ends.  A goroutine started with the producer  *)
(* takes answers from Errors() too.  With the kafkaQueueProblems flag a    *)
(* handler starts goroutines that put its message in again and each take   *)
(* one success, without a context.                                         *)
(***************************************************************************)
EXTENDS Integers, FiniteSets

CONSTANTS
    Orders,       \* the PlaceOrder handlers
    ffValue,      \* the kafkaQueueProblems flag: extra sends per handler
    InputRoom,    \* messages the producer takes in before Input() blocks
    SuccessRoom   \* answers that wait in Successes() before sarama blocks

ASSUME PublishAssumption ==
    /\ IsFiniteSet(Orders)
    /\ ffValue \in Nat
    /\ InputRoom \in Nat \ {0} /\ SuccessRoom \in Nat \ {0}

(***************************************************************************)
(* A sender is a handler (copy 0) or one of its goroutines; a sender has   *)
(* one message, so it also names the message.                              *)
(***************************************************************************)
Senders == [order : Orders, copy : 0..ffValue]

Handler(o) == [order |-> o, copy |-> 0]

Goroutines(o) == [order : {o}, copy : 1..ffValue]

VARIABLES
    pc,        \* per sender: "off", "send", "wait", "flag" or "done"
    inflight,  \* the messages that sarama has and has not answered for
    successes, \* the messages whose success waits in Successes()
    errors,    \* the messages whose failure waits in Errors()
    gaveUp,    \* history: the handlers whose context ended while they waited
    drained    \* history: the failures that the error goroutine took

publishVars == <<pc, inflight, successes, errors, gaveUp, drained>>

PublishInit ==
    /\ pc = [s \in Senders |-> IF s.copy = 0 THEN "send" ELSE "off"]
    /\ inflight = {} /\ successes = {} /\ errors = {}
    /\ gaveUp = {} /\ drained = {}

\* Input() <- msg, of a handler or of a goroutine.
Send(s) ==
    /\ pc[s] = "send"
    /\ Cardinality(inflight) < InputRoom
    /\ inflight' = inflight \cup {s}
    /\ pc' = [pc EXCEPT ![s] = "wait"]
    /\ UNCHANGED <<successes, errors, gaveUp, drained>>

\* The context ends before the producer takes the message: return.
SendCancelled(o) ==
    /\ pc[Handler(o)] = "send"
    /\ pc' = [pc EXCEPT ![Handler(o)] = "done"]
    /\ UNCHANGED <<inflight, successes, errors, gaveUp, drained>>

\* Fault for a mutant of Succeed: no answer is given for a success.
SucceedSilently(m) ==
    /\ m \in inflight
    /\ inflight' = inflight \ {m}
    /\ UNCHANGED <<pc, successes, errors, gaveUp, drained>>

\* sarama has the message on the wire; RequiredAcks is NoResponse, so that
\* alone is a success.  It waits while Successes() is full.
Succeed(m) ==
    /\ m \in inflight
    /\ Cardinality(successes) < SuccessRoom
    /\ inflight' = inflight \ {m}
    /\ successes' = successes \cup {m}
    /\ UNCHANGED <<pc, errors, gaveUp, drained>>

\* sarama gives the message up.
Fail(m) ==
    /\ m \in inflight
    /\ inflight' = inflight \ {m}
    /\ errors' = errors \cup {m}
    /\ UNCHANGED <<pc, successes, gaveUp, drained>>

\* The goroutine of CreateKafkaProducer logs a failure.
Drain(m) ==
    /\ m \in errors
    /\ errors' = errors \ {m}
    /\ drained' = drained \cup {m}
    /\ UNCHANGED <<pc, inflight, successes, gaveUp>>

\* A waiting handler takes a success.
TakeSuccess(o, m) ==
    /\ pc[Handler(o)] = "wait"
    /\ m \in successes
    /\ successes' = successes \ {m}
    /\ pc' = [pc EXCEPT ![Handler(o)] = "flag"]
    /\ UNCHANGED <<inflight, errors, gaveUp, drained>>

\* A waiting handler takes a failure.
TakeError(o, m) ==
    /\ pc[Handler(o)] = "wait"
    /\ m \in errors
    /\ errors' = errors \ {m}
    /\ pc' = [pc EXCEPT ![Handler(o)] = "flag"]
    /\ UNCHANGED <<inflight, successes, gaveUp, drained>>

\* The context ends while the handler waits; its answer stays behind.
WaitCancelled(o) ==
    /\ pc[Handler(o)] = "wait"
    /\ gaveUp' = gaveUp \cup {o}
    /\ pc' = [pc EXCEPT ![Handler(o)] = "flag"]
    /\ UNCHANGED <<inflight, successes, errors, drained>>

\* The flag is read: ffValue goroutines start, the handler returns.
Overload(o) ==
    /\ pc[Handler(o)] = "flag"
    /\ pc' = [s \in Senders |->
                IF s = Handler(o) THEN "done"
                ELSE IF s \in Goroutines(o) THEN "send" ELSE pc[s]]
    /\ UNCHANGED <<inflight, successes, errors, gaveUp, drained>>

\* Fault for mutants of GoroutineEnds: the success is left in place.
GoroutineEndsAtOnce(s, m) ==
    /\ s.copy > 0 /\ pc[s] = "wait"
    /\ m \in successes
    /\ pc' = [pc EXCEPT ![s] = "done"]
    /\ UNCHANGED <<inflight, successes, errors, gaveUp, drained>>

\* A waiting goroutine takes a success.
GoroutineEnds(s, m) ==
    /\ s.copy > 0 /\ pc[s] = "wait"
    /\ m \in successes
    /\ successes' = successes \ {m}
    /\ pc' = [pc EXCEPT ![s] = "done"]
    /\ UNCHANGED <<inflight, errors, gaveUp, drained>>

\* What an order's handler does of its own accord.
HandlerStep(o) ==
    \/ Send(Handler(o))
    \/ \E m \in successes : TakeSuccess(o, m)
    \/ \E m \in errors : TakeError(o, m)
    \/ Overload(o)

GoroutineStep(s) == Send(s) \/ \E m \in successes : GoroutineEnds(s, m)

\* What sarama does with a message.
Deliver(m) == Succeed(m) \/ Fail(m)

PublishNext ==
    \/ \E o \in Orders : HandlerStep(o) \/ SendCancelled(o) \/ WaitCancelled(o)
    \/ \E o \in Orders : \E s \in Goroutines(o) : GoroutineStep(s)
    \/ \E m \in inflight : Deliver(m)
    \/ \E m \in errors : Drain(m)

PublishSpec == PublishInit /\ [][PublishNext]_publishVars

(***************************************************************************)
(* Goroutines run, sarama works off what it has; nothing ends a context.   *)
(***************************************************************************)
FairPublishSpec ==
    /\ PublishSpec
    /\ \A o \in Orders : WF_publishVars(HandlerStep(o))
    /\ \A s \in Senders : /\ WF_publishVars(Deliver(s))
                          /\ s.copy > 0 => WF_publishVars(GoroutineStep(s))
                          /\ WF_publishVars(Drain(s))
================================================================================
