---------------------------- MODULE PublishProperties ----------------------------
(* What handlers may expect of the producer they share. *)
EXTENDS OrderPublish

PublishTypeOK ==
    /\ pc \in [Senders -> {"off", "send", "wait", "flag", "done"}]
    /\ {inflight, successes, errors, drained} \subseteq SUBSET Senders
    /\ gaveUp \subseteq Orders
    \* A message is in one place.
    /\ inflight \cap (successes \cup errors \cup drained) = {}
    /\ successes \cap (errors \cup drained) = {} /\ errors \cap drained = {}

Waiting == {s \in Senders : pc[s] = "wait"}

(***************************************************************************)
(* Every answer that is still to come or still to be taken has someone who *)
(* waits for one, apart from those that a handler left behind when its     *)
(* context ended; and a waiter goes without an answer only when the error  *)
(* goroutine was faster.  The shared channels mix the answers up, they     *)
(* never lose or double one.                                               *)
(***************************************************************************)
AnswersBalance ==
    Cardinality(inflight) + Cardinality(successes) + Cardinality(errors)
        + Cardinality(drained)
      = Cardinality(Waiting) + Cardinality(gaveUp)

\* sarama is full, and nobody is there to take a success from it.
Wedged ==
    /\ Cardinality(inflight) = InputRoom
    /\ Cardinality(successes) = SuccessRoom
    /\ Waiting = {}

(***************************************************************************)
(* The producer only comes to a halt for good, with each later handler     *)
(* blocked in Input() until its context ends, after at least as many       *)
(* handlers have given up waiting as the producer has room for messages.   *)
(***************************************************************************)
WedgedOnlyByThoseWhoGaveUp ==
    Wedged => Cardinality(gaveUp) >= InputRoom + SuccessRoom

(***************************************************************************)
(* A handler or goroutine that waits for an answer gets one, unless the    *)
(* error goroutine has taken a failure before someone who waited for it,   *)
(* or a context has ended: only then may the answers not go round.         *)
(***************************************************************************)
WaitingEnds ==
    \A s \in Senders :
        pc[s] = "wait" ~> pc[s] # "wait" \/ drained # {} \/ gaveUp # {}
================================================================================
