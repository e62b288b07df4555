------------------------------ MODULE KafkaProofs ------------------------------
(***************************************************************************)
(* The two ends of the orders topic that count: the balance of messages    *)
(* and answers at checkout's shared producer, for any number of handlers   *)
(* and goroutines and any room in the channels, and the consumer of        *)
(* fraud-detection, which passes over no order, for any batch size, poll   *)
(* interval, length of the topic and number of restarts.                   *)
(***************************************************************************)
EXTENDS PublishProperties, FraudDetection, FiniteSetTheorems, TLAPS

--------------------------------------------------------------------------------
(* OrderPublish *)

\* Finite sets change size by one.
LEMMA Grows ==
  ASSUME NEW S, NEW x, IsFiniteSet(S), x \notin S
  PROVE  IsFiniteSet(S \cup {x}) /\ Cardinality(S \cup {x}) = Cardinality(S) + 1
  BY FS_AddElement

LEMMA Shrinks ==
  ASSUME NEW S, NEW x, IsFiniteSet(S), x \in S
  PROVE  IsFiniteSet(S \ {x}) /\ Cardinality(S \ {x}) = Cardinality(S) - 1
  BY FS_RemoveElement

\* A message that was taken in belongs to a sender that has sent; a handler
\* that gave up waits no more; goroutines start when their handler is done.
Progress ==
    /\ \A m \in inflight \cup successes \cup errors \cup drained :
          pc[m] \notin {"off", "send"}
    /\ \A o \in gaveUp : pc[Handler(o)] \in {"flag", "done"}
    /\ \A o \in Orders : pc[Handler(o)] # "done" =>
          \A s \in Goroutines(o) : pc[s] = "off"

AllFinite ==
    /\ IsFiniteSet(inflight) /\ IsFiniteSet(successes) /\ IsFiniteSet(errors)
    /\ IsFiniteSet(drained) /\ IsFiniteSet(Waiting) /\ IsFiniteSet(gaveUp)

PublishInv == PublishTypeOK /\ Progress /\ AllFinite /\ AnswersBalance

LEMMA SenderFacts ==
  /\ \A o \in Orders : Handler(o) \in Senders /\ Handler(o) \notin Goroutines(o)
  /\ \A o \in Orders : Goroutines(o) \subseteq Senders
  /\ \A o, r \in Orders : Handler(o) = Handler(r) => o = r
  /\ \A o, r \in Orders : Handler(o) \notin Goroutines(r)
  /\ \A o \in Orders : \A s \in Goroutines(o) : s.copy > 0
  /\ \A o \in Orders : Handler(o).copy = 0
  BY PublishAssumption DEF Handler, Goroutines, Senders

LEMMA PublishInitInv == PublishInit => PublishInv
<1>. SUFFICES ASSUME PublishInit PROVE PublishInv
  OBVIOUS
<1>1. Waiting = {}
  BY DEF PublishInit, Waiting
<1>2. PublishTypeOK
  BY DEF PublishInit, PublishTypeOK
<1>3. \A o \in Orders : \A s \in Goroutines(o) : pc[s] = "off"
  BY SenderFacts DEF PublishInit
<1>4. Progress
  BY <1>3 DEF PublishInit, Progress
<1>5. AllFinite /\ AnswersBalance
  BY <1>1, FS_EmptySet DEF PublishInit, AllFinite, AnswersBalance
<1>. QED
  BY <1>2, <1>4, <1>5 DEF PublishInv

LEMMA CountTypes ==
  ASSUME AllFinite
  PROVE  /\ Cardinality(inflight) \in Nat /\ Cardinality(successes) \in Nat
         /\ Cardinality(errors) \in Nat /\ Cardinality(drained) \in Nat
         /\ Cardinality(Waiting) \in Nat /\ Cardinality(gaveUp) \in Nat
  BY FS_CardinalityType DEF AllFinite

--------------------------------------------------------------------------------
(* One lemma per action. *)

LEMMA SendKeeps ==
  ASSUME PublishInv, NEW s \in Senders, Send(s)
  PROVE  PublishInv'
<1>. USE DEF PublishInv
<1>1. s \notin inflight /\ s \notin successes /\ s \notin errors /\ s \notin drained
  BY DEF Send, Progress
<1>2. PublishTypeOK'
  BY <1>1 DEF Send, PublishTypeOK
<1>3. Progress'
  BY SenderFacts DEF Send, PublishTypeOK, Progress
<1>4. Waiting' = Waiting \cup {s} /\ s \notin Waiting
  BY DEF Send, Waiting, PublishTypeOK
<1>5. IsFiniteSet(inflight') /\ Cardinality(inflight') = Cardinality(inflight) + 1
  <2>1. IsFiniteSet(inflight) /\ inflight' = inflight \cup {s}
    BY DEF AllFinite, Send
  <2>. QED
    BY <2>1, <1>1, Grows
<1>6. IsFiniteSet(Waiting') /\ Cardinality(Waiting') = Cardinality(Waiting) + 1
  <2>1. IsFiniteSet(Waiting) /\ Waiting' = Waiting \cup {s}
    BY <1>4 DEF AllFinite
  <2>. QED
    BY <2>1, <1>4, Grows
<1>7. UNCHANGED <<successes, errors, drained, gaveUp>>
  BY DEF Send
<1>8. AllFinite' /\ AnswersBalance'
  BY <1>5, <1>6, <1>7, CountTypes DEF AllFinite, AnswersBalance
<1>. QED
  BY <1>2, <1>3, <1>8

LEMMA SendCancelledKeeps ==
  ASSUME PublishInv, NEW o \in Orders, SendCancelled(o)
  PROVE  PublishInv'
<1>. USE DEF PublishInv
<1>1. PublishTypeOK' /\ Progress'
  BY SenderFacts DEF SendCancelled, PublishTypeOK, Progress
<1>2. Waiting' = Waiting
  BY SenderFacts DEF SendCancelled, Waiting, PublishTypeOK
<1>. QED
  BY <1>1, <1>2 DEF SendCancelled, AllFinite, AnswersBalance

LEMMA SucceedKeeps ==
  ASSUME PublishInv, NEW m \in inflight, Succeed(m)
  PROVE  PublishInv'
<1>. USE DEF PublishInv
<1>1. PublishTypeOK' /\ Progress'
  BY DEF Succeed, PublishTypeOK, Progress
<1>2. Waiting' = Waiting /\ m \notin successes
  BY DEF Succeed, Waiting, PublishTypeOK
<1>3. IsFiniteSet(inflight') /\ Cardinality(inflight') = Cardinality(inflight) - 1
  <2>1. IsFiniteSet(inflight) /\ inflight' = inflight \ {m}
    BY DEF AllFinite, Succeed
  <2>. QED
    BY <2>1, Shrinks
<1>4. IsFiniteSet(successes') /\ Cardinality(successes') = Cardinality(successes) + 1
  <2>1. IsFiniteSet(successes) /\ successes' = successes \cup {m}
    BY DEF AllFinite, Succeed
  <2>. QED
    BY <2>1, <1>2, Grows
<1>5. UNCHANGED <<errors, drained, Waiting, gaveUp>>
  BY <1>2 DEF Succeed
<1>6. AllFinite' /\ AnswersBalance'
  BY <1>3, <1>4, <1>5, CountTypes DEF AllFinite, AnswersBalance
<1>. QED
  BY <1>1, <1>6

LEMMA FailKeeps ==
  ASSUME PublishInv, NEW m \in inflight, Fail(m)
  PROVE  PublishInv'
<1>. USE DEF PublishInv
<1>1. PublishTypeOK' /\ Progress'
  BY DEF Fail, PublishTypeOK, Progress
<1>2. Waiting' = Waiting /\ m \notin errors
  BY DEF Fail, Waiting, PublishTypeOK
<1>3. IsFiniteSet(inflight') /\ Cardinality(inflight') = Cardinality(inflight) - 1
  <2>1. IsFiniteSet(inflight) /\ inflight' = inflight \ {m}
    BY DEF AllFinite, Fail
  <2>. QED
    BY <2>1, Shrinks
<1>4. IsFiniteSet(errors') /\ Cardinality(errors') = Cardinality(errors) + 1
  <2>1. IsFiniteSet(errors) /\ errors' = errors \cup {m}
    BY DEF AllFinite, Fail
  <2>. QED
    BY <2>1, <1>2, Grows
<1>5. UNCHANGED <<successes, drained, Waiting, gaveUp>>
  BY <1>2 DEF Fail
<1>6. AllFinite' /\ AnswersBalance'
  BY <1>3, <1>4, <1>5, CountTypes DEF AllFinite, AnswersBalance
<1>. QED
  BY <1>1, <1>6

LEMMA DrainKeeps ==
  ASSUME PublishInv, NEW m \in errors, Drain(m)
  PROVE  PublishInv'
<1>. USE DEF PublishInv
<1>1. PublishTypeOK' /\ Progress'
  BY DEF Drain, PublishTypeOK, Progress
<1>2. Waiting' = Waiting /\ m \notin drained
  BY DEF Drain, Waiting, PublishTypeOK
<1>3. IsFiniteSet(errors') /\ Cardinality(errors') = Cardinality(errors) - 1
  <2>1. IsFiniteSet(errors) /\ errors' = errors \ {m}
    BY DEF AllFinite, Drain
  <2>. QED
    BY <2>1, Shrinks
<1>4. IsFiniteSet(drained') /\ Cardinality(drained') = Cardinality(drained) + 1
  <2>1. IsFiniteSet(drained) /\ drained' = drained \cup {m}
    BY DEF AllFinite, Drain
  <2>. QED
    BY <2>1, <1>2, Grows
<1>5. UNCHANGED <<inflight, successes, Waiting, gaveUp>>
  BY <1>2 DEF Drain
<1>6. AllFinite' /\ AnswersBalance'
  BY <1>3, <1>4, <1>5, CountTypes DEF AllFinite, AnswersBalance
<1>. QED
  BY <1>1, <1>6

\* A waiting sender stops to wait and goes to a state in which it has sent.
LEMMA StopsWaiting ==
  ASSUME PublishInv, NEW s \in Senders, pc[s] = "wait",
         NEW to \in {"flag", "done"}, pc' = [pc EXCEPT ![s] = to]
  PROVE  Waiting' = Waiting \ {s} /\ s \in Waiting
  BY DEF PublishInv, PublishTypeOK, Waiting

LEMMA TakeSuccessKeeps ==
  ASSUME PublishInv, NEW o \in Orders, NEW m \in successes, TakeSuccess(o, m)
  PROVE  PublishInv'
<1>. USE DEF PublishInv
<1>1. PublishTypeOK' /\ Progress'
  BY SenderFacts DEF TakeSuccess, PublishTypeOK, Progress
<1>2. Waiting' = Waiting \ {Handler(o)} /\ Handler(o) \in Waiting
  BY SenderFacts, StopsWaiting DEF TakeSuccess
<1>3. IsFiniteSet(successes') /\ Cardinality(successes') = Cardinality(successes) - 1
  <2>1. IsFiniteSet(successes) /\ successes' = successes \ {m}
    BY DEF AllFinite, TakeSuccess
  <2>. QED
    BY <2>1, Shrinks
<1>4. IsFiniteSet(Waiting') /\ Cardinality(Waiting') = Cardinality(Waiting) - 1
  <2>1. IsFiniteSet(Waiting) /\ Waiting' = Waiting \ {Handler(o)}
    BY <1>2 DEF AllFinite
  <2>. QED
    BY <2>1, <1>2, Shrinks
<1>5. UNCHANGED <<inflight, errors, drained, gaveUp>>
  BY DEF TakeSuccess
<1>6. AllFinite' /\ AnswersBalance'
  BY <1>3, <1>4, <1>5, CountTypes DEF AllFinite, AnswersBalance
<1>. QED
  BY <1>1, <1>6

LEMMA TakeErrorKeeps ==
  ASSUME PublishInv, NEW o \in Orders, NEW m \in errors, TakeError(o, m)
  PROVE  PublishInv'
<1>. USE DEF PublishInv
<1>1. PublishTypeOK' /\ Progress'
  BY SenderFacts DEF TakeError, PublishTypeOK, Progress
<1>2. Waiting' = Waiting \ {Handler(o)} /\ Handler(o) \in Waiting
  BY SenderFacts, StopsWaiting DEF TakeError
<1>3. IsFiniteSet(errors') /\ Cardinality(errors') = Cardinality(errors) - 1
  <2>1. IsFiniteSet(errors) /\ errors' = errors \ {m}
    BY DEF AllFinite, TakeError
  <2>. QED
    BY <2>1, Shrinks
<1>4. IsFiniteSet(Waiting') /\ Cardinality(Waiting') = Cardinality(Waiting) - 1
  <2>1. IsFiniteSet(Waiting) /\ Waiting' = Waiting \ {Handler(o)}
    BY <1>2 DEF AllFinite
  <2>. QED
    BY <2>1, <1>2, Shrinks
<1>5. UNCHANGED <<inflight, successes, drained, gaveUp>>
  BY DEF TakeError
<1>6. AllFinite' /\ AnswersBalance'
  BY <1>3, <1>4, <1>5, CountTypes DEF AllFinite, AnswersBalance
<1>. QED
  BY <1>1, <1>6

LEMMA WaitCancelledKeeps ==
  ASSUME PublishInv, NEW o \in Orders, WaitCancelled(o)
  PROVE  PublishInv'
<1>. USE DEF PublishInv
<1>1. PublishTypeOK' /\ Progress'
  BY SenderFacts DEF WaitCancelled, PublishTypeOK, Progress
<1>2. Waiting' = Waiting \ {Handler(o)} /\ Handler(o) \in Waiting
  BY SenderFacts, StopsWaiting DEF WaitCancelled
<1>3. o \notin gaveUp
  BY DEF WaitCancelled, Progress
<1>4. IsFiniteSet(gaveUp') /\ Cardinality(gaveUp') = Cardinality(gaveUp) + 1
  <2>1. IsFiniteSet(gaveUp) /\ gaveUp' = gaveUp \cup {o}
    BY DEF AllFinite, WaitCancelled
  <2>. QED
    BY <2>1, <1>3, Grows
<1>5. IsFiniteSet(Waiting') /\ Cardinality(Waiting') = Cardinality(Waiting) - 1
  <2>1. IsFiniteSet(Waiting) /\ Waiting' = Waiting \ {Handler(o)}
    BY <1>2 DEF AllFinite
  <2>. QED
    BY <2>1, <1>2, Shrinks
<1>6. UNCHANGED <<inflight, successes, errors, drained>>
  BY DEF WaitCancelled
<1>7. AllFinite' /\ AnswersBalance'
  BY <1>4, <1>5, <1>6, CountTypes DEF AllFinite, AnswersBalance
<1>. QED
  BY <1>1, <1>7

LEMMA OverloadKeeps ==
  ASSUME PublishInv, NEW o \in Orders, Overload(o)
  PROVE  PublishInv'
<1>. USE DEF PublishInv
<1>1. \A s \in Goroutines(o) : pc[s] = "off"
  BY SenderFacts DEF Overload, Progress
<1>2. PublishTypeOK'
  BY DEF Overload, PublishTypeOK
<1>3. Progress'
  <2>1. \A m \in inflight \cup successes \cup errors \cup drained :
           m \in Senders /\ m \notin Goroutines(o)
    BY <1>1 DEF Progress, PublishTypeOK
  <2>2. \A r \in Orders \ {o} :
           /\ pc'[Handler(r)] = pc[Handler(r)]
           /\ \A s \in Goroutines(r) : pc'[s] = pc[s]
    BY SenderFacts DEF Overload, Goroutines, Handler, PublishTypeOK
  <2>3. pc'[Handler(o)] = "done"
    BY SenderFacts DEF Overload
  <2>. QED
    BY <2>1, <2>2, <2>3 DEF Overload, Progress, PublishTypeOK
<1>4. Waiting' = Waiting
  BY <1>1, SenderFacts DEF Overload, Waiting, PublishTypeOK
<1>. QED
  BY <1>2, <1>3, <1>4 DEF Overload, AllFinite, AnswersBalance

LEMMA GoroutineEndsKeeps ==
  ASSUME PublishInv, NEW s \in Senders, NEW m \in successes, GoroutineEnds(s, m)
  PROVE  PublishInv'
<1>. USE DEF PublishInv
<1>1. PublishTypeOK'
  BY DEF GoroutineEnds, PublishTypeOK
<1>2. \A o \in Orders : s # Handler(o)
  BY SenderFacts DEF GoroutineEnds
<1>3. Progress'
  BY <1>2, SenderFacts DEF GoroutineEnds, PublishTypeOK, Progress
<1>4. Waiting' = Waiting \ {s} /\ s \in Waiting
  BY StopsWaiting DEF GoroutineEnds
<1>5. IsFiniteSet(successes') /\ Cardinality(successes') = Cardinality(successes) - 1
  <2>1. IsFiniteSet(successes) /\ successes' = successes \ {m}
    BY DEF AllFinite, GoroutineEnds
  <2>. QED
    BY <2>1, Shrinks
<1>6. IsFiniteSet(Waiting') /\ Cardinality(Waiting') = Cardinality(Waiting) - 1
  <2>1. IsFiniteSet(Waiting) /\ Waiting' = Waiting \ {s}
    BY <1>4 DEF AllFinite
  <2>. QED
    BY <2>1, <1>4, Shrinks
<1>7. UNCHANGED <<inflight, errors, drained, gaveUp>>
  BY DEF GoroutineEnds
<1>8. AllFinite' /\ AnswersBalance'
  BY <1>5, <1>6, <1>7, CountTypes DEF AllFinite, AnswersBalance
<1>. QED
  BY <1>1, <1>3, <1>8

LEMMA PublishNextInv == PublishInv /\ [PublishNext]_publishVars => PublishInv'
<1>. SUFFICES ASSUME PublishInv, [PublishNext]_publishVars PROVE PublishInv'
  OBVIOUS
<1>1. CASE \E o \in Orders : HandlerStep(o) \/ SendCancelled(o) \/ WaitCancelled(o)
  BY <1>1, SenderFacts, SendKeeps, TakeSuccessKeeps, TakeErrorKeeps,
     OverloadKeeps, SendCancelledKeeps, WaitCancelledKeeps
  DEF HandlerStep
<1>2. CASE \E o \in Orders : \E s \in Goroutines(o) : GoroutineStep(s)
  BY <1>2, SenderFacts, SendKeeps, GoroutineEndsKeeps DEF GoroutineStep
<1>3. CASE \E m \in inflight : Deliver(m)
  BY <1>3, SucceedKeeps, FailKeeps DEF Deliver
<1>4. CASE \E m \in errors : Drain(m)
  BY <1>4, DrainKeeps
<1>5. CASE UNCHANGED publishVars
  BY <1>5
  DEF publishVars, PublishInv, PublishTypeOK, Progress, AllFinite,
      AnswersBalance, Waiting
<1>. QED
  BY <1>1, <1>2, <1>3, <1>4, <1>5 DEF PublishNext

LEMMA PublishInvariant == PublishSpec => []PublishInv
  BY PublishInitInv, PublishNextInv, PTL DEF PublishSpec

--------------------------------------------------------------------------------

(***************************************************************************)
(* A message is in one place at a time: under way, in Successes(), in      *)
(* Errors() or taken by the error goroutine.                               *)
(***************************************************************************)
THEOREM PublishTypeCorrect == PublishSpec => []PublishTypeOK
<1>1. PublishInv => PublishTypeOK
  BY DEF PublishInv
<1>. QED
  BY <1>1, PublishInvariant, PTL

(***************************************************************************)
(* Answers to come, to be taken and taken by the error goroutine are as    *)
(* many as the senders that wait and the handlers that gave up waiting.    *)
(***************************************************************************)
THEOREM AnswersBalanceHolds == PublishSpec => []AnswersBalance
<1>1. PublishInv => AnswersBalance
  BY DEF PublishInv
<1>. QED
  BY <1>1, PublishInvariant, PTL

(***************************************************************************)
(* The producer only comes to a halt after as many handlers have given up  *)
(* as it has room for messages.                                            *)
(***************************************************************************)
THEOREM WedgedOnlyByThoseWhoGaveUpHolds ==
  PublishSpec => []WedgedOnlyByThoseWhoGaveUp
<1>1. PublishInv => WedgedOnlyByThoseWhoGaveUp
  BY CountTypes, FS_EmptySet, PublishAssumption
  DEF PublishInv, WedgedOnlyByThoseWhoGaveUp, Wedged, AnswersBalance
<1>. QED
  BY <1>1, PublishInvariant, PTL

--------------------------------------------------------------------------------
(* FraudDetection: with the order of the offsets in FraudTypeOK the claim is *)
(* inductive.                                                                *)

\* What is left of the type correctness when the numbers of the restarts and
\* of slow records, which play no part, are left aside.
PlacesOK ==
    /\ log \in Seq({"order", "poison"})
    /\ committed \in Nat /\ next \in Nat /\ position \in Nat
    /\ next = 0 => position = 0 /\ member = FALSE
    /\ committed =< next /\ next =< position /\ position =< Len(log) + 1
    /\ position - next =< BatchMax
    /\ counted \subseteq 1..Len(log)

FraudInv == PlacesOK /\ NoOrderPassedOver

USE FraudAssumption

LEMMA FraudInitInv == FraudInit => FraudInv
  BY DEF FraudInit, FraudInv, PlacesOK, NoOrderPassedOver, Offsets

\* An appended record leaves those before it where they are.
LEMMA ArriveKeeps ==
  ASSUME FraudInv, NEW kind \in {"order", "poison"}, Arrive(kind)
  PROVE  FraudInv'
<1>1. /\ log' \in Seq({"order", "poison"}) /\ Len(log') = Len(log) + 1
      /\ \A i \in 1..Len(log) : log'[i] = log[i]
  BY DEF FraudInv, PlacesOK, Arrive
<1>2. PlacesOK'
  BY <1>1 DEF FraudInv, PlacesOK, Arrive
<1>3. NoOrderPassedOver'
  <2>1. SUFFICES ASSUME NEW i \in Offsets', i < next', log'[i] = "order"
                 PROVE  i \in counted' \/ i < began' \/ BehindPoison(i)'
    BY DEF NoOrderPassedOver
  <2>2. i \in Offsets /\ i < next /\ log[i] = "order"
    BY <1>1, <2>1 DEF FraudInv, PlacesOK, Arrive, Offsets
  <2>3. CASE i \in counted \/ i < began
    BY <2>3 DEF Arrive
  <2>4. CASE BehindPoison(i)
    BY <1>1, <2>4 DEF FraudInv, PlacesOK, BehindPoison, Offsets
  <2>. QED
    BY <2>2, <2>3, <2>4 DEF FraudInv, NoOrderPassedOver
<1>. QED
  BY <1>2, <1>3 DEF FraudInv

\* A process that starts over at an offset the fold was already past.
LEMMA FallingBackKeeps ==
  ASSUME FraudInv, UNCHANGED <<log, counted, began, committed>>,
         position' = committed, next' = committed, committed = 0 => member' = FALSE
  PROVE  FraudInv'
  BY DEF FraudInv, PlacesOK, NoOrderPassedOver, BehindPoison, Offsets

\* Where a service begins that never committed is where it began.
LEMMA JoinKeeps ==
  ASSUME FraudInv, Join
  PROVE  FraudInv'
<1>1. CASE committed = 0
  BY <1>1 DEF Join, Start, FraudInv, PlacesOK, NoOrderPassedOver, Offsets
<1>2. CASE committed # 0
  BY <1>2, FallingBackKeeps DEF Join, Start
<1>. QED
  BY <1>1, <1>2

LEMMA PollKeeps ==
  ASSUME FraudInv, Poll
  PROVE  FraudInv'
<1>1. PICK end \in position..(Len(log) + 1) :
         /\ end - position =< BatchMax
         /\ committed' \in {committed, position}
         /\ position' = end
  BY DEF Poll, AutoCommitted
<1>2. next = position /\ member /\ UNCHANGED <<log, next, counted, began, member>>
  BY DEF Poll, BatchDone
<1>. QED
  BY <1>1, <1>2 DEF FraudInv, PlacesOK, NoOrderPassedOver, BehindPoison, Offsets

LEMMA CountKeeps ==
  ASSUME FraudInv, Count
  PROVE  FraudInv'
<1>1. next < position /\ next \in 1..Len(log)
  BY DEF FraudInv, PlacesOK, Count, BatchDone
<1>2. PlacesOK'
  BY <1>1 DEF FraudInv, PlacesOK, Count
<1>3. NoOrderPassedOver'
  BY <1>1 DEF FraudInv, PlacesOK, Count, NoOrderPassedOver, BehindPoison, Offsets
<1>. QED
  BY <1>2, <1>3 DEF FraudInv

\* What a closing consumer commits unseen is in a batch behind the poison.
LEMMA PoisonedKeeps ==
  ASSUME FraudInv, Poisoned
  PROVE  FraudInv'
<1>1. next < position /\ next \in 1..Len(log) /\ log[next] = "poison"
  BY DEF FraudInv, PlacesOK, Poisoned, BatchDone
<1>2. UNCHANGED <<log, counted, began>> /\ member' = FALSE
  BY DEF Poisoned, RestartFrom
<1>3. CASE ~member
  BY <1>3, <1>2, FallingBackKeeps DEF Poisoned, RestartFrom
<1>4. CASE member
  <2>1. committed' = position /\ position' = position /\ next' = position
    BY <1>4 DEF Poisoned, RestartFrom
  <2>2. PlacesOK'
    BY <1>1, <1>2, <2>1 DEF FraudInv, PlacesOK
  <2>3. \A i \in Offsets : i < position /\ next =< i => BehindPoison(i)
    BY <1>1 DEF FraudInv, PlacesOK, BehindPoison, Offsets
  <2>4. NoOrderPassedOver'
    BY <1>2, <2>1, <2>3
    DEF FraudInv, PlacesOK, NoOrderPassedOver, BehindPoison, Offsets
  <2>. QED
    BY <2>2, <2>4 DEF FraudInv
<1>. QED
  BY <1>3, <1>4

LEMMA FraudNextInv == FraudInv /\ [FraudNext]_fraudVars => FraudInv'
<1>. SUFFICES ASSUME FraudInv, [FraudNext]_fraudVars PROVE FraudInv'
  OBVIOUS
<1>1. CASE \E kind \in {"order", "poison"} : Arrive(kind)
  BY <1>1, ArriveKeeps
<1>2. CASE Poll
  BY <1>2, PollKeeps
<1>3. CASE Count
  BY <1>3, CountKeeps
<1>4. CASE Poisoned
  BY <1>4, PoisonedKeeps
<1>5. CASE Join
  BY <1>5, JoinKeeps
<1>6. CASE Killed
  BY <1>6, FallingBackKeeps DEF Killed, RestartFrom
<1>7. CASE TurnFlag \/ PutOut \/ UNCHANGED fraudVars
  <2>1. /\ UNCHANGED <<log, position, committed, began, next, counted>>
        /\ next = 0 => member' = FALSE
    BY <1>7 DEF TurnFlag, PutOut, fraudVars, FraudInv, PlacesOK
  <2>. QED
    BY <2>1 DEF FraudInv, PlacesOK, NoOrderPassedOver, BehindPoison, Offsets
<1>. QED
  BY <1>1, <1>2, <1>3, <1>4, <1>5, <1>6, <1>7 DEF FraudNext, Loop

(***************************************************************************)
(* The types need one thing more: the records that were slow and those     *)
(* that are left of a batch fit into one together.                         *)
(***************************************************************************)
SlownessOK == slept + (position - next) =< BatchMax

LEMMA FraudTypeInit == FraudInit => FraudTypeOK /\ SlownessOK
<1>. SUFFICES ASSUME FraudInit PROVE FraudTypeOK /\ SlownessOK
  OBVIOUS
<1>1. Len(log) = 0 /\ log \in Seq({"order", "poison"})
  BY DEF FraudInit
<1>2. /\ committed \in 0..(Len(log) + 1) /\ next \in committed..(Len(log) + 1)
      /\ position \in next..(Len(log) + 1) /\ position - next = 0
      /\ began \in 1..(Len(log) + 1) /\ position = 0 /\ ~member
  BY <1>1 DEF FraudInit
<1>3. slept = 0 /\ slept \in 0..BatchMax /\ crashes \in 0..MaxCrashes
  BY DEF FraudInit
<1>4. counted \subseteq Offsets /\ member \in BOOLEAN /\ flag \in BOOLEAN
  BY DEF FraudInit
<1>5. 0 =< BatchMax
  OBVIOUS
<1>. QED
  BY <1>1, <1>2, <1>3, <1>4, <1>5 DEF FraudTypeOK, SlownessOK

LEMMA FraudTypeNext ==
  ASSUME FraudTypeOK, SlownessOK, [FraudNext]_fraudVars
  PROVE  FraudTypeOK' /\ SlownessOK'
<1>0. Len(log) \in Nat
  BY DEF FraudTypeOK
<1>1. ASSUME NEW kind \in {"order", "poison"}, Arrive(kind) PROVE FraudTypeOK' /\ SlownessOK'
  <2>1. log' \in Seq({"order", "poison"}) /\ Len(log') = Len(log) + 1
    BY <1>1 DEF Arrive, FraudTypeOK
  <2>. QED
    BY <1>1, <2>1 DEF Arrive, FraudTypeOK, SlownessOK, Offsets
<1>2. CASE Poll
  BY <1>2 DEF Poll, BatchDone, AutoCommitted, FraudTypeOK, SlownessOK, Offsets
<1>3. CASE Count
  <2>1. next < position /\ next \in 1..Len(log)
    BY <1>3 DEF Count, BatchDone, FraudTypeOK, SlownessOK, Offsets
  <2>. QED
    BY <1>3, <2>1 DEF Count, FraudTypeOK, SlownessOK, Offsets
<1>4. ASSUME NEW k \in Nat, NEW c \in k..(Len(log) + 1), c = 0 => member' = FALSE,
             committed' = k, position' = c, next' = c, slept' = 0,
             began' \in 1..(Len(log) + 1), member' \in BOOLEAN,
             UNCHANGED <<log, flag, counted>>, crashes' \in 0..MaxCrashes
      PROVE  FraudTypeOK' /\ SlownessOK'
  <2>1. c \in Int /\ c - c = 0 /\ c \in c..(Len(log) + 1) /\ k \in 0..(Len(log) + 1)
    BY <1>0
  <2>2. position' - next' = 0
    BY <1>4, <2>1
  <2>3. /\ committed' \in 0..(Len(log') + 1) /\ began' \in 1..(Len(log') + 1)
        /\ next' \in committed'..(Len(log') + 1)
        /\ position' \in next'..(Len(log') + 1)
    BY <1>4, <2>1
  <2>4. SlownessOK'
    BY <1>4, <2>2 DEF SlownessOK
  <2>. QED
    BY <1>4, <2>2, <2>3, <2>4 DEF FraudTypeOK, Offsets
<1>5. CASE Join
  <2>1. /\ position' = Start /\ next' = Start /\ slept' = 0 /\ member' = TRUE
        /\ UNCHANGED <<log, committed, flag, counted, crashes>>
        /\ committed \in Nat /\ crashes \in 0..MaxCrashes
    BY <1>5 DEF Join, FraudTypeOK
  <2>2. /\ Start \in committed..(Len(log) + 1) /\ Start # 0
        /\ began' \in 1..(Len(log) + 1)
    BY <1>0, <1>5 DEF Join, Start, FraudTypeOK
  <2>. QED
    BY <1>4, <2>1, <2>2
<1>6. CASE Poisoned \/ Killed
  <2>1. PICK c \in {position, committed} : RestartFrom(c)
    BY <1>6 DEF Poisoned, Killed
  <2>2. /\ c \in Nat /\ c \in c..(Len(log) + 1) /\ began \in 1..(Len(log) + 1)
        /\ crashes' \in 0..MaxCrashes
    BY <1>0, <1>6 DEF Poisoned, Killed, FraudTypeOK
  <2>. QED
    BY <1>4, <2>1, <2>2 DEF RestartFrom
<1>7. CASE TurnFlag \/ PutOut \/ UNCHANGED fraudVars
  BY <1>7 DEF TurnFlag, PutOut, fraudVars, FraudTypeOK, SlownessOK, Offsets
<1>. QED
  BY <1>1, <1>2, <1>3, <1>5, <1>6, <1>7 DEF FraudNext, Loop

(***************************************************************************)
(* The offsets stay in order, committed before taken before fetched, and a *)
(* batch within its limit, through restarts and a lost membership.         *)
(***************************************************************************)
THEOREM FraudTypeCorrect == FraudSpec => []FraudTypeOK
  BY FraudTypeInit, FraudTypeNext, PTL DEF FraudSpec

(***************************************************************************)
(* No order is passed over once the group has committed, unless it came in *)
(* one batch behind a record that does not parse: main's fold with the     *)
(* client's own commits, and every start before the first one at the end.  *)
(***************************************************************************)
THEOREM NoOrderPassedOverHolds == FraudSpec => []NoOrderPassedOver
<1>1. FraudInv => NoOrderPassedOver
  BY DEF FraudInv
<1>. QED
  BY <1>1, FraudInitInv, FraudNextInv, PTL DEF FraudSpec
================================================================================
