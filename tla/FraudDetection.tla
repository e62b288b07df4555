------------------------------ MODULE FraudDetection ------------------------------
(***************************************************************************)
(* The fraud-detection service: one Java consumer of the orders topic that *)
(* polls a batch of records and folds a count over them.  The client       *)
(* commits on its own: in poll, what earlier polls returned, and when the  *)
(* consumer is closed.  A record that does not parse throws out of the     *)
(* fold, "use" closes the consumer and the process ends.  While the        *)
(* kafkaQueueProblems flag is on, each record takes a second; a consumer   *)
(* that takes too long between two polls is put out of its group.  The     *)
(* properties set no auto.offset.reset: a group that has never committed   *)
(* begins behind the records that are there when it joins.                 *)
(***************************************************************************)
EXTENDS Integers, Sequences

CONSTANTS
    BatchMax,    \* records that one poll returns at most
    PollLimit,   \* slow records after which the poll interval is over
    MaxLog,      \* bound: the records of the topic
    MaxCrashes   \* bound: the times the process is killed

ASSUME FraudAssumption ==
    /\ BatchMax \in Nat \ {0} /\ PollLimit \in Nat
    /\ MaxLog \in Nat /\ MaxCrashes \in Nat

VARIABLES
    log,        \* the topic: "order" or "poison", a record that cannot parse
    position,   \* the offset after the last batch
    committed,  \* the offset that the group resumes from, 0 if there is none
    began,      \* where the service last began without a committed offset
    next,       \* the offset that the fold takes next
    slept,      \* the slow records since the last poll
    member,     \* the consumer is in its group
    flag,       \* kafkaQueueProblems
    counted,    \* the offsets that the fold has counted
    crashes     \* the times the process was killed

fraudVars == <<log, position, committed, began, next, slept, member, flag,
               counted, crashes>>

FraudInit ==
    /\ log = <<>>
    /\ position = 0 /\ committed = 0 /\ began = 1 /\ next = 0
    /\ slept = 0 /\ member = FALSE /\ flag = FALSE
    /\ counted = {} /\ crashes = 0

\* Checkout produces an order, or someone produces what is no order.
Arrive(kind) ==
    /\ Len(log) < MaxLog
    /\ log' = Append(log, kind)
    /\ UNCHANGED <<position, committed, began, next, slept, member, flag, counted,
                   crashes>>

TurnFlag ==
    /\ flag' = ~flag
    /\ UNCHANGED <<log, position, committed, began, next, slept, member, counted,
                   crashes>>

BatchDone == next = position

\* Fault for mutants of AutoCommitted: what this poll returns counts as done.
AutoCommittedEagerly(end) == {committed, end}

\* The offset committed by a poll that returns records up to end: that of
\* the polls before, once in an auto-commit interval.
AutoCommitted(end) == {committed, position}

\* poll: the fold is done with the batch before.
Poll ==
    /\ BatchDone /\ member
    /\ \E end \in position..(Len(log) + 1) :
          /\ end - position =< BatchMax
          /\ committed' \in AutoCommitted(end)
          /\ position' = end
    /\ slept' = 0
    /\ UNCHANGED <<log, began, next, member, flag, counted, crashes>>

\* Where a member of the group starts; without a committed offset that is
\* the end of the topic, the default of auto.offset.reset.
Start == IF committed = 0 THEN Len(log) + 1 ELSE committed

\* poll of a new consumer, or of one that was put out: it joins the group
\* and cannot commit what it did outside of it.
Join ==
    /\ BatchDone /\ ~member
    /\ member' = TRUE
    /\ position' = Start /\ next' = Start
    /\ began' = IF committed = 0 THEN Start ELSE began
    /\ slept' = 0
    /\ UNCHANGED <<log, committed, flag, counted, crashes>>

\* The heartbeat thread leaves the group when max.poll.interval is over.
PutOut ==
    /\ member /\ slept > PollLimit
    /\ member' = FALSE
    /\ UNCHANGED <<log, position, committed, began, next, slept, flag, counted,
                   crashes>>

\* The fold counts one order; with the flag on it sleeps first.
Count ==
    /\ ~BatchDone /\ log[next] = "order"
    /\ counted' = counted \cup {next}
    /\ next' = next + 1
    /\ slept' = IF flag THEN slept + 1 ELSE slept
    /\ UNCHANGED <<log, position, committed, began, member, flag, crashes>>

\* A new process, which has to join first; the group resumes from c.
RestartFrom(c) ==
    /\ committed' = c /\ position' = c /\ next' = c
    /\ slept' = 0 /\ member' = FALSE
    /\ UNCHANGED <<log, began, flag, counted>>

\* Fault for a mutant of Poisoned: the process ends without a close.
PoisonedUnclosed ==
    /\ ~BatchDone /\ log[next] = "poison"
    /\ RestartFrom(committed)
    /\ UNCHANGED crashes

\* parseFrom throws; close commits the position, that is the whole batch,
\* as long as the consumer is in its group.
Poisoned ==
    /\ ~BatchDone /\ log[next] = "poison"
    /\ RestartFrom(IF member THEN position ELSE committed)
    /\ UNCHANGED crashes

\* The process is killed and started again.
Killed ==
    /\ crashes < MaxCrashes
    /\ crashes' = crashes + 1
    /\ RestartFrom(committed)

Loop == Poll \/ Join \/ Count \/ Poisoned

FraudNext ==
    \/ \E kind \in {"order", "poison"} : Arrive(kind)
    \/ TurnFlag \/ Loop \/ PutOut \/ Killed

FraudSpec == FraudInit /\ [][FraudNext]_fraudVars

\* The main loop runs, and a poll that waits returns what there is.
FairFraudSpec ==
    /\ FraudSpec
    /\ WF_fraudVars(Poll /\ position' # position)
    /\ WF_fraudVars(Join \/ Count \/ Poisoned)

--------------------------------------------------------------------------------

Offsets == 1..Len(log)

FraudTypeOK ==
    /\ log \in Seq({"order", "poison"})
    /\ committed \in 0..(Len(log) + 1) /\ began \in 1..(Len(log) + 1)
    /\ next \in committed..(Len(log) + 1)
    /\ position \in next..(Len(log) + 1) /\ position - next =< BatchMax
    /\ next = 0 => position = 0 /\ member = FALSE
    /\ slept \in 0..BatchMax
    /\ member \in BOOLEAN /\ flag \in BOOLEAN
    /\ counted \subseteq Offsets
    /\ crashes \in 0..MaxCrashes

\* The record at i may have been in a batch behind one that does not parse.
BehindPoison(i) ==
    \E j \in Offsets : j =< i /\ i - j < BatchMax /\ log[j] = "poison"

(***************************************************************************)
(* Once the group has a committed offset no order is passed over: one that *)
(* is committed, or that the fold has gone past, was counted, unless it    *)
(* came in one batch behind a record that does not parse.  Being killed or *)
(* put out of the group only makes the service count orders again.  Before *)
(* that, every start begins at the end of the topic: what was produced     *)
(* earlier, and what a process that was killed or put out before its first *)
(* commit left uncounted, is never looked at.                              *)
(***************************************************************************)
NoOrderPassedOver ==
    \A i \in Offsets :
        i < next /\ log[i] = "order" =>
            i \in counted \/ i < began \/ BehindPoison(i)

(***************************************************************************)
(* Every record is dealt with in the end, if the flag is turned off for    *)
(* good at some time: neither a record that does not parse, over which the *)
(* process ends again and again, nor a batch too slow for the group holds  *)
(* up the ones behind it for ever.                                         *)
(***************************************************************************)
RecordsArePassed ==
    <>[](~flag) => \A i \in 1..MaxLog : i \in Offsets ~> i < next
================================================================================
