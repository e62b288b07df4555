------------------------------ MODULE CartConnection ------------------------------
(***************************************************************************)
(* The connection of a ValkeyCartStore: requests share one multiplexer.    *)
(* EnsureRedisConnected lets them by while a flag says that it is open and *)
(* otherwise makes a new one under a lock.  Event handlers of each         *)
(* multiplexer that was ever tried out flip the flag, when its connection  *)
(* fails and when the client library has restored it; replaced             *)
(* multiplexers are not disposed of, so theirs go on doing so.             *)
(***************************************************************************)
EXTENDS Integers, FiniteSets

CONSTANTS
    Requests,      \* the requests at the cart service
    Multiplexers,  \* ConnectionMultiplexer objects; see Connect
    MaxOutages     \* bound: how often Valkey or a connection goes away

ASSUME ConnectionAssumption ==
    /\ "nobody" \notin Requests
    /\ Multiplexers # {} /\ MaxOutages \in Nat

VARIABLES
    flag,       \* _isRedisConnectionOpened
    current,    \* _redis
    lock,       \* the request that holds _locker, or Nobody
    pc,         \* per request, where it is
    up,         \* the multiplexers that are connected
    watched,    \* the multiplexers with event handlers
    events,     \* the events that handlers have not yet run for
    valkeyUp,   \* Valkey is there
    outages,    \* how often it or a connection went away
    failures    \* history: ConnectionFailed handlers that ran

connVars == <<flag, current, lock, pc, up, watched, events, valkeyUp, outages,
              failures>>

Nobody == "nobody"

Event(m, kind) == [of |-> m, kind |-> kind]

\* Initialize has connected the store when the service starts.
ConnInit ==
    /\ flag = TRUE /\ lock = Nobody
    /\ pc = [r \in Requests |-> "idle"]
    /\ current \in Multiplexers
    /\ up = {current} /\ watched = {current}
    /\ events = {}
    /\ valkeyUp = TRUE /\ outages = 0 /\ failures = 0

Proceed(r, s) == pc' = [pc EXCEPT ![r] = s]

environment == <<valkeyUp, outages, failures, events>>

\* A request comes in and reads the flag.
Ensure(r) ==
    /\ pc[r] = "idle"
    /\ Proceed(r, IF flag THEN "use" ELSE "wait")
    /\ UNCHANGED <<flag, current, lock, up, watched, environment>>

\* Fault for a mutant of Lock: the flag is not read again.
LockUnchecked(r) ==
    /\ pc[r] = "wait" /\ lock = Nobody
    /\ Proceed(r, "connect") /\ lock' = r
    /\ UNCHANGED <<flag, current, up, watched, environment>>

\* It gets the lock and reads the flag again.
Lock(r) ==
    /\ pc[r] = "wait" /\ lock = Nobody
    /\ IF flag THEN Proceed(r, "use") /\ UNCHANGED lock
               ELSE Proceed(r, "connect") /\ lock' = r
    /\ UNCHANGED <<flag, current, up, watched, environment>>

(***************************************************************************)
(* ConnectionMultiplexer.Connect returns a new multiplexer, connected or   *)
(* not.  One that is neither current nor watched has no part in anything   *)
(* any more, so its name is given to a new one, and it does not matter     *)
(* which of these names.                                                   *)
(***************************************************************************)
Connect(r) ==
    LET free == Multiplexers \ (watched \cup {current})
        new  == CHOOSE m \in free : TRUE
    IN
    /\ pc[r] = "connect"
    /\ free # {}
    /\ current' = new
    /\ up' = IF valkeyUp THEN up \cup {new} ELSE up \ {new}
    /\ Proceed(r, "test")
    /\ UNCHANGED <<flag, lock, watched, environment>>

\* Fault for a mutant of Throw: the lock is not released.
ThrowLocked(r) ==
    /\ Proceed(r, "idle")
    /\ UNCHANGED <<lock, flag, current, up, watched, environment>>

\* The exception leaves the lock; the request fails.
Throw(r) ==
    /\ Proceed(r, "idle")
    /\ lock' = Nobody
    /\ UNCHANGED <<flag, current, up, watched, environment>>

\* Not connected, or the small test of StringSet and StringGet fails.
TestFails(r) == pc[r] = "test" /\ current \notin up /\ Throw(r)

\* The test succeeds; the handlers are attached.
Attach(r) ==
    /\ pc[r] = "test" /\ current \in up
    /\ watched' = watched \cup {current}
    /\ Proceed(r, "mark")
    /\ UNCHANGED <<flag, current, lock, up, environment>>

Mark(r) ==
    /\ pc[r] = "mark"
    /\ flag' = TRUE /\ lock' = Nobody
    /\ Proceed(r, "use")
    /\ UNCHANGED <<current, up, watched, environment>>

\* The request reads _redis and talks to Valkey, with success or not.
Use(r) ==
    /\ pc[r] = "use"
    /\ Proceed(r, "idle")
    /\ UNCHANGED <<flag, current, lock, up, watched, environment>>

\* Valkey goes away; every connection to it fails.
Outage ==
    /\ valkeyUp /\ outages < MaxOutages
    /\ valkeyUp' = FALSE /\ outages' = outages + 1
    /\ up' = {}
    /\ events' = events \cup {Event(m, "failed") : m \in up \cap watched}
    /\ UNCHANGED <<flag, current, lock, pc, watched, failures>>

\* One connection fails while Valkey is there.
Drop(m) ==
    /\ valkeyUp /\ outages < MaxOutages
    /\ outages' = outages + 1
    /\ m \in up /\ up' = up \ {m}
    /\ events' = events \cup {Event(w, "failed") : w \in {m} \cap watched}
    /\ UNCHANGED <<flag, current, lock, pc, watched, valkeyUp, failures>>

Return ==
    /\ ~valkeyUp
    /\ valkeyUp' = TRUE
    /\ UNCHANGED <<flag, current, lock, pc, up, watched, events, outages,
                   failures>>

\* The client library restores a connection by itself.
Restore(m) ==
    /\ valkeyUp /\ m \in (watched \cup {current}) \ up
    /\ up' = up \cup {m}
    /\ events' = events \cup (IF m \in watched THEN {Event(m, "restored")} ELSE {})
    /\ UNCHANGED <<flag, current, lock, pc, watched, valkeyUp, outages,
                   failures>>

\* A handler runs, on the thread pool, in any order with the others.
Handle(e) ==
    /\ e \in events
    /\ events' = events \ {e}
    /\ flag' = (e.kind = "restored")
    /\ failures' = IF e.kind = "failed" THEN failures + 1 ELSE failures
    /\ UNCHANGED <<current, lock, pc, up, watched, valkeyUp, outages>>

RequestStep(r) ==
    Lock(r) \/ Connect(r) \/ TestFails(r) \/ Attach(r) \/ Mark(r) \/ Use(r)

ConnNext ==
    \/ \E r \in Requests : Ensure(r) \/ RequestStep(r)
    \/ Outage \/ Return
    \/ \E m \in Multiplexers : Drop(m) \/ Restore(m)
    \/ \E e \in events : Handle(e)

ConnSpec == ConnInit /\ [][ConnNext]_connVars

(***************************************************************************)
(* Threads run, the library restores connections, Valkey comes back.       *)
(***************************************************************************)
FairConnSpec ==
    /\ ConnSpec
    /\ \A r \in Requests : WF_connVars(RequestStep(r))
    /\ \A m \in Multiplexers : WF_connVars(Restore(m))
    /\ WF_connVars(Return)

--------------------------------------------------------------------------------

ConnTypeOK ==
    /\ flag \in BOOLEAN /\ valkeyUp \in BOOLEAN
    /\ current \in Multiplexers
    /\ up \subseteq Multiplexers /\ watched \subseteq Multiplexers
    /\ lock \in Requests \cup {Nobody}
    /\ pc \in [Requests -> {"idle", "wait", "connect", "test", "mark", "use"}]
    /\ events \subseteq [of : watched, kind : {"failed", "restored"}]
    /\ outages \in 0..MaxOutages /\ failures \in Nat
    \* Only the holder of the lock is inside it.
    /\ \A r \in Requests : pc[r] \in {"connect", "test", "mark"} <=> lock = r

(***************************************************************************)
(* A multiplexer that works is only replaced after a handler has run for   *)
(* a failure: requests that found the connection closed at the same time   *)
(* make one connection between them, not one each.                         *)
(***************************************************************************)
ReplacedOnlyAfterFailures == Cardinality(watched) =< 1 + failures

(***************************************************************************)
(* Every request comes to an end, also those that queue at the lock while  *)
(* another one fails to connect.                                           *)
(***************************************************************************)
RequestsEnd == \A r \in Requests : pc[r] # "idle" ~> pc[r] = "idle"
================================================================================
