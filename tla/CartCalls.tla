-------------------------------- MODULE CartCalls --------------------------------
(***************************************************************************)
(* What the calls that are made for one user do to his cart, as seen from  *)
(* outside of the services.  An addition reads the cart and writes it back *)
(* later, with its item and without what came between.  An order reads the *)
(* cart, works with what it read for as long as it takes, and then has the *)
(* cart emptied, once, whatever is in it by then.  Any call may fail: what *)
(* it has not written it does not write then.  The exception is an order   *)
(* that no longer waits for the emptying it has asked for, which may come  *)
(* at any later time, or not at all.                                       *)
(***************************************************************************)

CONSTANTS
    Callers,
    Nothing,     \* the empty cart
    Items,
    With(_, _)   \* With(m, x): the cart m with x put in

VARIABLES
    cart,        \* what is stored
    call         \* per caller, what it is about to do and the cart it has read

callVars == <<cart, call>>

Call(at, m) == [at |-> at, cart |-> m]

NoCall == Call("idle", Nothing)

CallsInit ==
    /\ cart = Nothing
    /\ call = [c \in Callers |-> NoCall]

Turns(c, rec) == call' = [call EXCEPT ![c] = rec]

ReadToAdd(c) ==
    /\ call[c].at = "idle"
    /\ Turns(c, Call("adding", cart))
    /\ UNCHANGED cart

WriteAddition(c, x) ==
    /\ call[c].at = "adding"
    /\ cart' = With(call[c].cart, x)
    /\ Turns(c, NoCall)

Empty(c) ==
    /\ call[c].at = "idle"
    /\ cart' = Nothing
    /\ UNCHANGED call

ReadToOrder(c) ==
    /\ call[c].at = "idle"
    /\ Turns(c, Call("ordering", cart))
    /\ UNCHANGED cart

\* The emptying that belongs to an order.
EmptyOrdered(c) ==
    /\ call[c].at \in {"ordering", "late"}
    /\ cart' = Nothing
    /\ Turns(c, NoCall)

\* The calls of S are over; the orders of L no longer wait for the emptying.
Lose(S, L) ==
    /\ \A c \in L : call[c].at = "ordering"
    /\ call' = [c \in Callers |-> IF c \in L THEN Call("late", Nothing)
                                  ELSE IF c \in S THEN NoCall ELSE call[c]]
    /\ UNCHANGED cart

\* Nobody has written for 60 minutes.
Expire ==
    /\ cart' = Nothing
    /\ UNCHANGED call

CallsNext ==
    \/ \E c \in Callers : \/ ReadToAdd(c) \/ Empty(c) \/ ReadToOrder(c) \/ EmptyOrdered(c)
                          \/ \E x \in Items : WriteAddition(c, x)
    \/ \E S, L \in SUBSET Callers : Lose(S, L)
    \/ Expire

CallsSpec == CallsInit /\ [][CallsNext]_callVars
================================================================================
