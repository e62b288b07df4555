------------------------------- MODULE CartStore -------------------------------
(***************************************************************************)
(* The cart service: CartService.cs over ValkeyCartStore.cs.  A cart is    *)
(* one hash in Valkey per user.  AddItem reads the hash, changes the cart  *)
(* it decoded, writes it back and then renews the key's 60 minute time to  *)
(* live: three awaited round trips and no transaction around them.         *)
(* EmptyCart writes an empty cart and renews the time to live.  Each       *)
(* caller below is one RPC in progress at the service.                     *)
(***************************************************************************)
EXTENDS Integers

CONSTANTS
    Users,      \* the user ids that carts are keyed by
    Products,   \* the product ids
    Callers,    \* the clients of the service, one call each at a time
    MaxQty,     \* bound: the largest quantity of one AddItem
    MaxUnits    \* bound: the units of a product added per user

ASSUME CartAssumption ==
    /\ Users # {} /\ Products # {} /\ Callers # {}
    /\ MaxQty \in Nat \ {0}
    /\ MaxUnits \in Nat

VARIABLES
    cart,    \* per user, the units of each product in the stored cart
    key,     \* per user, the Valkey key: absent, with a TTL, without one
    call,    \* per caller, the RPC it has in progress
    added,   \* history: units that AddItem has written, per user, product
    clean,   \* history: no two calls on the user's cart ever overlapped
    failed   \* history: a call of the user failed after it may have acted

cartVars == <<cart, key, call, added, clean, failed>>

Carts == [Products -> Nat]

EmptyCart == [p \in Products |-> 0]

Quantities == 1..MaxQty

(***************************************************************************)
(* "held": the caller keeps the answer of a GetCart for later use.         *)
(* "write": AddItem has its HashGet answer and will write it back.         *)
(* "empty": EmptyCart is about to write.  "expire": the hash is written,   *)
(* the time to live not yet renewed.                                       *)
(***************************************************************************)
CallStates == {"idle", "held", "write", "empty", "expire"}

Calls == [pc : CallStates, user : Users, item : Products,
          qty : Quantities, seen : Carts]

NoCall == [pc |-> "idle", user |-> CHOOSE u \in Users : TRUE,
           item |-> CHOOSE p \in Products : TRUE, qty |-> 1,
           seen |-> EmptyCart]

InCall(c, u) == call[c].pc # "idle" /\ call[c].user = u

Busy(u) == \E c \in Callers : InCall(c, u)

BusyApartFrom(c, u) == \E d \in Callers \ {c} : InCall(d, u)

CartTypeOK ==
    /\ cart \in [Users -> Carts]
    /\ key \in [Users -> {"none", "ttl", "forever"}]
    /\ call \in [Callers -> Calls]
    /\ added \in [Users -> Carts]
    /\ clean \in [Users -> BOOLEAN]
    /\ failed \in [Users -> BOOLEAN]

CartInit ==
    /\ cart = [u \in Users |-> EmptyCart]
    /\ key = [u \in Users |-> "none"]
    /\ call = [c \in Callers |-> NoCall]
    /\ added = [u \in Users |-> EmptyCart]
    /\ clean = [u \in Users |-> TRUE]
    /\ failed = [u \in Users |-> FALSE]

(***************************************************************************)
(* A call of c on u's cart begins: it overlaps every call in progress.     *)
(***************************************************************************)
Enter(c, rec) ==
    /\ call[c].pc = "idle"
    /\ call' = [call EXCEPT ![c] = rec]
    /\ clean' = [clean EXCEPT ![rec.user] = @ /\ ~Busy(rec.user)]

\* Faults for the mutants of WithItem: the line is added and then raised as
\* well; the cart is built anew.
WithItemTwice(items, p, q) == [items EXCEPT ![p] = @ + 2 * q]
WithItemAlone(items, p, q) == [EmptyCart EXCEPT ![p] = items[p] + q]

\* The cart with q more units of p: a new line, or a larger quantity.
WithItem(items, p, q) == [items EXCEPT ![p] = @ + q]

\* HashSetAsync creates a missing key, without a time to live.
HashSet(u, items) ==
    /\ cart' = [cart EXCEPT ![u] = items]
    /\ key' = [key EXCEPT ![u] = IF @ = "none" THEN "forever" ELSE @]

\* AddItemAsync up to and including the HashGetAsync.
AddItemRead(c, u, p, q) ==
    /\ added[u][p] + q =< MaxUnits
    /\ Enter(c, [pc |-> "write", user |-> u, item |-> p, qty |-> q,
                 seen |-> cart[u]])
    /\ UNCHANGED <<cart, key, added, failed>>

\* AddItemAsync changes the cart it decoded and writes it with HashSetAsync.
AddItemWrite(c) ==
    LET u == call[c].user
        p == call[c].item
        q == call[c].qty
    IN /\ call[c].pc = "write"
       /\ HashSet(u, WithItem(call[c].seen, p, q))
       /\ added' = [added EXCEPT ![u][p] = @ + q]
       /\ call' = [call EXCEPT ![c].pc = "expire"]
       /\ UNCHANGED <<clean, failed>>

\* GetCartAsync: one HashGetAsync; a missing key reads as an empty cart.
GetCart(c, u) ==
    /\ Enter(c, [NoCall EXCEPT !.pc = "held", !.user = u, !.seen = cart[u]])
    /\ UNCHANGED <<cart, key, added, failed>>

\* A caller that has a cart asks for it to be emptied.
EmptyHeldCart(c) ==
    /\ call[c].pc = "held"
    /\ call' = [call EXCEPT ![c].pc = "empty"]
    /\ UNCHANGED <<cart, key, added, clean, failed>>

\* EmptyCart on a cart that the caller did not read first.
EmptyCartRequest(c, u) ==
    /\ Enter(c, [NoCall EXCEPT !.pc = "empty", !.user = u])
    /\ UNCHANGED <<cart, key, added, failed>>

\* EmptyCartAsync writes the empty cart.
EmptyCartWrite(c) ==
    LET u == call[c].user
    IN /\ call[c].pc = "empty"
       /\ HashSet(u, EmptyCart)
       /\ call' = [call EXCEPT ![c].pc = "expire"]
       /\ UNCHANGED <<added, clean, failed>>

\* Fault for a mutant of KeyExpire: the call ends without the renewal.
KeyExpireSkipped(c) ==
    /\ call[c].pc = "expire"
    /\ call' = [call EXCEPT ![c] = NoCall]
    /\ UNCHANGED <<cart, key, added, clean, failed>>

\* KeyExpireAsync ends AddItem and EmptyCart; a missing key has no TTL.
KeyExpire(c) ==
    LET u == call[c].user
    IN /\ call[c].pc = "expire"
       /\ key' = [key EXCEPT ![u] = IF @ = "none" THEN @ ELSE "ttl"]
       /\ call' = [call EXCEPT ![c] = NoCall]
       /\ UNCHANGED <<cart, added, clean, failed>>

\* An await throws, or EmptyCart went to the bad store of the cartFailure
\* flag: the caller gets FailedPrecondition and what was written stays.
CallFails(c) ==
    /\ call[c].pc \in {"write", "empty", "expire"}
    /\ call' = [call EXCEPT ![c] = NoCall]
    /\ failed' = [failed EXCEPT ![call[c].user] = TRUE]
    /\ UNCHANGED <<cart, key, added, clean>>

\* A caller drops a cart it read.
Release(c) ==
    /\ call[c].pc = "held"
    /\ call' = [call EXCEPT ![c] = NoCall]
    /\ UNCHANGED <<cart, key, added, clean, failed>>

\* Valkey drops a key whose time to live has passed.
KeyExpires(u) ==
    /\ key[u] = "ttl"
    /\ key' = [key EXCEPT ![u] = "none"]
    /\ cart' = [cart EXCEPT ![u] = EmptyCart]
    /\ clean' = [clean EXCEPT ![u] = @ /\ ~Busy(u)]
    /\ UNCHANGED <<call, added, failed>>

\* What the service does on its own once a call has reached it.
CartServiceStep ==
    \/ \E c \in Callers : \/ AddItemWrite(c)
                          \/ EmptyCartWrite(c)
                          \/ KeyExpire(c)
                          \/ CallFails(c)
    \/ \E u \in Users : KeyExpires(u)

CartNext ==
    \/ CartServiceStep
    \/ \E c \in Callers, u \in Users :
          \/ \E p \in Products, q \in Quantities : AddItemRead(c, u, p, q)
          \/ GetCart(c, u)
          \/ EmptyCartRequest(c, u)
    \/ \E c \in Callers : EmptyHeldCart(c) \/ Release(c)

CartSpec == CartInit /\ [][CartNext]_cartVars

--------------------------------------------------------------------------------

(***************************************************************************)
(* However AddItem and EmptyCart calls interleave, fail half way or race   *)
(* with the key's expiry, a cart never holds more units of a product than  *)
(* AddItem calls have written: overlapping calls may lose units or bring   *)
(* removed ones back, but they never make new ones.                        *)
(***************************************************************************)
NoUnitsFromNowhere ==
    \A u \in Users, p \in Products : cart[u][p] =< added[u][p]

(***************************************************************************)
(* As long as no two calls on a user's cart overlapped (and the key did    *)
(* not expire under one), the read, the write and the renewal of a call    *)
(* are as good as one step, also when some of the calls failed half way:   *)
(* the service implements SharedCart, with an addition where its write     *)
(* is and an emptying where its write is.                                  *)
(***************************************************************************)
Shared == INSTANCE SharedCart WITH items <- cart, put <- added, alone <- clean

ImplementsSharedCart == Shared!SharedSpec

(***************************************************************************)
(* A cart that Valkey would keep for ever is one whose writer still has to *)
(* renew the time to live, or one that a call failed on between its        *)
(* HashSetAsync and its KeyExpireAsync.                                    *)
(***************************************************************************)
CartsExpireUnlessACallFailed ==
    \A u \in Users :
        key[u] = "forever" =>
            \/ failed[u]
            \/ \E c \in Callers : call[c].pc = "expire" /\ call[c].user = u

================================================================================
