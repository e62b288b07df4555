------------------------------ MODULE CartProofs -------------------------------
(***************************************************************************)
(* The cart service: its carts, for any number of users and callers, and   *)
(* its connection, one per failure, for any number of requests and of      *)
(* multiplexers.                                                           *)
(***************************************************************************)
EXTENDS CartStore, CartConnection, FiniteSetTheorems, TLAPS

--------------------------------------------------------------------------------
(* CartStore *)

LEMMA EmptyCartType == EmptyCart \in Carts
  BY DEF EmptyCart, Carts

LEMMA NoCallType == NoCall \in Calls /\ NoCall.pc = "idle"
  BY CartAssumption, EmptyCartType
  DEF NoCall, Calls, CallStates, Quantities, Carts

\* The records that GetCart and EmptyCartRequest enter are calls.
LEMMA HeldCallType ==
  ASSUME NEW u \in Users, NEW items \in Carts
  PROVE  /\ [NoCall EXCEPT !.pc = "held", !.user = u, !.seen = items] \in Calls
         /\ [NoCall EXCEPT !.pc = "held", !.user = u, !.seen = items].pc = "held"
         /\ [NoCall EXCEPT !.pc = "held", !.user = u, !.seen = items].user = u
         /\ [NoCall EXCEPT !.pc = "held", !.user = u, !.seen = items].seen = items
  BY NoCallType DEF Calls, CallStates

LEMMA EmptyRequestType ==
  ASSUME NEW u \in Users
  PROVE  /\ [NoCall EXCEPT !.pc = "empty", !.user = u] \in Calls
         /\ [NoCall EXCEPT !.pc = "empty", !.user = u].pc = "empty"
         /\ [NoCall EXCEPT !.pc = "empty", !.user = u].user = u
  BY NoCallType DEF Calls, CallStates

LEMMA WithItemType ==
  ASSUME NEW items \in Carts, NEW p \in Products, NEW q \in Quantities
  PROVE  /\ WithItem(items, p, q) \in Carts
         /\ WithItem(items, p, q)[p] = items[p] + q
         /\ \A r \in Products \ {p} : WithItem(items, p, q)[r] = items[r]
  BY CartAssumption DEF WithItem, Carts, Quantities

--------------------------------------------------------------------------------

(***************************************************************************)
(* The inductive invariant.  NoUnitsFromNowhere alone is not inductive:    *)
(* AddItem writes what it read before, so the carts that calls have read   *)
(* must be bounded as well.  CartsExpireUnlessACallFailed is inductive     *)
(* with the types.                                                         *)
(***************************************************************************)
ReadCartsAreBounded ==
    \A c \in Callers, p \in Products :
        call[c].pc = "write" => call[c].seen[p] =< added[call[c].user][p]

CartInv ==
    /\ CartTypeOK
    /\ NoUnitsFromNowhere
    /\ ReadCartsAreBounded
    /\ CartsExpireUnlessACallFailed

LEMMA CartInitInv == CartInit => CartInv
  BY EmptyCartType, NoCallType
  DEF CartInit, CartInv, CartTypeOK, NoUnitsFromNowhere, ReadCartsAreBounded,
      CartsExpireUnlessACallFailed, EmptyCart, Carts

\* A call that is entered keeps the invariant if what it has read is stored.
LEMMA EnterInv ==
  ASSUME CartInv, NEW c \in Callers, NEW rec \in Calls, Enter(c, rec),
         rec.pc = "write" => rec.seen = cart[rec.user],
         UNCHANGED <<cart, key, added, failed>>
  PROVE  CartInv'
<1>1. CartTypeOK'
  BY DEF CartInv, CartTypeOK, Enter, Calls
<1>2. NoUnitsFromNowhere'
  BY DEF CartInv, NoUnitsFromNowhere
<1>3. ReadCartsAreBounded'
  BY DEF CartInv, CartTypeOK, ReadCartsAreBounded, NoUnitsFromNowhere, Enter,
         Calls, Carts
<1>4. CartsExpireUnlessACallFailed'
  BY DEF CartInv, CartTypeOK, CartsExpireUnlessACallFailed, Enter, Calls
<1>. QED
  BY <1>1, <1>2, <1>3, <1>4 DEF CartInv

LEMMA AddItemReadInv ==
  ASSUME CartInv, NEW c \in Callers, NEW u \in Users, NEW p \in Products,
         NEW q \in Quantities, AddItemRead(c, u, p, q)
  PROVE  CartInv'
<1>. DEFINE r == [pc |-> "write", user |-> u, item |-> p, qty |-> q,
                  seen |-> cart[u]]
<1>1. r \in Calls /\ r.user = u /\ r.seen = cart[u]
  BY DEF CartInv, CartTypeOK, Calls, CallStates
<1>2. Enter(c, r) /\ UNCHANGED <<cart, key, added, failed>>
  BY DEF AddItemRead
<1>. QED
  BY <1>1, <1>2, EnterInv

LEMMA GetCartInv ==
  ASSUME CartInv, NEW c \in Callers, NEW u \in Users, GetCart(c, u)
  PROVE  CartInv'
<1>. DEFINE r == [NoCall EXCEPT !.pc = "held", !.user = u, !.seen = cart[u]]
<1>0. cart[u] \in Carts
  BY DEF CartInv, CartTypeOK
<1>1. r \in Calls /\ r.pc = "held"
  BY <1>0, HeldCallType
<1>2. Enter(c, r) /\ UNCHANGED <<cart, key, added, failed>>
  BY DEF GetCart
<1>. QED
  BY <1>1, <1>2, EnterInv

LEMMA EmptyCartRequestInv ==
  ASSUME CartInv, NEW c \in Callers, NEW u \in Users, EmptyCartRequest(c, u)
  PROVE  CartInv'
<1>. DEFINE r == [NoCall EXCEPT !.pc = "empty", !.user = u]
<1>1. r \in Calls /\ r.pc = "empty"
  BY EmptyRequestType
<1>2. Enter(c, r) /\ UNCHANGED <<cart, key, added, failed>>
  BY DEF EmptyCartRequest
<1>. QED
  BY <1>1, <1>2, EnterInv

\* Only the pc and the end of a call change: nothing that is read or stored.
LEMMA EmptyHeldCartInv ==
  ASSUME CartInv, NEW c \in Callers, EmptyHeldCart(c)
  PROVE  CartInv'
  BY DEF CartInv, CartTypeOK, NoUnitsFromNowhere, ReadCartsAreBounded,
         CartsExpireUnlessACallFailed, EmptyHeldCart, Calls, CallStates

LEMMA ReleaseInv ==
  ASSUME CartInv, NEW c \in Callers, Release(c)
  PROVE  CartInv'
  BY NoCallType
  DEF CartInv, CartTypeOK, NoUnitsFromNowhere, ReadCartsAreBounded,
      CartsExpireUnlessACallFailed, Release, Calls

LEMMA AddItemWriteInv ==
  ASSUME CartInv, NEW c \in Callers, AddItemWrite(c)
  PROVE  CartInv'
<1>. DEFINE u == call[c].user
            p == call[c].item
            q == call[c].qty
            items == WithItem(call[c].seen, p, q)
<1>1. u \in Users /\ p \in Products /\ q \in Quantities /\ call[c].seen \in Carts
  BY DEF CartInv, CartTypeOK, Calls
<1>2. q \in Nat
  BY <1>1, CartAssumption DEF Quantities
<1>3. items \in Carts /\ items[p] = call[c].seen[p] + q
        /\ \A r \in Products \ {p} : items[r] = call[c].seen[r]
  BY <1>1, WithItemType
<1>. HIDE DEF items
<1>4. /\ cart' = [cart EXCEPT ![u] = items]
      /\ key' = [key EXCEPT ![u] = IF key[u] = "none" THEN "forever" ELSE key[u]]
      /\ added' = [added EXCEPT ![u][p] = added[u][p] + q]
      /\ call' = [call EXCEPT ![c].pc = "expire"]
      /\ call[c].pc = "write"
      /\ UNCHANGED <<clean, failed>>
  BY DEF AddItemWrite, HashSet, items
<1>5. CartTypeOK'
  <2>1. added' \in [Users -> Carts]
    BY <1>1, <1>2, <1>4 DEF CartInv, CartTypeOK, Carts
  <2>2. call' \in [Callers -> Calls]
    BY <1>1, <1>4 DEF CartInv, CartTypeOK, Calls, CallStates
  <2>3. cart' \in [Users -> Carts]
    BY <1>1, <1>3, <1>4 DEF CartInv, CartTypeOK
  <2>. QED
    BY <1>1, <1>4, <2>1, <2>2, <2>3 DEF CartInv, CartTypeOK
<1>6. \A v \in Users, r \in Products :
         added'[v][r] \in Nat /\ added[v][r] \in Nat /\ added[v][r] =< added'[v][r]
  BY <1>1, <1>2, <1>4 DEF CartInv, CartTypeOK, Carts
<1>7. NoUnitsFromNowhere'
  <2>. SUFFICES ASSUME NEW v \in Users, NEW r \in Products
                PROVE  cart'[v][r] =< added'[v][r]
    BY DEF NoUnitsFromNowhere
  <2>1. CASE v = u
    <3>1. call[c].seen[r] =< added[u][r]
      BY <1>4 DEF CartInv, ReadCartsAreBounded
    <3>2. cart'[u] = items /\ call[c].seen[r] \in Nat
      BY <1>1, <1>4 DEF CartInv, CartTypeOK, Carts
    <3>3. CASE r = p
      BY <2>1, <3>1, <3>2, <3>3, <1>1, <1>2, <1>3, <1>4
      DEF CartInv, CartTypeOK, Carts
    <3>4. CASE r # p
      BY <2>1, <3>1, <3>2, <3>4, <1>1, <1>3, <1>4 DEF CartInv, CartTypeOK, Carts
    <3>. QED  BY <3>3, <3>4
  <2>2. CASE v # u
    BY <2>2, <1>1, <1>4 DEF CartInv, CartTypeOK, NoUnitsFromNowhere
  <2>. QED  BY <2>1, <2>2
<1>8. ReadCartsAreBounded'
  <2>. SUFFICES ASSUME NEW d \in Callers, NEW r \in Products, call'[d].pc = "write"
                PROVE  call'[d].seen[r] =< added'[call'[d].user][r]
    BY DEF ReadCartsAreBounded
  <2>1. d # c /\ call'[d] = call[d]
    BY <1>4 DEF CartInv, CartTypeOK, Calls
  <2>2. call[d].seen[r] =< added[call[d].user][r]
    BY <2>1 DEF CartInv, ReadCartsAreBounded
  <2>3. call[d].seen[r] \in Nat /\ call[d].user \in Users
    BY DEF CartInv, CartTypeOK, Calls, Carts
  <2>. QED  BY <2>1, <2>2, <2>3, <1>6
<1>9. CartsExpireUnlessACallFailed'
  BY <1>1, <1>4 DEF CartInv, CartTypeOK, CartsExpireUnlessACallFailed, Calls
<1>. QED
  BY <1>5, <1>7, <1>8, <1>9 DEF CartInv

LEMMA EmptyCartWriteInv ==
  ASSUME CartInv, NEW c \in Callers, EmptyCartWrite(c)
  PROVE  CartInv'
<1>. DEFINE u == call[c].user
<1>1. /\ u \in Users
      /\ cart' = [cart EXCEPT ![u] = EmptyCart]
      /\ key' = [key EXCEPT ![u] = IF key[u] = "none" THEN "forever" ELSE key[u]]
      /\ call' = [call EXCEPT ![c].pc = "expire"]
      /\ UNCHANGED <<added, clean, failed>>
  BY DEF CartInv, CartTypeOK, Calls, EmptyCartWrite, HashSet
<1>2. CartTypeOK'
  BY <1>1, EmptyCartType DEF CartInv, CartTypeOK, Calls, CallStates
<1>3. NoUnitsFromNowhere'
  BY <1>1 DEF CartInv, CartTypeOK, NoUnitsFromNowhere, EmptyCart, Carts
<1>4. ReadCartsAreBounded'
  BY <1>1 DEF CartInv, CartTypeOK, ReadCartsAreBounded, Calls
<1>5. CartsExpireUnlessACallFailed'
  BY <1>1 DEF CartInv, CartTypeOK, CartsExpireUnlessACallFailed, Calls
<1>. QED
  BY <1>2, <1>3, <1>4, <1>5 DEF CartInv

LEMMA KeyExpireInv ==
  ASSUME CartInv, NEW c \in Callers, KeyExpire(c)
  PROVE  CartInv'
<1>. DEFINE u == call[c].user
<1>1. /\ u \in Users
      /\ key' = [key EXCEPT ![u] = IF key[u] = "none" THEN key[u] ELSE "ttl"]
      /\ call' = [call EXCEPT ![c] = NoCall]
      /\ UNCHANGED <<cart, added, clean, failed>>
  BY DEF CartInv, CartTypeOK, Calls, KeyExpire
<1>2. CartTypeOK'
  BY <1>1, NoCallType DEF CartInv, CartTypeOK
<1>3. NoUnitsFromNowhere' /\ ReadCartsAreBounded'
  BY <1>1, NoCallType DEF CartInv, CartTypeOK, NoUnitsFromNowhere, ReadCartsAreBounded
<1>4. CartsExpireUnlessACallFailed'
  <2>. SUFFICES ASSUME NEW v \in Users, key'[v] = "forever"
                PROVE  \/ failed'[v]
                       \/ \E d \in Callers : call'[d].pc = "expire" /\ call'[d].user = v
    BY DEF CartsExpireUnlessACallFailed
  <2>1. v # u /\ key[v] = "forever"
    BY <1>1 DEF CartInv, CartTypeOK
  <2>2. CASE failed[v]
    BY <2>2, <1>1
  <2>3. CASE \E d \in Callers : call[d].pc = "expire" /\ call[d].user = v
    BY <2>1, <2>3, <1>1 DEF CartInv, CartTypeOK
  <2>. QED
    BY <2>1, <2>2, <2>3 DEF CartInv, CartsExpireUnlessACallFailed
<1>. QED
  BY <1>2, <1>3, <1>4 DEF CartInv

LEMMA CallFailsInv ==
  ASSUME CartInv, NEW c \in Callers, CallFails(c)
  PROVE  CartInv'
<1>1. /\ call[c].user \in Users
      /\ call' = [call EXCEPT ![c] = NoCall]
      /\ failed' = [failed EXCEPT ![call[c].user] = TRUE]
      /\ UNCHANGED <<cart, key, added, clean>>
  BY DEF CartInv, CartTypeOK, Calls, CallFails
<1>2. CartTypeOK'
  BY <1>1, NoCallType DEF CartInv, CartTypeOK
<1>3. NoUnitsFromNowhere' /\ ReadCartsAreBounded'
  BY <1>1, NoCallType DEF CartInv, CartTypeOK, NoUnitsFromNowhere, ReadCartsAreBounded
<1>4. CartsExpireUnlessACallFailed'
  BY <1>1 DEF CartInv, CartTypeOK, CartsExpireUnlessACallFailed
<1>. QED
  BY <1>2, <1>3, <1>4 DEF CartInv

LEMMA KeyExpiresInv ==
  ASSUME CartInv, NEW u \in Users, KeyExpires(u)
  PROVE  CartInv'
<1>1. CartTypeOK'
  BY EmptyCartType DEF CartInv, CartTypeOK, KeyExpires
<1>2. NoUnitsFromNowhere'
  BY DEF CartInv, CartTypeOK, NoUnitsFromNowhere, KeyExpires, EmptyCart, Carts
<1>3. ReadCartsAreBounded' /\ CartsExpireUnlessACallFailed'
  BY DEF CartInv, CartTypeOK, ReadCartsAreBounded, CartsExpireUnlessACallFailed, KeyExpires
<1>. QED
  BY <1>1, <1>2, <1>3 DEF CartInv

(***************************************************************************)
(* Callers outside the service may drop carts they hold and record         *)
(* failures; nothing else about the carts changes then.                    *)
(***************************************************************************)
DropCalls ==
    /\ call' \in [Callers -> Calls]
    /\ \A c \in Callers :
          call'[c] = call[c] \/ (call'[c] = NoCall /\ call[c].pc # "expire")
    /\ failed' \in [Users -> BOOLEAN]
    /\ \A u \in Users : failed[u] => failed'[u]
    /\ UNCHANGED <<cart, key, added, clean>>

LEMMA DropCallsInv == CartInv /\ DropCalls => CartInv'
<1>. SUFFICES ASSUME CartInv, DropCalls PROVE CartInv'
  OBVIOUS
<1>1. CartTypeOK' /\ NoUnitsFromNowhere'
  BY DEF CartInv, CartTypeOK, NoUnitsFromNowhere, DropCalls
<1>2. ReadCartsAreBounded'
  BY NoCallType DEF CartInv, ReadCartsAreBounded, DropCalls
<1>3. CartsExpireUnlessACallFailed'
  BY DEF CartInv, CartsExpireUnlessACallFailed, DropCalls
<1>. QED
  BY <1>1, <1>2, <1>3 DEF CartInv

LEMMA CartServiceStepInv == CartInv /\ CartServiceStep => CartInv'
  BY AddItemWriteInv, EmptyCartWriteInv, KeyExpireInv, CallFailsInv, KeyExpiresInv
  DEF CartServiceStep

LEMMA CartNextInv == CartInv /\ [CartNext]_cartVars => CartInv'
<1>1. CASE CartServiceStep
  BY <1>1, CartServiceStepInv
<1>2. ASSUME CartInv, NEW c \in Callers, NEW u \in Users,
             \/ \E p \in Products, q \in Quantities : AddItemRead(c, u, p, q)
             \/ GetCart(c, u)
             \/ EmptyCartRequest(c, u)
      PROVE  CartInv'
  BY <1>2, AddItemReadInv, GetCartInv, EmptyCartRequestInv
<1>3. ASSUME CartInv, NEW c \in Callers, EmptyHeldCart(c) \/ Release(c)
      PROVE  CartInv'
  BY <1>3, EmptyHeldCartInv, ReleaseInv
<1>4. CASE UNCHANGED cartVars
  BY <1>4
  DEF cartVars, CartInv, CartTypeOK, NoUnitsFromNowhere, ReadCartsAreBounded,
      CartsExpireUnlessACallFailed
<1>. QED
  BY <1>1, <1>2, <1>3, <1>4 DEF CartNext

LEMMA CartInvariant == CartSpec => []CartInv
  BY CartInitInv, CartNextInv, PTL DEF CartSpec

--------------------------------------------------------------------------------

(***************************************************************************)
(* Every cart is a map from products to quantities that fit, also when it  *)
(* was read long before it is written.                                     *)
(***************************************************************************)
THEOREM CartTypeCorrect == CartSpec => []CartTypeOK
<1>1. CartInv => CartTypeOK
  BY DEF CartInv
<1>. QED
  BY <1>1, CartInvariant, PTL

(***************************************************************************)
(* However calls interleave, fail and race with expiry, no cart holds more *)
(* units of a product than AddItem has written.                            *)
(***************************************************************************)
THEOREM NoUnitsFromNowhereHolds == CartSpec => []NoUnitsFromNowhere
<1>1. CartInv => NoUnitsFromNowhere
  BY DEF CartInv
<1>. QED
  BY <1>1, CartInvariant, PTL

\* A cart without a time to live has an unfinished or a failed writer.
THEOREM CartsExpireHolds == CartSpec => []CartsExpireUnlessACallFailed
<1>1. CartInv => CartsExpireUnlessACallFailed
  BY DEF CartInv
<1>. QED
  BY <1>1, CartInvariant, PTL

--------------------------------------------------------------------------------

(***************************************************************************)
(* Why calls that do not overlap are atomic: a clean cart has at most one  *)
(* call in progress, so what that call has read is still what is stored.   *)
(***************************************************************************)
SerialInv ==
    \A u \in Users : clean[u] =>
        /\ \A c, d \in Callers : InCall(c, u) /\ InCall(d, u) => c = d
        /\ \A c \in Callers :
              InCall(c, u) /\ call[c].pc \in {"held", "write"} =>
                  call[c].seen = cart[u]

LEMMA CartInitSerial == CartInit => SerialInv
  BY NoCallType DEF CartInit, SerialInv, InCall

LEMMA EnterSerial ==
  ASSUME CartInv, SerialInv, NEW c \in Callers, NEW rec \in Calls, Enter(c, rec),
         rec.pc \in {"held", "write"} => rec.seen = cart[rec.user],
         UNCHANGED cart
  PROVE  SerialInv'
<1>. SUFFICES ASSUME NEW u \in Users, clean'[u]
              PROVE  /\ \A d, e \in Callers : InCall(d, u)' /\ InCall(e, u)' => d = e
                     /\ \A d \in Callers :
                           InCall(d, u)' /\ call'[d].pc \in {"held", "write"} =>
                               call'[d].seen = cart'[u]
  BY DEF SerialInv
<1>1. rec.user \in Users
  BY DEF Calls
<1>2. clean[u] /\ (u = rec.user => ~Busy(u))
  BY <1>1 DEF Enter, CartInv, CartTypeOK
<1>3. \A d \in Callers : call'[d] = IF d = c THEN rec ELSE call[d]
  BY DEF Enter, CartInv, CartTypeOK
<1>4. CASE u = rec.user
  <2>1. \A d \in Callers : InCall(d, u)' => d = c
    BY <1>2, <1>3, <1>4 DEF InCall, Busy
  <2>. QED
    BY <2>1, <1>3, <1>4
<1>5. CASE u # rec.user
  <2>1. \A d \in Callers : InCall(d, u)' => d # c /\ call'[d] = call[d] /\ InCall(d, u)
    BY <1>3, <1>5 DEF InCall
  <2>. QED
    BY <2>1, <1>2 DEF SerialInv
<1>. QED
  BY <1>4, <1>5

\* A write to a clean cart is by its only caller, which then expects nothing.
LEMMA WriteSerial ==
  ASSUME CartInv, SerialInv, NEW c \in Callers, NEW u \in Users, InCall(c, u),
         call' = [call EXCEPT ![c].pc = "expire"],
         \A v \in Users \ {u} : cart'[v] = cart[v],
         UNCHANGED clean
  PROVE  SerialInv'
<1>. SUFFICES ASSUME NEW v \in Users, clean[v]
              PROVE  /\ \A d, e \in Callers : InCall(d, v)' /\ InCall(e, v)' => d = e
                     /\ \A d \in Callers :
                           InCall(d, v)' /\ call'[d].pc \in {"held", "write"} =>
                               call'[d].seen = cart'[v]
  BY DEF SerialInv
<1>1. \A d \in Callers : /\ InCall(d, v)' => InCall(d, v)
                         /\ d # c => call'[d] = call[d]
                         /\ call'[c].pc = "expire"
  BY DEF InCall, CartInv, CartTypeOK, Calls
<1>2. v # u => ~InCall(c, v)
  BY DEF InCall
<1>. QED
  BY <1>1, <1>2 DEF SerialInv

\* Calls that end, and calls that stop to hold what they read.
LEMMA LeaveSerial ==
  ASSUME CartInv, SerialInv, UNCHANGED <<cart, clean>>,
         \A c \in Callers : \/ call'[c] = call[c]
                            \/ call'[c].pc = "idle"
                            \/ /\ call[c].pc # "idle"
                               /\ call'[c].pc = "empty" /\ call'[c].user = call[c].user
  PROVE  SerialInv'
<1>1. \A c \in Callers, u \in Users :
         InCall(c, u)' => InCall(c, u) /\ (call'[c] = call[c] \/ call'[c].pc = "empty")
  BY DEF InCall
<1>. QED
  BY <1>1 DEF SerialInv

LEMMA KeyExpiresSerial ==
  ASSUME CartInv, SerialInv, NEW u \in Users, KeyExpires(u)
  PROVE  SerialInv'
<1>1. \A v \in Users : clean'[v] => /\ clean[v]
                                    /\ v = u => \A c \in Callers : ~InCall(c, v)
                                    /\ v # u => cart'[v] = cart[v]
  BY DEF CartInv, CartTypeOK, KeyExpires, Busy
<1>2. \A c \in Callers, v \in Users : InCall(c, v)' <=> InCall(c, v)
  BY DEF KeyExpires, InCall
<1>. QED
  BY <1>1, <1>2 DEF SerialInv, KeyExpires

\* The steps of the service itself.
LEMMA CartServiceStepSerial ==
  ASSUME CartInv, SerialInv, CartServiceStep
  PROVE  SerialInv'
<1>1. ASSUME NEW c \in Callers, AddItemWrite(c) \/ EmptyCartWrite(c)
      PROVE  SerialInv'
  <2>1. /\ InCall(c, call[c].user) /\ call[c].user \in Users
        /\ call' = [call EXCEPT ![c].pc = "expire"]
        /\ \A v \in Users \ {call[c].user} : cart'[v] = cart[v]
        /\ UNCHANGED clean
    BY <1>1 DEF AddItemWrite, EmptyCartWrite, HashSet, InCall, CartInv, CartTypeOK, Calls
  <2>. QED
    BY <2>1, WriteSerial
<1>2. ASSUME NEW c \in Callers, KeyExpire(c) \/ CallFails(c)
      PROVE  SerialInv'
  BY <1>2, NoCallType, LeaveSerial DEF KeyExpire, CallFails, CartInv, CartTypeOK
<1>. QED
  BY <1>1, <1>2, KeyExpiresSerial DEF CartServiceStep

LEMMA GetCartSerial ==
  ASSUME CartInv, SerialInv, NEW c \in Callers, NEW u \in Users, GetCart(c, u)
  PROVE  SerialInv'
<1>. DEFINE r == [NoCall EXCEPT !.pc = "held", !.user = u, !.seen = cart[u]]
<1>0. cart[u] \in Carts
  BY DEF CartInv, CartTypeOK
<1>1. r \in Calls
  BY <1>0, HeldCallType
<1>2. r.user = u /\ r.seen = cart[u]
  BY NoCallType DEF Calls
<1>3. Enter(c, r) /\ UNCHANGED cart
  BY DEF GetCart
<1>. HIDE DEF r
<1>. QED
  BY <1>1, <1>2, <1>3, EnterSerial

LEMMA AddItemReadSerial ==
  ASSUME CartInv, SerialInv, NEW c \in Callers, NEW u \in Users,
         NEW p \in Products, NEW q \in Quantities, AddItemRead(c, u, p, q)
  PROVE  SerialInv'
<1>. DEFINE r == [pc |-> "write", user |-> u, item |-> p, qty |-> q,
                  seen |-> cart[u]]
<1>1. r \in Calls /\ r.user = u /\ r.seen = cart[u]
  BY DEF CartInv, CartTypeOK, Calls, CallStates
<1>2. Enter(c, r) /\ UNCHANGED cart
  BY DEF AddItemRead
<1>. QED
  BY <1>1, <1>2, EnterSerial

LEMMA EmptyCartRequestSerial ==
  ASSUME CartInv, SerialInv, NEW c \in Callers, NEW u \in Users,
         EmptyCartRequest(c, u)
  PROVE  SerialInv'
<1>. DEFINE r == [NoCall EXCEPT !.pc = "empty", !.user = u]
<1>1. r \in Calls /\ r.pc = "empty"
  BY EmptyRequestType
<1>2. Enter(c, r) /\ UNCHANGED cart
  BY DEF EmptyCartRequest
<1>. QED
  BY <1>1, <1>2, EnterSerial

LEMMA CartNextSerial == CartInv /\ SerialInv /\ [CartNext]_cartVars => SerialInv'
<1>. SUFFICES ASSUME CartInv, SerialInv, [CartNext]_cartVars PROVE SerialInv'
  OBVIOUS
<1>1. CASE CartServiceStep
  BY <1>1, CartServiceStepSerial
<1>2. ASSUME NEW c \in Callers, NEW u \in Users,
             \/ \E p \in Products, q \in Quantities : AddItemRead(c, u, p, q)
             \/ GetCart(c, u)
             \/ EmptyCartRequest(c, u)
      PROVE  SerialInv'
  BY <1>2, AddItemReadSerial, GetCartSerial, EmptyCartRequestSerial
<1>3. ASSUME NEW c \in Callers, EmptyHeldCart(c) \/ Release(c)
      PROVE  SerialInv'
  BY <1>3, NoCallType, LeaveSerial
  DEF EmptyHeldCart, Release, CartInv, CartTypeOK, Calls
<1>4. CASE UNCHANGED cartVars
  BY <1>4 DEF cartVars, SerialInv, InCall
<1>. QED
  BY <1>1, <1>2, <1>3, <1>4 DEF CartNext

LEMMA SerialInvariant == CartSpec => []SerialInv
  BY CartInitInv, CartNextInv, CartInitSerial, CartNextSerial, PTL DEF CartSpec

--------------------------------------------------------------------------------
(* The service as SharedCart *)

LEMMA SharedInitHolds == CartInit => Shared!SharedInit
  BY DEF CartInit, EmptyCart, Shared!SharedInit, Shared!NoItems

\* A write to a clean cart acts on the cart that is stored; any other leaves
\* no more in it than was put in.
LEMMA WriteIsPut ==
  ASSUME CartInv, SerialInv, CartInv', NEW c \in Callers, AddItemWrite(c)
  PROVE  Shared!SharedNext
<1>. DEFINE u == call[c].user
            p == call[c].item
            q == call[c].qty
<1>1. u \in Users /\ p \in Products /\ q \in Quantities
  BY DEF CartInv, CartTypeOK, Calls
<1>2. /\ cart' = [cart EXCEPT ![u] = WithItem(call[c].seen, p, q)]
      /\ added' = [added EXCEPT ![u][p] = @ + q]
      /\ UNCHANGED clean
  BY DEF AddItemWrite, HashSet
<1>3. CASE clean[u]
  <2>1. call[c].seen = cart[u]
    BY <1>1, <1>3 DEF SerialInv, InCall, AddItemWrite
  <2>2. cart' = [cart EXCEPT ![u][p] = @ + q]
    BY <1>1, <1>2, <2>1 DEF WithItem, CartInv, CartTypeOK
  <2>. QED
    BY <1>1, <1>2, <1>3, <2>2 DEF Shared!SharedNext, Shared!Put
<1>4. CASE ~clean[u]
  <2>1. cart' \in [Users -> Shared!Carts] /\ \A v \in Users \ {u} : cart'[v] = cart[v]
    BY <1>2 DEF CartInv, CartTypeOK, Carts, Shared!Carts
  <2>2. \A r \in Products : cart'[u][r] =< added'[u][r]
    BY <1>1 DEF CartInv, NoUnitsFromNowhere
  <2>. QED
    BY <1>1, <1>2, <1>4, <2>1, <2>2 DEF Shared!SharedNext, Shared!Put
<1>. QED
  BY <1>3, <1>4

LEMMA EmptyingIsClear ==
  ASSUME CartInv, NEW c \in Callers, EmptyCartWrite(c)
  PROVE  Shared!SharedNext
<1>1. call[c].user \in Users
  BY DEF CartInv, CartTypeOK, Calls
<1>2. clean' = [clean EXCEPT ![call[c].user] = @ /\ ~FALSE]
  BY <1>1 DEF EmptyCartWrite, CartInv, CartTypeOK
<1>3. Shared!Clear(call[c].user, FALSE)
  BY <1>2 DEF EmptyCartWrite, HashSet, EmptyCart, Shared!Clear, Shared!NoItems
<1>. QED
  BY <1>1, <1>3 DEF Shared!SharedNext

LEMMA ExpiryIsClear ==
  ASSUME NEW u \in Users, KeyExpires(u)
  PROVE  Shared!SharedNext
<1>1. Busy(u) \in BOOLEAN
  BY DEF Busy
<1>2. Shared!Clear(u, Busy(u))
  BY DEF KeyExpires, EmptyCart, Shared!Clear, Shared!NoItems
<1>. QED
  BY <1>1, <1>2 DEF Shared!SharedNext

LEMMA EnteringOverlaps ==
  ASSUME CartInv, NEW c \in Callers, NEW rec \in Calls, Enter(c, rec),
         UNCHANGED <<cart, added>>
  PROVE  Shared!SharedNext \/ UNCHANGED Shared!sharedVars
<1>1. rec.user \in Users
  BY DEF Calls
<1>2. CASE Busy(rec.user)
  BY <1>1, <1>2 DEF Enter, CartInv, CartTypeOK, Shared!SharedNext, Shared!Overlap
<1>3. CASE ~Busy(rec.user)
  BY <1>1, <1>3 DEF Enter, CartInv, CartTypeOK, Shared!sharedVars
<1>. QED
  BY <1>2, <1>3

LEMMA ServiceStepIsShared ==
  ASSUME CartInv, SerialInv, CartInv', CartServiceStep
  PROVE  Shared!SharedNext \/ UNCHANGED Shared!sharedVars
  BY WriteIsPut, EmptyingIsClear, ExpiryIsClear
  DEF CartServiceStep, KeyExpire, CallFails, Shared!sharedVars

LEMMA CallIsShared ==
  ASSUME CartInv, NEW c \in Callers, NEW u \in Users,
         \/ \E p \in Products, q \in Quantities : AddItemRead(c, u, p, q)
         \/ GetCart(c, u)
         \/ EmptyCartRequest(c, u)
  PROVE  Shared!SharedNext \/ UNCHANGED Shared!sharedVars
<1>1. ASSUME NEW p \in Products, NEW q \in Quantities, AddItemRead(c, u, p, q)
      PROVE  Shared!SharedNext \/ UNCHANGED Shared!sharedVars
  <2>. DEFINE r == [pc |-> "write", user |-> u, item |-> p, qty |-> q, seen |-> cart[u]]
  <2>1. r \in Calls
    BY DEF CartInv, CartTypeOK, Calls, CallStates
  <2>2. Enter(c, r) /\ UNCHANGED <<cart, added>>
    BY <1>1 DEF AddItemRead
  <2>. HIDE DEF r
  <2>. QED
    BY <2>1, <2>2, EnteringOverlaps
<1>2. CASE GetCart(c, u)
  <2>. DEFINE r == [NoCall EXCEPT !.pc = "held", !.user = u, !.seen = cart[u]]
  <2>1. r \in Calls
    BY HeldCallType DEF CartInv, CartTypeOK
  <2>2. Enter(c, r) /\ UNCHANGED <<cart, added>>
    BY <1>2 DEF GetCart
  <2>. HIDE DEF r
  <2>. QED
    BY <2>1, <2>2, EnteringOverlaps
<1>3. CASE EmptyCartRequest(c, u)
  <2>. DEFINE r == [NoCall EXCEPT !.pc = "empty", !.user = u]
  <2>1. r \in Calls
    BY EmptyRequestType
  <2>2. Enter(c, r) /\ UNCHANGED <<cart, added>>
    BY <1>3 DEF EmptyCartRequest
  <2>. HIDE DEF r
  <2>. QED
    BY <2>1, <2>2, EnteringOverlaps
<1>. QED
  BY <1>1, <1>2, <1>3

LEMMA SharedStep ==
  CartInv /\ SerialInv /\ CartInv' /\ [CartNext]_cartVars =>
      [Shared!SharedNext]_(Shared!sharedVars)
<1>. SUFFICES ASSUME CartInv, SerialInv, CartInv', [CartNext]_cartVars
              PROVE  Shared!SharedNext \/ UNCHANGED Shared!sharedVars
  OBVIOUS
<1>1. CASE CartServiceStep
  BY <1>1, ServiceStepIsShared
<1>2. CASE \E c \in Callers : EmptyHeldCart(c) \/ Release(c)
  BY <1>2 DEF EmptyHeldCart, Release, Shared!sharedVars
<1>3. CASE UNCHANGED cartVars
  BY <1>3 DEF cartVars, Shared!sharedVars
<1>. QED
  BY <1>1, <1>2, <1>3, CallIsShared DEF CartNext

(***************************************************************************)
(* The service implements SharedCart: as long as the calls on a user's     *)
(* cart do not overlap, each of them is one indivisible step, and if they  *)
(* do, the carts of others are not concerned.                              *)
(***************************************************************************)
THEOREM CartImplementsSharedCart == CartSpec => ImplementsSharedCart
  BY SharedInitHolds, SharedStep, CartInvariant, SerialInvariant, PTL
  DEF CartSpec, ImplementsSharedCart, Shared!SharedSpec

--------------------------------------------------------------------------------
(* CartConnection *)

Places ==
    /\ flag \in BOOLEAN /\ failures \in Nat
    /\ lock \in Requests \cup {Nobody}
    /\ pc \in [Requests -> {"idle", "wait", "connect", "test", "mark", "use"}]
    /\ \A r \in Requests : pc[r] \in {"connect", "test", "mark"} <=> lock = r
    /\ \A e \in events : e.kind \in {"failed", "restored"}
    /\ IsFiniteSet(watched)

\* Somebody has attached handlers and not yet set the flag.
Marking == \E r \in Requests : pc[r] = "mark"

\* As long as someone makes a connection, or one has to be made, handlers
\* have run for as many failures as there are watched multiplexers.
Accounted ==
    IF Marking \/ (flag /\ lock = Nobody)
    THEN Cardinality(watched) =< failures + 1
    ELSE Cardinality(watched) =< failures

ConnInv == Places /\ Accounted

USE ConnectionAssumption DEF Nobody

LEMMA ConnInitInv == ConnInit => ConnInv
<1>. SUFFICES ASSUME ConnInit PROVE ConnInv
  OBVIOUS
<1>1. IsFiniteSet(watched) /\ Cardinality(watched) = 1
  BY FS_Singleton DEF ConnInit
<1>. QED
  BY <1>1 DEF ConnInit, ConnInv, Places, Accounted, Marking

LEMMA CountType == Places => Cardinality(watched) \in Nat
  BY FS_CardinalityType DEF Places

\* A request that moves outside the lock.
LEMMA OutsideKeeps ==
  ASSUME ConnInv, NEW r \in Requests, Ensure(r) \/ Use(r)
  PROVE  ConnInv'
<1>1. Places'
  BY DEF ConnInv, Places, Ensure, Use, Proceed, environment
<1>2. Marking' <=> Marking
  BY DEF ConnInv, Places, Ensure, Use, Proceed, Marking
<1>3. UNCHANGED <<flag, lock, watched, failures>>
  BY DEF Ensure, Use, environment
<1>. QED
  BY <1>1, <1>2, <1>3 DEF ConnInv, Accounted

LEMMA LockKeeps ==
  ASSUME ConnInv, NEW r \in Requests, Lock(r)
  PROVE  ConnInv'
<1>1. Places'
  BY DEF ConnInv, Places, Lock, Proceed, environment
<1>2. ~Marking /\ ~Marking'
  BY DEF ConnInv, Places, Lock, Proceed, Marking
<1>3. UNCHANGED <<flag, watched, failures>> /\ lock = Nobody
  BY DEF Lock, environment
<1>4. IF flag THEN lock' = Nobody ELSE lock' = r
  BY DEF Lock, Proceed
<1>. QED
  BY <1>1, <1>2, <1>3, <1>4, CountType DEF ConnInv, Accounted

LEMMA ConnectKeeps ==
  ASSUME ConnInv, NEW r \in Requests, Connect(r)
  PROVE  ConnInv'
<1>1. Places'
  BY DEF ConnInv, Places, Connect, Proceed, environment
<1>2. ~Marking /\ ~Marking' /\ lock = r
  BY DEF ConnInv, Places, Connect, Proceed, Marking
<1>3. UNCHANGED <<flag, lock, watched, failures>>
  BY DEF Connect, environment
<1>. QED
  BY <1>1, <1>2, <1>3 DEF ConnInv, Accounted

LEMMA TestFailsKeeps ==
  ASSUME ConnInv, NEW r \in Requests, TestFails(r)
  PROVE  ConnInv'
<1>1. Places'
  BY DEF ConnInv, Places, TestFails, Throw, Proceed, environment
<1>2. ~Marking /\ ~Marking' /\ lock = r
  BY DEF ConnInv, Places, TestFails, Throw, Proceed, Marking
<1>3. UNCHANGED <<flag, watched, failures>>
  BY DEF TestFails, Throw, environment
<1>. QED
  BY <1>1, <1>2, <1>3, CountType DEF ConnInv, Accounted, Places

LEMMA AttachKeeps ==
  ASSUME ConnInv, NEW r \in Requests, Attach(r)
  PROVE  ConnInv'
<1>1. watched' = watched \cup {current} /\ IsFiniteSet(watched)
  BY DEF ConnInv, Places, Attach
<1>2. /\ IsFiniteSet(watched')
      /\ Cardinality(watched') =< Cardinality(watched) + 1
  BY <1>1, FS_AddElement, CountType DEF ConnInv
<1>3. Places'
  BY <1>2 DEF ConnInv, Places, Attach, Proceed, environment
<1>4. ~Marking /\ Marking' /\ lock = r
  BY DEF ConnInv, Places, Attach, Proceed, Marking
<1>5. UNCHANGED <<flag, lock, failures>>
  BY DEF Attach, environment
<1>6. Cardinality(watched) =< failures /\ failures \in Nat
  BY <1>4 DEF ConnInv, Accounted, Places
<1>7. Cardinality(watched') \in Nat /\ Cardinality(watched) \in Nat
  BY <1>1, <1>2, FS_CardinalityType
<1>8. Cardinality(watched') =< failures' + 1
  BY <1>2, <1>5, <1>6, <1>7
<1>. QED
  BY <1>3, <1>4, <1>8 DEF ConnInv, Accounted

LEMMA MarkKeeps ==
  ASSUME ConnInv, NEW r \in Requests, Mark(r)
  PROVE  ConnInv'
<1>1. Places'
  BY DEF ConnInv, Places, Mark, Proceed, environment
<1>2. Marking
  BY DEF Mark, Marking
<1>3. flag' = TRUE /\ lock' = Nobody /\ UNCHANGED <<watched, failures>>
  BY DEF Mark, environment
<1>. QED
  BY <1>1, <1>2, <1>3 DEF ConnInv, Accounted

LEMMA HandleKeeps ==
  ASSUME ConnInv, NEW e \in events, Handle(e)
  PROVE  ConnInv'
<1>1. Places'
  BY DEF ConnInv, Places, Handle
<1>2. Marking' <=> Marking
  BY DEF Handle, Marking
<1>3. UNCHANGED <<watched, lock>>
  BY DEF Handle
<1>4. CASE e.kind = "failed"
  <2>1. flag' = FALSE /\ failures' = failures + 1
    BY <1>4 DEF Handle
  <2>. QED
    BY <1>1, <1>2, <1>3, <2>1, CountType DEF ConnInv, Accounted, Places
<1>5. CASE e.kind = "restored"
  <2>1. flag' = TRUE /\ failures' = failures
    BY <1>5 DEF Handle
  <2>. QED
    BY <1>1, <1>2, <1>3, <2>1, CountType DEF ConnInv, Accounted, Places
<1>. QED
  BY <1>4, <1>5 DEF ConnInv, Places

\* What happens outside the service.
LEMMA EnvironmentKeeps ==
  ASSUME ConnInv,
         UNCHANGED <<flag, lock, pc, watched, failures>>,
         \A e \in events' : e \in events \/ e.kind \in {"failed", "restored"}
  PROVE  ConnInv'
  BY DEF ConnInv, Places, Accounted, Marking

LEMMA ConnNextInv == ConnInv /\ [ConnNext]_connVars => ConnInv'
<1>. SUFFICES ASSUME ConnInv, [ConnNext]_connVars PROVE ConnInv'
  OBVIOUS
<1>1. CASE \E r \in Requests : Ensure(r) \/ RequestStep(r)
  BY <1>1, OutsideKeeps, LockKeeps, ConnectKeeps, TestFailsKeeps, AttachKeeps,
     MarkKeeps DEF RequestStep
<1>2. CASE Outage \/ Return \/ UNCHANGED connVars
  BY <1>2, EnvironmentKeeps DEF Outage, Return, connVars, Event
<1>3. CASE \E m \in Multiplexers : Drop(m) \/ Restore(m)
  BY <1>3, EnvironmentKeeps DEF Drop, Restore, Event
<1>4. CASE \E e \in events : Handle(e)
  BY <1>4, HandleKeeps
<1>. QED
  BY <1>1, <1>2, <1>3, <1>4 DEF ConnNext

LEMMA ConnTypeInit == ConnInit => ConnTypeOK
  BY DEF ConnInit, ConnTypeOK

LEMMA ConnTypeNext == ConnTypeOK /\ [ConnNext]_connVars => ConnTypeOK'
<1>. SUFFICES ASSUME ConnTypeOK, [ConnNext]_connVars PROVE ConnTypeOK'
  OBVIOUS
<1>. USE DEF ConnTypeOK
<1>1. ASSUME NEW r \in Requests, Ensure(r) PROVE ConnTypeOK'
  BY <1>1 DEF Ensure, Proceed, environment
<1>2. ASSUME NEW r \in Requests, Lock(r) PROVE ConnTypeOK'
  BY <1>2 DEF Lock, Proceed, environment
<1>3. ASSUME NEW r \in Requests, Connect(r) PROVE ConnTypeOK'
  <2>. DEFINE free == Multiplexers \ (watched \cup {current})
  <2>1. free # {} /\ current' = CHOOSE m \in free : TRUE
    BY <1>3 DEF Connect
  <2>2. current' \in Multiplexers
    BY <2>1
  <2>3. up' \subseteq Multiplexers
    BY <1>3, <2>2 DEF Connect
  <2>. QED
    BY <1>3, <2>2, <2>3 DEF Connect, Proceed, environment
<1>4. ASSUME NEW r \in Requests, TestFails(r) PROVE ConnTypeOK'
  BY <1>4 DEF TestFails, Throw, Proceed, environment
<1>5. ASSUME NEW r \in Requests, Attach(r) PROVE ConnTypeOK'
  BY <1>5 DEF Attach, Proceed, environment
<1>6. ASSUME NEW r \in Requests, Mark(r) PROVE ConnTypeOK'
  BY <1>6 DEF Mark, Proceed, environment
<1>7. ASSUME NEW r \in Requests, Use(r) PROVE ConnTypeOK'
  BY <1>7 DEF Use, Proceed, environment
<1>8. CASE Outage
  <2>1. events' \subseteq [of : watched, kind : {"failed", "restored"}]
    BY <1>8 DEF Outage, Event
  <2>2. outages' \in 0..MaxOutages
    BY <1>8 DEF Outage
  <2>. QED
    BY <1>8, <2>1, <2>2 DEF Outage
<1>9. ASSUME NEW m \in Multiplexers, Drop(m) PROVE ConnTypeOK'
  BY <1>9 DEF Drop, Event
<1>10. CASE Return
  BY <1>10 DEF Return
<1>11. ASSUME NEW m \in Multiplexers, Restore(m) PROVE ConnTypeOK'
  BY <1>11 DEF Restore, Event
<1>12. ASSUME NEW e \in events, Handle(e) PROVE ConnTypeOK'
  BY <1>12 DEF Handle
<1>13. CASE UNCHANGED connVars
  BY <1>13 DEF connVars
<1>. QED
  BY <1>1, <1>2, <1>3, <1>4, <1>5, <1>6, <1>7, <1>8, <1>9, <1>10, <1>11, <1>12, <1>13
     DEF ConnNext, RequestStep

(***************************************************************************)
(* Only the request that holds the lock is between its two ends, and only  *)
(* watched multiplexers have events.                                       *)
(***************************************************************************)
THEOREM ConnTypeCorrect == ConnSpec => []ConnTypeOK
  BY ConnTypeInit, ConnTypeNext, PTL DEF ConnSpec

(***************************************************************************)
(* A multiplexer that works is only replaced after a handler has run for a *)
(* failure, however many requests find the connection closed at once: the  *)
(* second check of the flag in EnsureRedisConnected.                       *)
(***************************************************************************)
THEOREM ReplacedOnlyAfterFailuresHolds == ConnSpec => []ReplacedOnlyAfterFailures
<1>1. ConnInv => ReplacedOnlyAfterFailures
  BY CountType DEF ConnInv, Accounted, Places, ReplacedOnlyAfterFailures
<1>. QED
  BY <1>1, ConnInitInv, ConnNextInv, PTL DEF ConnSpec
================================================================================
