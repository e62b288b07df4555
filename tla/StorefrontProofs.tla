---------------------------- MODULE StorefrontProofs ----------------------------
(***************************************************************************)
(* What a user of the shop can rely on, for any number of clicks, orders,  *)
(* currencies and repeated requests.  Beside the types, the invariant says *)
(* what a running load will know (FetchSees), how the states of services   *)
(* and page go together (Agreement, CallsAgree), what carts hold           *)
(* (InTheCarts), what is known of orders before it (Earlier), and what it  *)
(* stands for while nobody clicks (OrderStands).                           *)
(***************************************************************************)
EXTENDS Storefront, TLAPS

Done == {c \in Clicks : server[c] = "done"}

\* A load that was read has every success that it will not count as missed.
FetchSees ==
    \A k \in Currencies : query[k].stage = "read" =>
        \A c \in Succeeded : doneAt[c] =< query[k].fetch.version \/ c \in query[k].fetch.missed

\* The last cart has an author, or an order that nobody waited for made it.
Agreement ==
    /\ \A c \in Clicks : clicked[c] = "none" <=> server[c] = "none"
    /\ \A c \in Clicks : clicked[c] = "succeeded" => server[c] \in {"done", "unsure"}
    /\ \A c \in Clicks : doneAt[c] # 0 <=> server[c] = "done"
    /\ Len(carts) > 1 => \E c \in Clicks : doneAt[c] = Len(carts) \/ server[c] = "unsure"

\* A call that is under way works with the cart that its click has read.
CallsAgree ==
    /\ cart = carts[Len(carts)]
    /\ \A c \in Clicks :
          /\ call[c].at \in {"adding", "ordering"} =>
                server[c] = "asked" /\ readAt[c] # 0 /\ call[c].cart = carts[readAt[c]]
          /\ call[c].at = "late" => server[c] = "unsure" /\ readAt[c] # 0
          /\ call[c].at = "idle" /\ server[c] \in {"none", "asked"} => readAt[c] = 0

\* Since p has emptied the cart nothing that it bought is in there, or some
\* addition has brought it back.
StaysOut(p) ==
    doneAt[p] # 0 /\ ~Undone(p) =>
        \A v \in doneAt[p]..Len(carts) : carts[v] \cap Bought(p) = {}

InTheCarts ==
    /\ \A v \in 1..Len(carts) : carts[v] \subseteq Done
    /\ \A p \in Orders : StaysOut(p)

Earlier ==
    \A o \in Orders : \A p \in basis[o].placed :
        /\ server[p] = "done" /\ doneAt[p] # 0
        /\ readAt[o] # 0 => doneAt[p] =< readAt[o]

\* What o buys, as far as one can tell by now.
Buys(o) == IF readAt[o] = 0 THEN cart ELSE Bought(o)

OrderStands ==
    \A o \in Orders :
        /\ clicked[o] # "none" => basis[o].before \subseteq Clicked
        /\ basis[o].sure /\ Clicked = basis[o].before \cup {o}
              => /\ Buys(o) = basis[o].items
                 /\ \A c \in Clicked \ {o} : server[c] \in {"done", "refused"}

--------------------------------------------------------------------------------
(* The steps of the services, by what they do *)

Is(at, m) == [at |-> at, cart |-> m]

Reads(c, at) ==
    /\ call[c].at = "idle" /\ server[c] = "asked" /\ at \in {"adding", "ordering"}
    /\ call' = [call EXCEPT ![c] = Is(at, cart)]
    /\ readAt' = [readAt EXCEPT ![c] = Len(carts)]
    /\ UNCHANGED <<cart, carts, doneAt, server, pageVars>>

Puts(c, new) ==
    /\ server[c] = "asked"
    /\ \/ c \in Empties /\ call[c].at = "idle" /\ new = {} /\ UNCHANGED call
       \/ /\ c \in Orders /\ call[c].at \in {"ordering", "late"} /\ new = {}
          /\ call' = [call EXCEPT ![c] = Is("idle", {})]
       \/ /\ c \in Adds /\ call[c].at = "adding" /\ new = call[c].cart \cup {c}
          /\ call' = [call EXCEPT ![c] = Is("idle", {})]
    /\ cart' = new
    /\ carts' = Append(carts, new)
    /\ server' = [server EXCEPT ![c] = "done"]
    /\ doneAt' = [doneAt EXCEPT ![c] = Len(carts) + 1]
    /\ UNCHANGED <<readAt, pageVars>>

PutsLate(c) ==
    /\ server[c] = "unsure" /\ call[c].at \in {"ordering", "late"}
    /\ call' = [call EXCEPT ![c] = Is("idle", {})]
    /\ cart' = {}
    /\ carts' = Append(carts, {})
    /\ UNCHANGED <<readAt, doneAt, server, pageVars>>

Ends(c, at, outcome) ==
    /\ server[c] = "asked"
    /\ \/ at = "idle" /\ outcome = "refused"
       \/ at = "late" /\ outcome = "unsure" /\ call[c].at = "ordering"
    /\ call' = [d \in Clicks |-> IF d = c THEN Is(at, {}) ELSE call[d]]
    /\ server' = [server EXCEPT ![c] = outcome]
    /\ UNCHANGED <<cart, carts, readAt, doneAt, pageVars>>

Serves(c) ==
    \/ \E at \in {"adding", "ordering"} : Reads(c, at)
    \/ \E new : Puts(c, new)
    \/ PutsLate(c)
    \/ \E at, outcome : Ends(c, at, outcome)

LEMMA AddServes ==
  ASSUME NEW a \in Adds, ReadForAdd(a) \/ AddItem(a)
  PROVE  Serves(a)
<1>1. CASE ReadForAdd(a)
  <2>1. Reads(a, "adding")
    BY <1>1 DEF ReadForAdd, HasRead, Reads, Is, Services!ReadToAdd, Services!Turns, Services!Call
  <2>. QED
    BY <2>1 DEF Serves
<1>2. CASE AddItem(a)
  <2>1. Puts(a, call[a].cart \cup {a})
    BY <1>2 DEF AddItem, HasDone, Puts, Is, PutIn, Services!WriteAddition, Services!Turns,
                Services!NoCall, Services!Call
  <2>. QED
    BY <2>1 DEF Serves
<1>. QED
  BY <1>1, <1>2

LEMMA EmptyServes ==
  ASSUME NEW e \in Empties, EmptyCart(e)
  PROVE  Serves(e)
<1>1. Puts(e, {})
  BY DEF EmptyCart, HasDone, Puts, Services!Empty
<1>. QED
  BY <1>1 DEF Serves

LEMMA OrderServes ==
  ASSUME NEW o \in Orders, \/ PrepareOrder(o) \/ EmptyUserCart(o)
                           \/ EmptyUserCartGivenUp(o) \/ EmptyUserCartLate(o)
  PROVE  Serves(o)
<1>1. CASE PrepareOrder(o)
  <2>1. Reads(o, "ordering")
    BY <1>1 DEF PrepareOrder, HasRead, Reads, Is, Services!ReadToOrder, Services!Turns,
                Services!Call
  <2>. QED
    BY <2>1 DEF Serves
<1>2. CASE EmptyUserCart(o)
  <2>1. Puts(o, {})
    BY <1>2 DEF EmptyUserCart, HasDone, Puts, Is, Services!EmptyOrdered, Services!Turns,
                Services!NoCall, Services!Call
  <2>. QED
    BY <2>1 DEF Serves
<1>3. CASE EmptyUserCartGivenUp(o)
  <2>1. Ends(o, "late", "unsure")
    BY <1>3 DEF EmptyUserCartGivenUp, HasEnded, Ends, Is, Services!Lose, Services!Call,
                Services!NoCall
  <2>. QED
    BY <2>1 DEF Serves
<1>4. CASE EmptyUserCartLate(o)
  <2>1. PutsLate(o)
    BY <1>4 DEF EmptyUserCartLate, PutsLate, Is, Services!EmptyOrdered, Services!Turns,
                Services!NoCall, Services!Call
  <2>. QED
    BY <2>1 DEF Serves
<1>. QED
  BY <1>1, <1>2, <1>3, <1>4

LEMMA RefuseServes ==
  ASSUME NEW c \in Clicks, Refuse(c)
  PROVE  Serves(c)
<1>1. Ends(c, "idle", "refused")
  BY DEF Refuse, HasEnded, Ends, Is, Services!Lose, Services!Call, Services!NoCall
<1>. QED
  BY <1>1 DEF Serves

LEMMA Steps ==
  ASSUME ShopNext
  PROVE  \/ \E k \in Currencies : Read(k) \/ Arrive(k) \/ ReadFails(k) \/ SelectCurrency(k)
         \/ Focus
         \/ Reload
         \/ \E a \in Adds : ClickAdd(a)
         \/ \E e \in Empties : ClickEmpty(e)
         \/ \E o \in Orders : ClickOrder(o)
         \/ \E c \in Clicks : Serves(c) \/ Succeed(c) \/ Fail(c)
<1>1. Adds \subseteq Clicks /\ Empties \subseteq Clicks /\ Orders \subseteq Clicks
  BY DEF Clicks
<1>. QED
  BY <1>1, AddServes, EmptyServes, OrderServes, RefuseServes DEF ShopNext

LEMMA ServesLeavesPage ==
  ASSUME NEW c \in Clicks, Serves(c)
  PROVE  UNCHANGED pageVars
  BY DEF Serves, Reads, Puts, PutsLate, Ends

--------------------------------------------------------------------------------
(* Types *)

LEMMA LoadType ==
  ASSUME NEW version \in Nat, NEW missed \in SUBSET Clicks
  PROVE  /\ Load(version, missed) \in Loads
         /\ Load(version, missed).version = version
         /\ Load(version, missed).missed = missed
  BY DEF Load, Loads

LEMMA NoLoadType ==
  /\ NoLoad \in Loads /\ NoLoad.version = 0 /\ NoLoad.missed = {}
  BY LoadType DEF NoLoad

LEMMA QueryParts ==
  ASSUME NEW q \in Queries
  PROVE  /\ q.shown \in Loads /\ q.fetch \in Loads /\ q.tries \in 0..Retry
         /\ q.stage \in {"idle", "asked", "read"} /\ q.failed \in BOOLEAN
         /\ q.shown.version \in Nat /\ q.shown.missed \in SUBSET Clicks
         /\ q.fetch.version \in Nat /\ q.fetch.missed \in SUBSET Clicks
  BY DEF Queries, Loads

\* What each of the operators makes of a query.
LEMMA FetchingType ==
  ASSUME NEW q \in Queries
  PROVE  /\ Fetching(q) \in Queries
         /\ Fetching(q).shown = q.shown /\ Fetching(q).fetch = NoLoad
         /\ Fetching(q).stage = "asked"
<1>1. 0 \in 0..Retry
  BY ClicksAssumption
<1>. QED
  BY <1>1, NoLoadType DEF Fetching, Query, Queries

LEMMA MissingType ==
  ASSUME NEW q \in Queries, NEW c \in Clicks
  PROVE  /\ Missing(q, c) \in Queries
         /\ Missing(q, c).shown = q.shown /\ Missing(q, c).stage = q.stage
         /\ Missing(q, c).failed = q.failed
         /\ Missing(q, c).fetch.version = q.fetch.version
         /\ Missing(q, c).fetch.missed = q.fetch.missed \cup {c}
<1>. DEFINE l == Load(q.fetch.version, q.fetch.missed \cup {c})
<1>1. l \in Loads /\ l.version = q.fetch.version /\ l.missed = q.fetch.missed \cup {c}
  BY QueryParts, LoadType
<1>. HIDE DEF l
<1>. Missing(q, c) = Query(q.shown, l, q.stage, q.tries, q.failed)
  BY DEF Missing, l
<1>. QED
  BY <1>1, QueryParts DEF Query, Queries

LEMMA HavingType ==
  ASSUME NEW q \in Queries, Len(carts) \in Nat
  PROVE  /\ Having(q) \in Queries
         /\ Having(q).shown = q.shown /\ Having(q).stage = "read"
         /\ Having(q).failed = q.failed
         /\ Having(q).fetch.version = Len(carts)
         /\ Having(q).fetch.missed = q.fetch.missed
<1>. DEFINE l == Load(Len(carts), q.fetch.missed)
<1>1. l \in Loads /\ l.version = Len(carts) /\ l.missed = q.fetch.missed
  BY QueryParts, LoadType
<1>. HIDE DEF l
<1>. Having(q) = Query(q.shown, l, "read", q.tries, q.failed)
  BY DEF Having, l
<1>. QED
  BY <1>1, QueryParts DEF Query, Queries

LEMMA ShowingType ==
  ASSUME NEW q \in Queries
  PROVE  /\ Showing(q) \in Queries
         /\ Showing(q).shown = q.fetch /\ Showing(q).fetch = NoLoad
         /\ Showing(q).stage = "idle"
<1>1. 0 \in 0..Retry
  BY ClicksAssumption
<1>. QED
  BY <1>1, QueryParts, NoLoadType DEF Showing, Query, Queries

LEMMA AskedAgainType ==
  ASSUME NEW q \in Queries, q.tries < Retry
  PROVE  /\ AskedAgain(q) \in Queries
         /\ AskedAgain(q).shown = q.shown /\ AskedAgain(q).stage = "asked"
         /\ AskedAgain(q).fetch.version = 0
<1>. DEFINE l == Load(0, q.fetch.missed)
<1>1. l \in Loads /\ l.version = 0
  BY QueryParts, LoadType
<1>2. q.tries + 1 \in 0..Retry
  BY QueryParts, ClicksAssumption
<1>. HIDE DEF l
<1>. AskedAgain(q) = Query(q.shown, l, "asked", q.tries + 1, q.failed)
  BY DEF AskedAgain, l
<1>. QED
  BY <1>1, <1>2, QueryParts DEF Query, Queries

LEMMA GivenUpType ==
  ASSUME NEW q \in Queries
  PROVE  /\ GivenUp(q) \in Queries
         /\ GivenUp(q).shown = q.shown /\ GivenUp(q).fetch = NoLoad
         /\ GivenUp(q).stage = "idle" /\ GivenUp(q).failed = TRUE
<1>1. 0 \in 0..Retry
  BY ClicksAssumption
<1>. QED
  BY <1>1, QueryParts, NoLoadType DEF GivenUp, Query, Queries

\* Putting a query that fits into its place.
LEMMA StepType ==
  ASSUME ShopTypeOK, NEW k \in Currencies, NEW q \in Queries, Step(k, q),
         q.shown.version \in 0..Len(carts), q.fetch.version \in 0..Len(carts)
  PROVE  ShopTypeOK'
<1>1. UNCHANGED <<serverVars, clicked, basis, selectedCurrency>> /\ query' = [query EXCEPT ![k] = q]
  BY DEF Step
<1>2. query' \in [Currencies -> Queries]
  BY <1>1 DEF ShopTypeOK
<1>3. ASSUME NEW j \in Currencies
      PROVE  query'[j].shown.version \in 0..Len(carts) /\ query'[j].fetch.version \in 0..Len(carts)
  <2>1. query'[j] = IF j = k THEN q ELSE query[j]
    BY <1>1 DEF ShopTypeOK
  <2>. QED
    BY <2>1 DEF ShopTypeOK
<1>. QED
  BY <1>1, <1>2, <1>3 DEF ShopTypeOK, serverVars, Clicks

\* One more cart.
LEMMA AppendType ==
  ASSUME ShopTypeOK, NEW new \in SUBSET Adds, carts' = Append(carts, new)
  PROVE  /\ carts' \in Seq(SUBSET Adds) /\ Len(carts') = Len(carts) + 1
         /\ carts'[Len(carts')] = new
         /\ \A i \in 1..Len(carts) : carts'[i] = carts[i]
         /\ 0..Len(carts) \subseteq 0..Len(carts')
         /\ Len(carts) + 1 \in 0..Len(carts')
         /\ Len(carts) \in Nat /\ Len(carts) > 0
<1>1. /\ carts' \in Seq(SUBSET Adds) /\ Len(carts') = Len(carts) + 1
      /\ carts'[Len(carts')] = new /\ \A i \in 1..Len(carts) : carts'[i] = carts[i]
      /\ Len(carts) \in Nat /\ Len(carts) > 0
  BY DEF ShopTypeOK
<1>. QED
  BY <1>1

LEMMA CartType ==
  ASSUME ShopTypeOK
  PROVE  /\ cart \in SUBSET Adds /\ Len(carts) \in Nat /\ Len(carts) > 0
         /\ \A v \in 1..Len(carts) : carts[v] \in SUBSET Adds
         /\ Shown \in SUBSET Adds /\ page \in Queries
         /\ page.shown.version \in 0..Len(carts)
<1>1. page \in Queries /\ page.shown.version \in 0..Len(carts)
  BY DEF ShopTypeOK, page
<1>2. \A v \in 1..Len(carts) : carts[v] \in SUBSET Adds
  BY DEF ShopTypeOK
<1>3. Shown \in SUBSET Adds
  BY <1>1 DEF ShopTypeOK, Shown
<1>. QED
  BY <1>1, <1>2, <1>3 DEF ShopTypeOK

CallTypes == [at : {"idle", "adding", "ordering", "late"}, cart : SUBSET Adds]

LEMMA TypeInit == ShopInit => ShopTypeOK
<1>. SUFFICES ASSUME ShopInit PROVE ShopTypeOK
  OBVIOUS
<1>1. NoQuery \in Queries /\ NoQuery.shown = NoLoad /\ NoQuery.fetch = NoLoad
  BY ClicksAssumption, NoLoadType DEF NoQuery, Query, Queries
<1>2. carts \in Seq(SUBSET Adds) /\ Len(carts) = 1
  BY DEF ShopInit
<1>3. ASSUME NEW k \in Currencies
      PROVE  /\ query[k] \in Queries
             /\ query[k].shown.version = 0 /\ query[k].fetch.version = 0
  BY <1>1, FetchingType, NoLoadType DEF ShopInit
<1>4. query \in [Currencies -> Queries]
  BY <1>3 DEF ShopInit
<1>5. basis \in [Orders -> [items : SUBSET Adds, sure : BOOLEAN,
                            before : SUBSET Clicks, placed : SUBSET Orders]]
  BY DEF ShopInit, NoBasis
<1>6. cart = {} /\ call \in [Clicks -> CallTypes]
  BY DEF ShopInit, Services!CallsInit, Services!NoCall, Services!Call, CallTypes
<1>. QED
  BY <1>2, <1>3, <1>4, <1>5, <1>6 DEF ShopInit, ShopTypeOK, CallTypes

LEMMA ServesType ==
  ASSUME ShopTypeOK, NEW c \in Clicks, Serves(c)
  PROVE  ShopTypeOK'
<1>0. /\ call \in [Clicks -> CallTypes] /\ cart \in SUBSET Adds
      /\ Len(carts) \in Nat /\ Len(carts) > 0 /\ Len(carts) \in 0..Len(carts)
  BY CartType DEF ShopTypeOK, CallTypes
<1>1. \A at \in {"idle", "adding", "ordering", "late"}, m \in SUBSET Adds : Is(at, m) \in CallTypes
  BY DEF Is, CallTypes
<1>2. ASSUME NEW at \in {"adding", "ordering"}, Reads(c, at) PROVE ShopTypeOK'
  <2>1. call' \in [Clicks -> CallTypes]
    BY <1>0, <1>1, <1>2 DEF Reads
  <2>2. readAt' \in [Clicks -> 0..Len(carts)]
    BY <1>0, <1>2 DEF Reads, ShopTypeOK
  <2>3. UNCHANGED <<cart, carts, doneAt, server, clicked, basis, selectedCurrency, query>>
    BY <1>2 DEF Reads, pageVars
  <2>. QED
    BY <2>1, <2>2, <2>3 DEF ShopTypeOK, CallTypes
<1>3. ASSUME NEW new \in SUBSET Adds, carts' = Append(carts, new), cart' = new,
             call' \in [Clicks -> CallTypes], UNCHANGED <<readAt, pageVars>>,
             server' \in [Clicks -> {"none", "asked", "done", "refused", "unsure"}],
             doneAt' \in [Clicks -> 0..Len(carts')]
      PROVE  ShopTypeOK'
  <2>1. /\ carts' \in Seq(SUBSET Adds) /\ Len(carts') > 0
        /\ 0..Len(carts) \subseteq 0..Len(carts')
    BY <1>3, AppendType
  <2>2. UNCHANGED <<readAt, clicked, basis, selectedCurrency, query>>
    BY <1>3 DEF pageVars
  <2>3. readAt' \in [Clicks -> 0..Len(carts')]
    BY <2>1, <2>2 DEF ShopTypeOK
  <2>. QED
    BY <1>3, <2>1, <2>2, <2>3 DEF ShopTypeOK, CallTypes
<1>4. ASSUME NEW new, Puts(c, new) PROVE ShopTypeOK'
  <2>1. new \in SUBSET Adds /\ carts' = Append(carts, new)
    BY <1>0, <1>4 DEF Puts, CallTypes
  <2>2. call' \in [Clicks -> CallTypes]
    BY <1>0, <1>1, <1>4 DEF Puts
  <2>3. doneAt' \in [Clicks -> 0..Len(carts')]
    BY <1>4, <2>1, AppendType DEF Puts, ShopTypeOK
  <2>. QED
    BY <1>3, <1>4, <2>1, <2>2, <2>3 DEF Puts, ShopTypeOK
<1>5. ASSUME PutsLate(c) PROVE ShopTypeOK'
  <2>1. call' \in [Clicks -> CallTypes]
    BY <1>0, <1>1, <1>5 DEF PutsLate
  <2>2. /\ {} \in SUBSET Adds /\ carts' = Append(carts, {}) /\ cart' = {}
        /\ UNCHANGED <<readAt, doneAt, server, pageVars>>
    BY <1>5 DEF PutsLate
  <2>3. doneAt' \in [Clicks -> 0..Len(carts')]
    BY <2>2, AppendType DEF ShopTypeOK
  <2>4. server' \in [Clicks -> {"none", "asked", "done", "refused", "unsure"}]
    BY <2>2 DEF ShopTypeOK
  <2>. QED
    BY <1>3, <2>1, <2>2, <2>3, <2>4
<1>6. ASSUME NEW at, NEW outcome, Ends(c, at, outcome) PROVE ShopTypeOK'
  <2>1. call' \in [Clicks -> CallTypes]
    BY <1>0, <1>1, <1>6 DEF Ends
  <2>2. server' \in [Clicks -> {"none", "asked", "done", "refused", "unsure"}]
    BY <1>6 DEF Ends, ShopTypeOK
  <2>3. UNCHANGED <<cart, carts, readAt, doneAt, clicked, basis, selectedCurrency, query>>
    BY <1>6 DEF Ends, pageVars
  <2>. QED
    BY <2>1, <2>2, <2>3 DEF ShopTypeOK, CallTypes
<1>. QED
  BY <1>2, <1>4, <1>5, <1>6 DEF Serves

LEMMA TypeStep == ShopTypeOK /\ [ShopNext]_shopVars => ShopTypeOK'
<1>. SUFFICES ASSUME ShopTypeOK, [ShopNext]_shopVars PROVE ShopTypeOK'
  OBVIOUS
<1>. USE CartType
<1>1. ASSUME NEW k \in Currencies, Read(k) PROVE ShopTypeOK'
  <2>1. query[k] \in Queries /\ query[k].shown.version \in 0..Len(carts)
    BY DEF ShopTypeOK
  <2>. QED
    BY <1>1, <2>1, HavingType, StepType DEF Read
<1>2. ASSUME NEW k \in Currencies, Arrive(k) PROVE ShopTypeOK'
  <2>1. query[k] \in Queries /\ query[k].fetch.version \in 0..Len(carts)
    BY DEF ShopTypeOK
  <2>. QED
    BY <1>2, <2>1, ShowingType, NoLoadType, StepType DEF Arrive
<1>3. ASSUME NEW k \in Currencies, ReadFails(k) PROVE ShopTypeOK'
  <2>1. query[k] \in Queries /\ query[k].shown.version \in 0..Len(carts)
    BY DEF ShopTypeOK
  <2>2. CASE query[k].tries < Retry /\ Step(k, AskedAgain(query[k]))
    BY <2>1, <2>2, AskedAgainType, StepType
  <2>3. CASE Step(k, GivenUp(query[k]))
    <3>1. /\ GivenUp(query[k]) \in Queries
          /\ GivenUp(query[k]).shown.version \in 0..Len(carts)
          /\ GivenUp(query[k]).fetch.version \in 0..Len(carts)
      <4>1. 0 \in 0..Len(carts)
        OBVIOUS
      <4>2. GivenUp(query[k]) \in Queries
            /\ GivenUp(query[k]).shown = query[k].shown /\ GivenUp(query[k]).fetch = NoLoad
        BY <2>1, GivenUpType
      <4>. QED
        BY <2>1, <4>1, <4>2, NoLoadType
    <3>. QED
      BY <2>3, <3>1, StepType
  <2>. QED
    BY <1>3, <2>2, <2>3 DEF ReadFails
<1>4. ASSUME Focus PROVE ShopTypeOK'
  <2>1. /\ selectedCurrency \in Currencies /\ page \in Queries
        /\ page.shown.version \in 0..Len(carts) /\ page.fetch.version \in 0..Len(carts)
        /\ page = query[selectedCurrency]
    BY DEF ShopTypeOK, page
  <2>2. Joining(page) \in Queries /\ Joining(page).shown.version \in 0..Len(carts)
        /\ Joining(page).fetch.version \in 0..Len(carts)
    BY <2>1, FetchingType, NoLoadType DEF Joining
  <2>. QED
    BY <1>4, <2>1, <2>2, StepType DEF Focus
<1>5. ASSUME NEW k \in Currencies, SelectCurrency(k) PROVE ShopTypeOK'
  <2>1. /\ query[k] \in Queries /\ query[k].shown.version \in 0..Len(carts)
        /\ query[k].fetch.version \in 0..Len(carts)
    BY DEF ShopTypeOK
  <2>2. Joining(query[k]) \in Queries /\ Joining(query[k]).shown.version \in 0..Len(carts)
        /\ Joining(query[k]).fetch.version \in 0..Len(carts)
    BY <2>1, FetchingType, NoLoadType DEF Joining
  <2>. DEFINE q == Joining(query[k])
  <2>3. q \in Queries /\ q.shown.version \in 0..Len(carts) /\ q.fetch.version \in 0..Len(carts)
    BY <2>2
  <2>4. query' = [query EXCEPT ![k] = q] /\ UNCHANGED <<serverVars, clicked, basis>>
        /\ selectedCurrency' \in Currencies
    BY <1>5 DEF SelectCurrency
  <2>. HIDE DEF q
  <2>5. query' \in [Currencies -> Queries]
    BY <2>3, <2>4 DEF ShopTypeOK
  <2>6. ASSUME NEW j \in Currencies
        PROVE  query'[j].shown.version \in 0..Len(carts) /\ query'[j].fetch.version \in 0..Len(carts)
    <3>1. query'[j] = IF j = k THEN q ELSE query[j]
      BY <2>4 DEF ShopTypeOK
    <3>. QED
      BY <2>3, <3>1 DEF ShopTypeOK
  <2>. QED
    BY <2>4, <2>5, <2>6 DEF ShopTypeOK, serverVars
<1>6. ASSUME Reload PROVE ShopTypeOK'
  <2>1. NoQuery \in Queries /\ NoQuery.shown = NoLoad /\ NoQuery.fetch = NoLoad
    BY ClicksAssumption, NoLoadType DEF NoQuery, Query, Queries
  <2>2. ASSUME NEW k \in Currencies
        PROVE  /\ query'[k] \in Queries
               /\ query'[k].shown.version = 0 /\ query'[k].fetch.version = 0
    BY <1>6, <2>1, FetchingType, NoLoadType DEF Reload
  <2>3. query' \in [Currencies -> Queries]
    BY <1>6, <2>2 DEF Reload
  <2>4. clicked' \in [Clicks -> {"none", "pending", "succeeded", "failed"}]
    BY <1>6 DEF Reload, ShopTypeOK
  <2>. QED
    BY <1>6, <2>2, <2>3, <2>4 DEF Reload, ShopTypeOK, serverVars
<1>7. ASSUME NEW c \in Clicks, Send(c), 
             basis' \in [Orders -> [items : SUBSET Adds, sure : BOOLEAN,
                                    before : SUBSET Clicks, placed : SUBSET Orders]]
      PROVE  ShopTypeOK'
  BY <1>7 DEF Send, ShopTypeOK
<1>8. ASSUME NEW o \in Orders, ClickOrder(o) PROVE ShopTypeOK'
  <2>. DEFINE b == [items |-> IF NothingInDoubt THEN Shown ELSE {},
                    sure |-> NothingInDoubt,
                    before |-> IF NothingInDoubt THEN Clicked ELSE {},
                    placed |-> {p \in Orders : server[p] = "done"}]
  <2>1. NothingInDoubt \in BOOLEAN
    BY DEF NothingInDoubt, Settled
  <2>2. Clicked \in SUBSET Clicks
    BY DEF Clicked
  <2>3. b \in [items : SUBSET Adds, sure : BOOLEAN,
               before : SUBSET Clicks, placed : SUBSET Orders]
    BY <2>1, <2>2
  <2>4. basis' = [basis EXCEPT ![o] = b]
    BY <1>8 DEF ClickOrder
  <2>5. o \in Clicks /\ Send(o)
    BY <1>8 DEF ClickOrder, Clicks
  <2>. HIDE DEF b
  <2>6. basis' \in [Orders -> [items : SUBSET Adds, sure : BOOLEAN,
                               before : SUBSET Clicks, placed : SUBSET Orders]]
    BY <2>3, <2>4 DEF ShopTypeOK
  <2>. QED
    BY <1>7, <2>5, <2>6
<1>9. ASSUME NEW c \in Clicks, ClickAdd(c) \/ ClickEmpty(c) PROVE ShopTypeOK'
  BY <1>7, <1>9 DEF ClickAdd, ClickEmpty, ShopTypeOK
<1>10. ASSUME NEW c \in Clicks, Serves(c) PROVE ShopTypeOK'
  BY <1>10, ServesType
<1>11. ASSUME NEW c \in Clicks, Fail(c) PROVE ShopTypeOK'
  BY <1>11 DEF Fail, ShopTypeOK, serverVars
<1>12. ASSUME NEW c \in Clicks, Succeed(c) PROVE ShopTypeOK'
  <2>1. ASSUME NEW k \in Currencies
        PROVE  /\ query'[k] \in Queries
               /\ query'[k].shown.version \in 0..Len(carts)
               /\ query'[k].fetch.version \in 0..Len(carts)
    <3>1. /\ query[k] \in Queries /\ query[k].shown.version \in 0..Len(carts)
          /\ query[k].fetch.version \in 0..Len(carts)
      BY DEF ShopTypeOK
    <3>2. query'[k] \in {Missing(query[k], c), Invalidated(query[k]), query[k]}
      BY <1>12 DEF Succeed, AfterSuccess
    <3>. QED
      BY <3>1, <3>2, MissingType, FetchingType, NoLoadType DEF Invalidated
  <2>2. query' \in [Currencies -> Queries]
    BY <1>12, <2>1 DEF Succeed, AfterSuccess
  <2>. QED
    BY <1>12, <2>1, <2>2 DEF Succeed, ShopTypeOK, serverVars
<1>13. CASE UNCHANGED shopVars
  BY <1>13 DEF ShopTypeOK, shopVars, serverVars, pageVars
<1>14. Adds \subseteq Clicks /\ Empties \subseteq Clicks
  BY DEF Clicks
<1>. QED
  BY <1>1, <1>2, <1>3, <1>4, <1>5, <1>6, <1>8, <1>9, <1>10, <1>11, <1>12, <1>13, <1>14, Steps

(***************************************************************************)
(* The types: no load is of a cart that never was, no query is asked again *)
(* more often than it may be.                                              *)
(***************************************************************************)
THEOREM ShopTypeCorrect == ShopSpec => []ShopTypeOK
  BY TypeInit, TypeStep, PTL DEF ShopSpec

--------------------------------------------------------------------------------
(* The steps, by what they do outside the query *)

Sends(c) == Send(c) /\ (IF c \in Orders THEN ClickOrder(c) ELSE UNCHANGED basis)

Learns ==
    /\ UNCHANGED <<serverVars, basis>>
    /\ \A c \in Clicks : /\ clicked'[c] = "none" <=> clicked[c] = "none"
                         /\ clicked'[c] = "succeeded" =>
                               clicked[c] = "succeeded" \/ server[c] \in {"done", "unsure"}

LEMMA Kinds ==
  ASSUME ShopTypeOK, [ShopNext]_shopVars
  PROVE  \/ UNCHANGED <<serverVars, clicked, basis>>
         \/ \E c \in Clicks : Sends(c)
         \/ \E c \in Clicks : Serves(c)
         \/ Learns
<1>0. Adds \subseteq Clicks /\ Empties \subseteq Clicks /\ Orders \subseteq Clicks
  BY DEF Clicks
<1>1. ASSUME NEW k \in Currencies, Read(k) \/ Arrive(k) \/ ReadFails(k) \/ SelectCurrency(k)
      PROVE  UNCHANGED <<serverVars, clicked, basis>>
  BY <1>1 DEF Read, Arrive, ReadFails, SelectCurrency, Step
<1>2. Focus => UNCHANGED <<serverVars, clicked, basis>>
  BY DEF Focus, Step
<1>3. Reload => Learns
  BY DEF Reload, Learns, ShopTypeOK
<1>4. ASSUME NEW a \in Adds, ClickAdd(a) PROVE Sends(a)
  BY <1>4, ClicksAssumption DEF ClickAdd, Sends
<1>5. ASSUME NEW e \in Empties, ClickEmpty(e) PROVE Sends(e)
  BY <1>5, ClicksAssumption DEF ClickEmpty, Sends
<1>6. ASSUME NEW o \in Orders, ClickOrder(o) PROVE Sends(o)
  BY <1>6 DEF ClickOrder, Sends
<1>7. ASSUME NEW c \in Clicks, Succeed(c) \/ Fail(c) PROVE Learns
  BY <1>7 DEF Succeed, Fail, Learns, ShopTypeOK
<1>8. UNCHANGED shopVars => UNCHANGED <<serverVars, clicked, basis>>
  BY DEF shopVars, pageVars
<1>. QED
  BY <1>0, <1>1, <1>2, <1>3, <1>4, <1>5, <1>6, <1>7, <1>8, Steps

(***************************************************************************)
(* A step of the services on one click leaves the others alone and the     *)
(* carts of the past; a click that is done stays as it is.                 *)
(***************************************************************************)
LEMMA ServesOne ==
  ASSUME ShopTypeOK, NEW c \in Clicks, Serves(c)
  PROVE  /\ UNCHANGED <<clicked, basis>>
         /\ server[c] \in {"asked", "unsure"}
         /\ server[c] = "unsure" => UNCHANGED <<server, readAt, doneAt>>
         /\ \A d \in Clicks \ {c} : /\ server'[d] = server[d] /\ call'[d] = call[d]
                                   /\ readAt'[d] = readAt[d] /\ doneAt'[d] = doneAt[d]
         /\ \A v \in 1..Len(carts) : carts'[v] = carts[v]
<1>1. UNCHANGED <<clicked, basis>>
  BY ServesLeavesPage DEF pageVars
<1>2. /\ server[c] \in {"asked", "unsure"}
      /\ server[c] = "unsure" => UNCHANGED <<server, readAt, doneAt>>
  BY DEF Serves, Reads, Puts, PutsLate, Ends
<1>3. ASSUME NEW d \in Clicks \ {c}
      PROVE  /\ server'[d] = server[d] /\ call'[d] = call[d]
             /\ readAt'[d] = readAt[d] /\ doneAt'[d] = doneAt[d]
  BY DEF Serves, Reads, Puts, PutsLate, Ends, ShopTypeOK
<1>4. ASSUME NEW v \in 1..Len(carts) PROVE carts'[v] = carts[v]
  <2>1. UNCHANGED carts \/ \E new : carts' = Append(carts, new)
    BY DEF Serves, Reads, Puts, PutsLate, Ends
  <2>. QED
    BY <2>1 DEF ShopTypeOK
<1>. QED
  BY <1>1, <1>2, <1>3, <1>4

LEMMA AgreementStep ==
  ASSUME ShopTypeOK, Agreement, [ShopNext]_shopVars
  PROVE  Agreement'
<1>1. CASE UNCHANGED <<serverVars, clicked, basis>>
  BY <1>1 DEF Agreement, serverVars
<1>2. ASSUME NEW c \in Clicks, Sends(c) PROVE Agreement'
  BY <1>2 DEF Sends, Send, Agreement, ShopTypeOK
<1>3. ASSUME NEW c \in Clicks, NEW at, Reads(c, at) PROVE Agreement'
  BY <1>3 DEF Reads, Agreement, pageVars
<1>4. ASSUME NEW c \in Clicks, NEW new, Puts(c, new) PROVE Agreement'
  <2>1. /\ server[c] = "asked" /\ server' = [server EXCEPT ![c] = "done"] /\ UNCHANGED clicked
        /\ doneAt' = [doneAt EXCEPT ![c] = Len(carts) + 1] /\ carts' = Append(carts, new)
    BY <1>4 DEF Puts, pageVars
  <2>2. doneAt'[c] = Len(carts')
    BY <2>1 DEF ShopTypeOK
  <2>3. \A d \in Clicks : clicked'[d] = "none" <=> server'[d] = "none"
    BY <2>1 DEF Agreement, ShopTypeOK
  <2>4. \A d \in Clicks : clicked'[d] = "succeeded" => server'[d] \in {"done", "unsure"}
    BY <2>1 DEF Agreement, ShopTypeOK
  <2>5. \A d \in Clicks : doneAt'[d] # 0 <=> server'[d] = "done"
    BY <2>1 DEF Agreement, ShopTypeOK
  <2>. QED
    BY <2>2, <2>3, <2>4, <2>5 DEF Agreement
<1>5. ASSUME NEW c \in Clicks, PutsLate(c) PROVE Agreement'
  BY <1>5 DEF PutsLate, Agreement, pageVars
<1>6. ASSUME NEW c \in Clicks, NEW at, NEW outcome, Ends(c, at, outcome) PROVE Agreement'
  <2>1. /\ server[c] = "asked" /\ UNCHANGED <<clicked, carts, doneAt>>
        /\ outcome \in {"refused", "unsure"} /\ server' = [server EXCEPT ![c] = outcome]
    BY <1>6 DEF Ends, pageVars
  <2>2. \A d \in Clicks : server'[d] = IF d = c THEN outcome ELSE server[d]
    BY <2>1 DEF ShopTypeOK
  <2>3. Len(carts') > 1 => \E d \in Clicks : doneAt'[d] = Len(carts') \/ server'[d] = "unsure"
    BY <2>1, <2>2 DEF Agreement
  <2>. QED
    BY <2>1, <2>2, <2>3 DEF Agreement
<1>7. CASE Learns
  BY <1>7 DEF Learns, Agreement, serverVars
<1>. QED
  BY <1>1, <1>2, <1>3, <1>4, <1>5, <1>6, <1>7, Kinds DEF Serves

LEMMA CallsAgreeStep ==
  ASSUME ShopTypeOK, Agreement, CallsAgree, [ShopNext]_shopVars
  PROVE  CallsAgree'
<1>0. /\ \A d \in Clicks : call[d].at \in {"idle", "adding", "ordering", "late"}
      /\ \A d \in Clicks : readAt[d] \in 0..Len(carts)
      /\ Len(carts) \in Nat /\ Len(carts) > 0
  BY CartType DEF ShopTypeOK
<1>1. CASE UNCHANGED <<serverVars, clicked, basis>> \/ Learns
  BY <1>1 DEF CallsAgree, Learns, serverVars
<1>2. ASSUME NEW c \in Clicks, Sends(c) PROVE CallsAgree'
  <2>1. /\ server' = [server EXCEPT ![c] = "asked"] /\ server[c] = "none"
        /\ UNCHANGED <<cart, call, carts, readAt>>
    BY <1>2 DEF Sends, Send, Agreement
  <2>2. \A d \in Clicks : server'[d] = IF d = c THEN "asked" ELSE server[d]
    BY <2>1 DEF ShopTypeOK
  <2>. QED
    BY <1>0, <2>1, <2>2 DEF CallsAgree
<1>3. ASSUME NEW c \in Clicks, Serves(c),
             cart' = carts'[Len(carts')],
             call'[c].at \in {"adding", "ordering"} =>
                server'[c] = "asked" /\ readAt'[c] # 0 /\ call'[c].cart = carts'[readAt'[c]],
             call'[c].at = "late" => server'[c] = "unsure" /\ readAt'[c] # 0,
             call'[c].at = "idle" /\ server'[c] \in {"none", "asked"} => readAt'[c] = 0
      PROVE  CallsAgree'
  <2>1. ASSUME NEW d \in Clicks \ {c}
        PROVE  /\ server'[d] = server[d] /\ call'[d] = call[d] /\ readAt'[d] = readAt[d]
               /\ readAt[d] # 0 => carts'[readAt[d]] = carts[readAt[d]]
    BY <1>0, <1>3, ServesOne
  <2>. QED
    BY <1>3, <2>1 DEF CallsAgree
<1>4. ASSUME NEW c \in Clicks, NEW at \in {"adding", "ordering"}, Reads(c, at) PROVE CallsAgree'
  <2>1. /\ server'[c] = "asked" /\ cart' = cart /\ carts' = carts
        /\ call'[c] = Is(at, cart) /\ readAt'[c] = Len(carts)
    BY <1>4 DEF Reads, ShopTypeOK
  <2>2. call'[c].at = at /\ call'[c].cart = cart
    BY <2>1 DEF Is
  <2>3. Serves(c)
    BY <1>4 DEF Serves
  <2>. QED
    BY <1>0, <1>3, <2>1, <2>2, <2>3 DEF CallsAgree
<1>5. ASSUME NEW c \in Clicks, NEW new, Puts(c, new) PROVE CallsAgree'
  <2>1. /\ server'[c] = "done" /\ cart' = new /\ carts' = Append(carts, new)
    BY <1>5 DEF Puts, ShopTypeOK
  <2>2. call'[c].at = "idle"
    BY <1>5 DEF Puts, Is, ShopTypeOK
  <2>3. carts'[Len(carts')] = new
    BY <2>1 DEF ShopTypeOK
  <2>4. Serves(c)
    BY <1>5 DEF Serves
  <2>. QED
    BY <1>3, <2>1, <2>2, <2>3, <2>4
<1>6. ASSUME NEW c \in Clicks, PutsLate(c) PROVE CallsAgree'
  <2>1. /\ server'[c] = "unsure" /\ cart' = {} /\ carts' = Append(carts, {})
    BY <1>6 DEF PutsLate
  <2>2. call'[c].at = "idle"
    BY <1>6 DEF PutsLate, Is, ShopTypeOK
  <2>3. carts'[Len(carts')] = {}
    BY <2>1 DEF ShopTypeOK
  <2>4. Serves(c)
    BY <1>6 DEF Serves
  <2>. QED
    BY <1>3, <2>1, <2>2, <2>3, <2>4
<1>7. ASSUME NEW c \in Clicks, NEW at, NEW outcome, Ends(c, at, outcome) PROVE CallsAgree'
  <2>1. /\ server'[c] = outcome /\ UNCHANGED <<cart, carts, readAt>>
        /\ call'[c] = Is(at, {})
        /\ \/ at = "idle" /\ outcome = "refused"
           \/ at = "late" /\ outcome = "unsure" /\ call[c].at = "ordering"
    BY <1>7 DEF Ends, ShopTypeOK
  <2>2. call'[c].at = at
    BY <2>1 DEF Is
  <2>3. Serves(c)
    BY <1>7 DEF Serves
  <2>. QED
    BY <1>3, <2>1, <2>2, <2>3 DEF CallsAgree
<1>. QED
  BY <1>1, <1>2, <1>4, <1>5, <1>6, <1>7, Kinds DEF Serves

--------------------------------------------------------------------------------
(* What is in the carts *)

\* What was so of an order that has emptied the cart is so of the past carts.
LEMMA PastStaysOut ==
  ASSUME ShopTypeOK, InTheCarts, NEW p \in Orders, doneAt[p] # 0, ~Undone(p)',
         \A d \in Clicks : doneAt[d] # 0 => doneAt'[d] = doneAt[d] /\ readAt'[d] = readAt[d],
         \A v \in 1..Len(carts) : carts'[v] = carts[v]
  PROVE  /\ ~Undone(p) /\ doneAt'[p] = doneAt[p] /\ Bought(p)' = Bought(p)
         /\ \A v \in doneAt[p]..Len(carts) : carts[v] \cap Bought(p) = {}
<1>0. /\ p \in Clicks /\ Adds \subseteq Clicks
      /\ \A d \in Clicks : doneAt[d] \in Nat /\ readAt[d] \in 0..Len(carts)
  BY DEF Clicks, ShopTypeOK
<1>1. doneAt'[p] = doneAt[p] /\ readAt'[p] = readAt[p]
  BY <1>0
<1>2. Bought(p)' = Bought(p)
  BY <1>0, <1>1 DEF Bought
<1>3. ~Undone(p)
  <2>1. SUFFICES ASSUME NEW a \in Adds, 0 < readAt[a], readAt[a] < doneAt[p],
                        doneAt[p] < doneAt[a]
                 PROVE  FALSE
    BY DEF Undone
  <2>2. doneAt[a] # 0
    BY <1>0, <2>1
  <2>3. doneAt'[a] = doneAt[a] /\ readAt'[a] = readAt[a]
    BY <1>0, <2>2
  <2>. QED
    BY <1>1, <2>1, <2>3 DEF Undone
<1>. QED
  BY <1>1, <1>2, <1>3 DEF InTheCarts, StaysOut

\* A step that makes no cart, and none of the clicks that have made one moves.
LEMMA NoNewCart ==
  ASSUME ShopTypeOK, InTheCarts, carts' = carts, doneAt' = doneAt, Done' = Done,
         \A d \in Clicks : doneAt[d] # 0 => readAt'[d] = readAt[d]
  PROVE  InTheCarts'
<1>1. ASSUME NEW p \in Orders PROVE StaysOut(p)'
  <2>. SUFFICES ASSUME doneAt[p] # 0, ~Undone(p)'
                PROVE  \A v \in doneAt[p]..Len(carts) : carts[v] \cap Bought(p)' = {}
    BY DEF StaysOut
  <2>. QED
    BY PastStaysOut
<1>. QED
  BY <1>1 DEF InTheCarts

\* A new last cart with nothing in it that an order has bought and emptied.
LEMMA NewCart ==
  ASSUME ShopTypeOK, InTheCarts, NEW new \in SUBSET Adds, carts' = Append(carts, new),
         Done \subseteq Done', new \subseteq Done',
         \A d \in Clicks : doneAt[d] # 0 => doneAt'[d] = doneAt[d],
         UNCHANGED readAt,
         \A p \in Orders : doneAt'[p] # 0 /\ doneAt[p] = 0
                              => doneAt'[p] = Len(carts) + 1 /\ new = {},
         \A p \in Orders : doneAt[p] # 0 /\ ~Undone(p)' => new \cap Bought(p) = {}
  PROVE  InTheCarts'
<1>0. /\ Len(carts') = Len(carts) + 1 /\ carts'[Len(carts')] = new
      /\ \A v \in 1..Len(carts) : carts'[v] = carts[v]
      /\ Len(carts) \in Nat
  BY AppendType
<1>1. ASSUME NEW v \in 1..Len(carts') PROVE carts'[v] \subseteq Done'
  BY <1>0 DEF InTheCarts
<1>2. ASSUME NEW p \in Orders PROVE StaysOut(p)'
  <2>. SUFFICES ASSUME doneAt'[p] # 0, ~Undone(p)', NEW v \in doneAt'[p]..Len(carts')
                PROVE  carts'[v] \cap Bought(p)' = {}
    BY DEF StaysOut
  <2>1. CASE doneAt[p] = 0
    <3>1. v = Len(carts') /\ new = {}
      BY <1>0, <2>1
    <3>. QED
      BY <1>0, <3>1
  <2>2. CASE doneAt[p] # 0
    <3>1. /\ doneAt'[p] = doneAt[p] /\ Bought(p)' = Bought(p)
          /\ \A w \in doneAt[p]..Len(carts) : carts[w] \cap Bought(p) = {}
      BY <1>0, <2>2, PastStaysOut
    <3>2. p \in Clicks /\ doneAt[p] \in Nat /\ doneAt[p] > 0
      BY <2>2 DEF Clicks, ShopTypeOK
    <3>3. CASE v = Len(carts')
      BY <1>0, <2>2, <3>1, <3>3
    <3>4. CASE v # Len(carts')
      <4>1. v \in doneAt[p]..Len(carts) /\ v \in 1..Len(carts)
        BY <1>0, <3>1, <3>2, <3>4
      <4>. QED
        BY <1>0, <3>1, <4>1
    <3>. QED
      BY <3>3, <3>4
  <2>. QED
    BY <2>1, <2>2
<1>. QED
  BY <1>1, <1>2 DEF InTheCarts

(***************************************************************************)
(* An addition puts back the cart that it has read: either that is of a    *)
(* time after p had emptied it, or the addition undoes p.                  *)
(***************************************************************************)
LEMMA AdditionPuts ==
  ASSUME ShopTypeOK, Agreement, CallsAgree, InTheCarts, NEW a \in Adds, NEW new,
         Puts(a, new), NEW p \in Orders, doneAt[p] # 0, ~Undone(p)'
  PROVE  new \cap Bought(p) = {}
<1>0. /\ a \in Clicks /\ p \in Clicks /\ a # p
      /\ readAt[a] \in 0..Len(carts) /\ readAt[p] \in 0..Len(carts)
      /\ doneAt[p] \in 0..Len(carts) /\ Len(carts) \in Nat
  BY ClicksAssumption DEF Clicks, ShopTypeOK
<1>1. /\ server[a] = "asked" /\ call[a].at = "adding" /\ new = call[a].cart \cup {a}
      /\ readAt' = readAt /\ doneAt' = [doneAt EXCEPT ![a] = Len(carts) + 1]
  BY <1>0, ClicksAssumption DEF Puts
<1>2. readAt[a] # 0 /\ call[a].cart = carts[readAt[a]]
  BY <1>0, <1>1 DEF CallsAgree
<1>3. doneAt'[a] = Len(carts) + 1 /\ doneAt'[p] = doneAt[p]
  BY <1>0, <1>1 DEF ShopTypeOK
<1>4. doneAt[p] =< readAt[a]
  BY <1>0, <1>1, <1>2, <1>3 DEF Undone
<1>5. ~Undone(p)
  <2>1. ASSUME NEW b \in Adds, 0 < readAt[b], readAt[b] < doneAt[p], doneAt[p] < doneAt[b]
        PROVE  FALSE
    <3>1. b # a /\ b \in Clicks
      BY <1>0, <1>4, <2>1 DEF Clicks
    <3>2. doneAt'[b] = doneAt[b]
      BY <1>1, <3>1 DEF ShopTypeOK
    <3>. QED
      BY <1>1, <1>3, <2>1, <3>2 DEF Undone
  <2>. QED
    BY <2>1 DEF Undone
<1>6. carts[readAt[a]] \cap Bought(p) = {}
  BY <1>0, <1>4, <1>5 DEF InTheCarts, StaysOut
<1>7. Bought(p) \subseteq Done
  BY <1>0 DEF InTheCarts, Bought
<1>8. a \notin Done
  BY <1>1 DEF Done
<1>. QED
  BY <1>1, <1>2, <1>6, <1>7, <1>8

LEMMA InTheCartsStep ==
  ASSUME ShopTypeOK, Agreement, CallsAgree, InTheCarts, [ShopNext]_shopVars
  PROVE  InTheCarts'
<1>0. Orders \subseteq Clicks /\ Adds \subseteq Clicks
  BY DEF Clicks
<1>1. CASE UNCHANGED <<serverVars, clicked, basis>> \/ Learns
  BY <1>1, NoNewCart DEF Learns, serverVars, Done
<1>2. ASSUME NEW c \in Clicks, Sends(c) PROVE InTheCarts'
  <2>1. /\ UNCHANGED <<carts, readAt, doneAt>> /\ server[c] = "none"
        /\ server' = [server EXCEPT ![c] = "asked"]
    BY <1>2 DEF Sends, Send, Agreement
  <2>2. Done' = Done
    BY <2>1 DEF Done, ShopTypeOK
  <2>. QED
    BY <2>1, <2>2, NoNewCart
<1>3. ASSUME NEW c \in Clicks, NEW at, Reads(c, at) PROVE InTheCarts'
  <2>1. UNCHANGED <<carts, doneAt, server>> /\ server[c] = "asked"
    BY <1>3 DEF Reads
  <2>2. Done' = Done
    BY <2>1 DEF Done
  <2>3. ASSUME NEW d \in Clicks, doneAt[d] # 0 PROVE readAt'[d] = readAt[d]
    BY <1>3, <2>1, <2>3 DEF Reads, Agreement, ShopTypeOK
  <2>. QED
    BY <2>1, <2>2, <2>3, NoNewCart
<1>4. ASSUME NEW c \in Clicks, NEW new, Puts(c, new) PROVE InTheCarts'
  <2>1. /\ server[c] = "asked" /\ carts' = Append(carts, new) /\ readAt' = readAt
        /\ doneAt' = [doneAt EXCEPT ![c] = Len(carts) + 1]
        /\ server' = [server EXCEPT ![c] = "done"] /\ doneAt[c] = 0
    BY <1>4 DEF Puts, Agreement
  <2>2. Done' = Done \cup {c}
    BY <2>1 DEF Done, ShopTypeOK
  <2>3. \A d \in Clicks : doneAt'[d] = IF d = c THEN Len(carts) + 1 ELSE doneAt[d]
    BY <2>1 DEF ShopTypeOK
  <2>4. CASE new = {}
    <3>1. new \in SUBSET Adds /\ new \subseteq Done' /\ Done \subseteq Done'
      BY <2>2, <2>4
    <3>2. \A d \in Clicks : doneAt[d] # 0 => doneAt'[d] = doneAt[d]
      BY <2>1, <2>3
    <3>3. \A p \in Orders : doneAt'[p] # 0 /\ doneAt[p] = 0
                               => doneAt'[p] = Len(carts) + 1 /\ new = {}
      BY <1>0, <2>3, <2>4
    <3>4. \A p \in Orders : doneAt[p] # 0 /\ ~Undone(p)' => new \cap Bought(p) = {}
      BY <2>4
    <3>. QED
      BY <2>1, <3>1, <3>2, <3>3, <3>4, NewCart
  <2>5. CASE c \in Adds
    <3>1. new = call[c].cart \cup {c} /\ call[c].at = "adding" /\ c \notin Orders
      BY <1>4, <2>5, ClicksAssumption DEF Puts
    <3>2. call[c].cart \subseteq Done /\ call[c].cart \in SUBSET Adds
      <4>1. call[c].cart = carts[readAt[c]] /\ readAt[c] \in 1..Len(carts)
        BY <3>1 DEF CallsAgree, ShopTypeOK
      <4>. QED
        BY <4>1, CartType DEF InTheCarts
    <3>3. new \in SUBSET Adds /\ new \subseteq Done'
      BY <2>2, <2>5, <3>1, <3>2
    <3>4. \A p \in Orders : doneAt[p] # 0 /\ ~Undone(p)' => new \cap Bought(p) = {}
      BY <1>4, <2>5, AdditionPuts
    <3>. QED
      BY <1>0, <2>1, <2>2, <2>3, <3>1, <3>3, <3>4, NewCart
  <2>. QED
    BY <1>4, <2>4, <2>5 DEF Puts
<1>5. ASSUME NEW c \in Clicks, PutsLate(c) PROVE InTheCarts'
  <2>1. UNCHANGED <<readAt, doneAt, server>> /\ carts' = Append(carts, {})
    BY <1>5 DEF PutsLate
  <2>2. Done' = Done
    BY <2>1 DEF Done
  <2>. QED
    BY <2>1, <2>2, NewCart
<1>6. ASSUME NEW c \in Clicks, NEW at, NEW outcome, Ends(c, at, outcome) PROVE InTheCarts'
  <2>1. /\ UNCHANGED <<carts, readAt, doneAt>> /\ server[c] = "asked"
        /\ server' = [server EXCEPT ![c] = outcome] /\ outcome # "done"
    BY <1>6 DEF Ends
  <2>2. Done' = Done
    BY <2>1 DEF Done, ShopTypeOK
  <2>. QED
    BY <2>1, <2>2, NoNewCart
<1>. QED
  BY <1>1, <1>2, <1>3, <1>4, <1>5, <1>6, Kinds DEF Serves

LEMMA EarlierStep ==
  ASSUME ShopTypeOK, Agreement, CallsAgree, Earlier, [ShopNext]_shopVars
  PROVE  Earlier'
<1>0. /\ Orders \subseteq Clicks /\ \A o \in Orders : basis[o].placed \subseteq Orders
      /\ Len(carts) \in Nat
  BY DEF Clicks, ShopTypeOK
<1>1. CASE UNCHANGED <<serverVars, clicked, basis>> \/ Learns
  BY <1>1 DEF Earlier, Learns, serverVars
<1>2. ASSUME NEW c \in Clicks, Sends(c) PROVE Earlier'
  <2>1. /\ UNCHANGED <<call, readAt, doneAt>> /\ server[c] = "none" /\ clicked[c] = "none"
        /\ server' = [server EXCEPT ![c] = "asked"]
    BY <1>2 DEF Sends, Send, Agreement
  <2>2. readAt[c] = 0
    BY <2>1 DEF CallsAgree, ShopTypeOK
  <2>3. ASSUME NEW p \in Orders, server[p] = "done" PROVE server'[p] = server[p]
    BY <1>0, <2>1, <2>3 DEF ShopTypeOK
  <2>4. ASSUME NEW o \in Orders, NEW p \in basis'[o].placed
        PROVE  /\ server'[p] = "done" /\ doneAt'[p] # 0
               /\ readAt'[o] # 0 => doneAt'[p] =< readAt'[o]
    <3>1. CASE o = c
      <4>1. basis'[o].placed = {q \in Orders : server[q] = "done"}
        BY <1>2, <3>1 DEF Sends, ClickOrder, ShopTypeOK
      <4>2. p \in Orders /\ server[p] = "done" /\ doneAt[p] # 0
        BY <2>4, <4>1, <1>0 DEF Agreement
      <4>. QED
        BY <2>1, <2>2, <2>3, <3>1, <4>2
    <3>2. CASE o # c
      <4>1. basis'[o] = basis[o]
        BY <1>2, <3>2 DEF Sends, ClickOrder, ShopTypeOK
      <4>2. p \in basis[o].placed /\ p \in Orders
        BY <1>0, <2>4, <4>1
      <4>. QED
        BY <2>1, <2>3, <4>2 DEF Earlier
    <3>. QED
      BY <3>1, <3>2
  <2>. QED
    BY <2>4 DEF Earlier
<1>3. ASSUME NEW c \in Clicks, Serves(c) PROVE Earlier'
  <2>. SUFFICES ASSUME NEW o \in Orders, NEW p \in basis[o].placed
                PROVE  /\ server'[p] = "done" /\ doneAt'[p] # 0
                       /\ readAt'[o] # 0 => doneAt'[p] =< readAt'[o]
    BY <1>3, ServesOne DEF Earlier
  <2>1. o \in Clicks /\ p \in Clicks /\ server[p] = "done" /\ doneAt[p] # 0
        /\ (readAt[o] # 0 => doneAt[p] =< readAt[o]) /\ doneAt[p] \in 0..Len(carts)
    BY <1>0 DEF Earlier, ShopTypeOK
  <2>2. server'[p] = server[p] /\ doneAt'[p] = doneAt[p]
    BY <1>3, <2>1, ServesOne
  <2>3. readAt'[o] = readAt[o] \/ readAt'[o] = Len(carts)
    BY <1>3, <2>1 DEF Serves, Reads, Puts, PutsLate, Ends, ShopTypeOK
  <2>. QED
    BY <1>0, <2>1, <2>2, <2>3
<1>. QED
  BY <1>1, <1>2, <1>3, Kinds

\* What was placed before an order has been emptied before it reads.
LEMMA ApartByCarts ==
  ASSUME ShopTypeOK, InTheCarts, Earlier
  PROVE  PlacedOrdersShareNothing
<1>. SUFFICES ASSUME NEW o \in Orders, NEW p \in basis[o].placed, ~Undone(p)
              PROVE  Bought(o) \cap Bought(p) = {}
  BY DEF PlacedOrdersShareNothing
<1>1. o \in Clicks /\ p \in Orders /\ p \in Clicks /\ readAt[o] \in 0..Len(carts)
      /\ doneAt[p] \in 0..Len(carts) /\ Len(carts) \in Nat
  BY DEF Clicks, ShopTypeOK
<1>2. CASE readAt[o] = 0
  BY <1>2 DEF Bought
<1>3. CASE readAt[o] # 0
  <2>1. doneAt[p] # 0 /\ readAt[o] \in doneAt[p]..Len(carts)
    BY <1>1, <1>3 DEF Earlier
  <2>2. carts[readAt[o]] \cap Bought(p) = {}
    BY <1>1, <2>1 DEF InTheCarts, StaysOut
  <2>. QED
    BY <1>3, <2>2 DEF Bought
<1>. QED
  BY <1>2, <1>3

--------------------------------------------------------------------------------
(* The query *)

\* What a load has of the clicks that are known to have succeeded, it keeps.
LEMMA KnownStays ==
  ASSUME ShopTypeOK, Agreement, [ShopNext]_shopVars, Succeeded' \subseteq Succeeded,
         NEW load \in Loads,
         \A c \in Succeeded : doneAt[c] =< load.version \/ c \in load.missed
  PROVE  \A c \in Succeeded' : doneAt'[c] =< load.version \/ c \in load.missed
<1>1. ASSUME NEW c \in Succeeded PROVE doneAt'[c] = doneAt[c]
  <2>1. c \in Clicks /\ server[c] \in {"done", "unsure"}
    BY DEF Succeeded, Agreement
  <2>2. ASSUME NEW d \in Clicks, Serves(d) PROVE doneAt'[c] = doneAt[c]
    BY <2>1, <2>2, ServesOne
  <2>. QED
    BY <2>2, Kinds DEF Sends, Send, Learns, serverVars
<1>. QED
  BY <1>1

LEMMA SucceededStays ==
  ASSUME ShopTypeOK, ShopNext, \A c \in Clicks : ~Succeed(c)
  PROVE  Succeeded' \subseteq Succeeded
<1>1. ASSUME NEW c \in Clicks, clicked' = [clicked EXCEPT ![c] = "pending"]
      PROVE  Succeeded' \subseteq Succeeded
  BY <1>1 DEF Succeeded, ShopTypeOK
<1>2. UNCHANGED clicked => Succeeded' \subseteq Succeeded
  BY DEF Succeeded
<1>3. ASSUME NEW c \in Clicks, Fail(c) PROVE Succeeded' \subseteq Succeeded
  BY <1>3 DEF Fail, Succeeded, ShopTypeOK
<1>4. ASSUME Reload PROVE Succeeded' \subseteq Succeeded
  BY <1>4 DEF Reload, Succeeded, ShopTypeOK
<1>5. \/ UNCHANGED clicked
      \/ \E c \in Clicks : clicked' = [clicked EXCEPT ![c] = "pending"]
      \/ \E c \in Clicks : Fail(c)
      \/ Reload
  <2>1. \A k \in Currencies : Read(k) \/ Arrive(k) \/ ReadFails(k) \/ SelectCurrency(k)
                                 => UNCHANGED clicked
    BY DEF Read, Arrive, ReadFails, SelectCurrency, Step
  <2>2. Focus => UNCHANGED clicked
    BY DEF Focus, Step
  <2>3. \A c \in Clicks : ClickAdd(c) \/ ClickEmpty(c) \/ ClickOrder(c)
                             => clicked' = [clicked EXCEPT ![c] = "pending"]
    BY DEF ClickAdd, ClickEmpty, ClickOrder, Send
  <2>4. \A c \in Clicks : Serves(c) => UNCHANGED clicked
    BY ServesLeavesPage DEF pageVars
  <2>5. \A c \in Clicks : Succeed(c) => FALSE
    OBVIOUS
  <2>6. Adds \subseteq Clicks /\ Empties \subseteq Clicks /\ Orders \subseteq Clicks
    BY DEF Clicks
  <2>. QED
    BY <2>1, <2>2, <2>3, <2>4, <2>5, <2>6, Steps
<1>. QED
  BY <1>1, <1>2, <1>3, <1>4, <1>5

\* What a step that is no Succeed does to the loads.
LEMMA LoadsStep ==
  ASSUME ShopTypeOK, ShopNext, NEW k \in Currencies, \A c \in Clicks : ~Succeed(c)
  PROVE  /\ query'[k].stage = "read" =>
               \/ query[k].stage = "read" /\ query'[k].fetch = query[k].fetch
               \/ UNCHANGED serverVars /\ query'[k].fetch.version = Len(carts)
         /\ Settled' =>
               \/ Settled /\ page'.shown = page.shown
               \/ page.stage = "read" /\ page'.shown = page.fetch
<1>0. /\ selectedCurrency \in Currencies
      /\ \A j \in Currencies : query[j] \in Queries
      /\ Len(carts) \in Nat
  BY DEF ShopTypeOK
<1>. DEFINE Goal == /\ query'[k].stage = "read" =>
                          \/ query[k].stage = "read" /\ query'[k].fetch = query[k].fetch
                          \/ UNCHANGED serverVars /\ query'[k].fetch.version = Len(carts)
                    /\ Settled' =>
                          \/ Settled /\ page'.shown = page.shown
                          \/ page.stage = "read" /\ page'.shown = page.fetch
<1>1. ASSUME UNCHANGED <<query, selectedCurrency>> PROVE Goal
  BY <1>1 DEF Settled, page
<1>2. ASSUME NEW j \in Currencies, NEW q, Step(j, q),
             q.stage = "read" =>
                \/ query[j].stage = "read" /\ q.fetch = query[j].fetch
                \/ q.fetch.version = Len(carts),
             q.stage = "idle" /\ ~q.failed =>
                \/ query[j].stage = "idle" /\ ~query[j].failed /\ q.shown = query[j].shown
                \/ query[j].stage = "read" /\ q.shown = query[j].fetch
      PROVE  Goal
  <2>1. /\ UNCHANGED <<serverVars, selectedCurrency>>
        /\ \A i \in Currencies : query'[i] = IF i = j THEN q ELSE query[i]
    BY <1>2 DEF Step, ShopTypeOK
  <2>2. CASE selectedCurrency = j
    <3>1. page = query[j] /\ page' = q
      BY <1>0, <2>1, <2>2 DEF page
    <3>. QED
      BY <1>2, <2>1, <3>1 DEF Settled
  <2>3. CASE selectedCurrency # j
    <3>1. page' = page
      BY <1>0, <2>1, <2>3 DEF page
    <3>. QED
      BY <1>2, <2>1, <3>1 DEF Settled
  <2>. QED
    BY <2>2, <2>3
<1>. HIDE DEF Goal
<1>3. ASSUME NEW j \in Currencies, Read(j) PROVE Goal
  <2>1. Having(query[j]).stage = "read" /\ Having(query[j]).fetch.version = Len(carts)
    BY <1>0, HavingType
  <2>. QED
    BY <1>2, <1>3, <2>1 DEF Read
<1>4. ASSUME NEW j \in Currencies, Arrive(j) PROVE Goal
  <2>1. Showing(query[j]).stage = "idle" /\ Showing(query[j]).shown = query[j].fetch
    BY <1>0, ShowingType
  <2>. QED
    BY <1>2, <1>4, <2>1 DEF Arrive
<1>5. ASSUME NEW j \in Currencies, ReadFails(j) PROVE Goal
  <2>1. CASE query[j].tries < Retry /\ Step(j, AskedAgain(query[j]))
    <3>1. AskedAgain(query[j]).stage = "asked"
      BY <1>0, <2>1, AskedAgainType
    <3>. QED
      BY <1>2, <2>1, <3>1
  <2>2. CASE Step(j, GivenUp(query[j]))
    <3>1. GivenUp(query[j]).stage = "idle" /\ GivenUp(query[j]).failed
      BY <1>0, GivenUpType
    <3>. QED
      BY <1>2, <2>2, <3>1
  <2>. QED
    BY <1>5, <2>1, <2>2 DEF ReadFails
<1>6. ASSUME Focus PROVE Goal
  <2>1. CASE Joining(page) = page
    BY <1>0, <1>2, <1>6, <2>1 DEF Focus, page
  <2>2. CASE Joining(page) = Fetching(page)
    <3>1. Fetching(page).stage = "asked"
      BY <1>0, FetchingType DEF page
    <3>. QED
      BY <1>0, <1>2, <1>6, <2>2, <3>1 DEF Focus, page
  <2>. QED
    BY <2>1, <2>2 DEF Joining
<1>7. ASSUME NEW j \in Currencies, SelectCurrency(j) PROVE Goal
  <2>1. /\ \A i \in Currencies : query'[i] = IF i = j THEN Joining(query[j]) ELSE query[i]
        /\ page' = query'[j]
    BY <1>7 DEF SelectCurrency, ShopTypeOK, page
  <2>2. Joining(query[j]).stage # "idle"
    BY <1>0, FetchingType DEF Joining
  <2>3. query'[k].stage = "read" => query[k].stage = "read" /\ query'[k].fetch = query[k].fetch
    <3>1. Fetching(query[j]).stage = "asked"
      BY <1>0, FetchingType
    <3>. QED
      BY <2>1, <3>1 DEF Joining
  <2>. QED
    BY <2>1, <2>2, <2>3 DEF Goal, Settled
<1>8. ASSUME Reload PROVE Goal
  <2>1. NoQuery \in Queries /\ NoQuery.stage = "idle"
    BY ClicksAssumption, NoLoadType DEF NoQuery, Query, Queries
  <2>2. Fetching(NoQuery).stage = "asked"
    BY <2>1, FetchingType
  <2>. QED
    BY <1>0, <1>8, <2>1, <2>2 DEF Reload, Goal, Settled, page
<1>9. ASSUME NEW c, ClickAdd(c) \/ ClickEmpty(c) \/ ClickOrder(c) PROVE Goal
  BY <1>1, <1>9 DEF ClickAdd, ClickEmpty, ClickOrder, Send
<1>10. ASSUME NEW c \in Clicks, Serves(c) \/ Fail(c) PROVE Goal
  BY <1>1, <1>10, ServesLeavesPage DEF Fail, pageVars
<1>11. Goal
  BY <1>3, <1>4, <1>5, <1>6, <1>7, <1>8, <1>9, <1>10, Steps
<1>. QED
  BY <1>11 DEF Goal

LEMMA SeesStep ==
  ASSUME ShopTypeOK, Agreement, FetchSees, ReadYourWrites, [ShopNext]_shopVars
  PROVE  FetchSees' /\ ReadYourWrites'
<1>0. selectedCurrency \in Currencies /\ \A j \in Currencies : query[j] \in Queries
  BY DEF ShopTypeOK
<1>1. ASSUME NEW c \in Clicks, Succeed(c) PROVE FetchSees' /\ ReadYourWrites'
  <2>1. /\ UNCHANGED <<doneAt, selectedCurrency>> /\ Succeeded' = Succeeded \cup {c}
        /\ \A k \in Currencies : query'[k] = AfterSuccess(c)[k]
    BY <1>1 DEF Succeed, serverVars, Succeeded, ShopTypeOK
  <2>2. ASSUME NEW k \in Currencies, query'[k].stage = "read", NEW d \in Succeeded'
        PROVE  doneAt'[d] =< query'[k].fetch.version \/ d \in query'[k].fetch.missed
    <3>1. CASE RunsOn(k)
      <4>1. query'[k] = Missing(query[k], c)
        BY <2>1, <3>1 DEF AfterSuccess
      <4>2. /\ query'[k].stage = query[k].stage
            /\ query'[k].fetch.version = query[k].fetch.version
            /\ query'[k].fetch.missed = query[k].fetch.missed \cup {c}
        BY <4>1, <1>0, MissingType
      <4>3. query[k].stage = "read"
        BY <2>2, <4>2
      <4>. QED
        BY <2>1, <4>2, <4>3 DEF FetchSees
    <3>2. CASE ~RunsOn(k) /\ k = selectedCurrency
      BY <2>1, <2>2, <3>2, <1>0, FetchingType DEF AfterSuccess, Invalidated
    <3>3. CASE ~RunsOn(k) /\ k # selectedCurrency
      BY <2>1, <2>2, <3>3 DEF AfterSuccess, RunsOn
    <3>. QED
      BY <3>1, <3>2, <3>3
  <2>3. ~Settled'
    <3>1. page' = AfterSuccess(c)[selectedCurrency]
      BY <2>1, <1>0 DEF page
    <3>2. CASE RunsOn(selectedCurrency)
      <4>1. page' = Missing(query[selectedCurrency], c)
        BY <3>1, <3>2, <1>0 DEF AfterSuccess
      <4>. QED
        BY <3>2, <4>1, <1>0, MissingType DEF RunsOn, Settled
    <3>3. CASE ~RunsOn(selectedCurrency)
      <4>1. page' = Fetching(query[selectedCurrency])
        BY <3>1, <3>3, <1>0 DEF AfterSuccess, Invalidated
      <4>. QED
        BY <4>1, <1>0, FetchingType DEF Settled
    <3>. QED
      BY <3>2, <3>3
  <2>. QED
    BY <2>2, <2>3 DEF FetchSees, ReadYourWrites
<1>2. ASSUME ShopNext, \A c \in Clicks : ~Succeed(c) PROVE FetchSees' /\ ReadYourWrites'
  <2>1. Succeeded' \subseteq Succeeded
    BY <1>2, SucceededStays
  <2>2. ASSUME NEW load \in Loads, \A c \in Succeeded : doneAt[c] =< load.version \/ c \in load.missed
        PROVE  \A c \in Succeeded' : doneAt'[c] =< load.version \/ c \in load.missed
    BY <1>2, <2>1, <2>2, KnownStays
  <2>3. ASSUME NEW k \in Currencies, query'[k].stage = "read"
        PROVE  \A c \in Succeeded' : doneAt'[c] =< query'[k].fetch.version
                                     \/ c \in query'[k].fetch.missed
    <3>1. CASE query[k].stage = "read" /\ query'[k].fetch = query[k].fetch
      BY <2>2, <3>1, <1>0, QueryParts DEF FetchSees
    <3>2. CASE UNCHANGED serverVars /\ query'[k].fetch.version = Len(carts)
      BY <2>1, <3>2 DEF serverVars, ShopTypeOK, Succeeded
    <3>. QED
      BY <1>2, <2>3, <3>1, <3>2, LoadsStep
  <2>4. ASSUME Settled'
        PROVE  \A c \in Succeeded' : doneAt'[c] =< page'.shown.version \/ c \in page'.shown.missed
    <3>1. page \in Queries /\ page = query[selectedCurrency]
      BY <1>0 DEF page
    <3>2. CASE Settled /\ page'.shown = page.shown
      BY <2>2, <3>1, <3>2, QueryParts DEF ReadYourWrites, Reflects
    <3>3. CASE page.stage = "read" /\ page'.shown = page.fetch
      BY <2>2, <3>1, <3>3, <1>0, QueryParts DEF FetchSees
    <3>. QED
      BY <1>0, <1>2, <2>4, <3>2, <3>3, LoadsStep
  <2>. QED
    BY <2>3, <2>4 DEF FetchSees, ReadYourWrites, Reflects
<1>3. CASE UNCHANGED shopVars
  BY <1>3 DEF shopVars, serverVars, pageVars, FetchSees, ReadYourWrites, Settled, page, Succeeded,
              Reflects
<1>. QED
  BY <1>1, <1>2, <1>3

--------------------------------------------------------------------------------
(* What an order stands for *)

\* A page that waits for nothing and has the effect of every click shows the
\* cart: the last cart has an author, whose success the page has seen.
LEMMA ShowsTheCart ==
  ASSUME ShopTypeOK, Agreement, CallsAgree, ReadYourWrites, NothingInDoubt
  PROVE  Shown = cart
<1>1. page.shown.version \in 0..Len(carts) /\ page.shown.version # 0 /\ Len(carts) \in Nat
  BY CartType DEF NothingInDoubt, Settled
<1>2. CASE Len(carts) > 1
  <2>1. PICK c \in Clicks : doneAt[c] = Len(carts) \/ server[c] = "unsure"
    BY <1>2 DEF Agreement
  <2>2. server[c] \in {"done", "unsure"} /\ c \in Clicked
    BY <1>1, <1>2, <2>1 DEF Agreement, Clicked
  <2>3. c \in Succeeded /\ server[c] = "done" /\ Reflects(c)
    BY <2>2 DEF NothingInDoubt, Succeeded
  <2>4. Len(carts) =< page.shown.version
    BY <2>1, <2>3 DEF ReadYourWrites, NothingInDoubt
  <2>. QED
    BY <1>1, <2>4 DEF Shown, CallsAgree
<1>3. CASE ~(Len(carts) > 1)
  <2>1. page.shown.version = Len(carts)
    BY <1>1, <1>3
  <2>. QED
    BY <1>1, <2>1 DEF Shown, CallsAgree
<1>. QED
  BY <1>2, <1>3

\* What o buys stays, whatever the services do for it.
LEMMA OwnStepsKeep ==
  ASSUME ShopTypeOK, CallsAgree, NEW o \in Orders, Serves(o)
  PROVE  Buys(o)' = Buys(o)
<1>0. /\ o \in Clicks /\ o \notin Adds /\ o \notin Empties
      /\ readAt[o] \in 0..Len(carts) /\ Len(carts) \in Nat /\ Len(carts) > 0
  BY ClicksAssumption, CartType DEF Clicks, ShopTypeOK
<1>1. ASSUME NEW at, Reads(o, at) PROVE Buys(o)' = Buys(o)
  <2>1. /\ call[o].at = "idle" /\ server[o] = "asked" /\ UNCHANGED <<cart, carts>>
        /\ readAt'[o] = Len(carts)
    BY <1>0, <1>1 DEF Reads, ShopTypeOK
  <2>2. readAt[o] = 0 /\ cart = carts[Len(carts)]
    BY <1>0, <2>1 DEF CallsAgree
  <2>. QED
    BY <1>0, <2>1, <2>2 DEF Buys, Bought
<1>2. ASSUME call[o].at \in {"ordering", "late"}, readAt' = readAt,
             \A v \in 1..Len(carts) : carts'[v] = carts[v]
      PROVE  Buys(o)' = Buys(o)
  <2>1. readAt[o] # 0
    BY <1>0, <1>2 DEF CallsAgree
  <2>. QED
    BY <1>0, <1>2, <2>1 DEF Buys, Bought
<1>3. \A v \in 1..Len(carts) : carts'[v] = carts[v]
  BY <1>0, ServesOne
<1>4. ASSUME NEW new, Puts(o, new) PROVE Buys(o)' = Buys(o)
  BY <1>0, <1>2, <1>3, <1>4 DEF Puts
<1>5. ASSUME PutsLate(o) PROVE Buys(o)' = Buys(o)
  BY <1>2, <1>3, <1>5 DEF PutsLate
<1>6. ASSUME NEW at, NEW outcome, Ends(o, at, outcome) PROVE Buys(o)' = Buys(o)
  BY <1>6 DEF Ends, Buys, Bought
<1>. QED
  BY <1>1, <1>4, <1>5, <1>6 DEF Serves

LEMMA OrderStandsStep ==
  ASSUME ShopTypeOK, Agreement, CallsAgree, ReadYourWrites, OrderStands, [ShopNext]_shopVars
  PROVE  OrderStands'
<1>0. Orders \subseteq Clicks
  BY DEF Clicks
<1>1. CASE UNCHANGED <<serverVars, clicked, basis>>
  BY <1>1 DEF OrderStands, serverVars, Clicked, Buys, Bought
<1>2. ASSUME NEW c \in Clicks, Sends(c) PROVE OrderStands'
  <2>1. /\ clicked[c] = "none" /\ clicked' = [clicked EXCEPT ![c] = "pending"]
        /\ server[c] = "none" /\ server' = [server EXCEPT ![c] = "asked"]
        /\ UNCHANGED <<cart, call, carts, readAt>>
    BY <1>2 DEF Sends, Send, Agreement
  <2>2. /\ Clicked' = Clicked \cup {c} /\ c \notin Clicked
        /\ \A o \in Orders : Buys(o)' = Buys(o)
        /\ \A d \in Clicked : server'[d] = server[d]
    BY <2>1 DEF Clicked, Buys, Bought, ShopTypeOK
  <2>3. ASSUME NEW o \in Orders, clicked'[o] # "none" PROVE basis'[o].before \subseteq Clicked'
    <3>1. CASE basis'[o] = basis[o] /\ clicked[o] # "none"
      BY <2>2, <3>1 DEF OrderStands
    <3>2. CASE o = c /\ ClickOrder(c)
      <4>1. basis'[o].before \subseteq Clicked
        BY <3>2 DEF ClickOrder, ShopTypeOK
      <4>. QED
        BY <2>2, <4>1
    <3>. QED
      BY <1>2, <2>1, <2>3, <3>1, <3>2, <1>0 DEF Sends, ClickOrder, ShopTypeOK
  <2>4. ASSUME NEW o \in Orders, basis'[o].sure, Clicked' = basis'[o].before \cup {o}
        PROVE  /\ Buys(o)' = basis'[o].items
               /\ \A d \in Clicked' \ {o} : server'[d] \in {"done", "refused"}
    <3>1. CASE o # c
      <4>1. basis'[o] = basis[o] /\ o \in Clicked
        BY <1>2, <2>2, <2>4, <3>1 DEF Sends, ClickOrder, ShopTypeOK
      <4>2. basis[o].before \subseteq Clicked
        BY <4>1 DEF OrderStands, Clicked
      <4>. QED
        BY <2>2, <2>4, <3>1, <4>1, <4>2
    <3>2. CASE o = c
      <4>0. ClickOrder(o)
        BY <1>2, <3>2 DEF Sends
      <4>1. CASE ~NothingInDoubt
        BY <2>4, <4>0, <4>1 DEF ClickOrder, ShopTypeOK
      <4>2. CASE NothingInDoubt
        <5>1. basis'[o].items = Shown
          BY <4>0, <4>2 DEF ClickOrder, ShopTypeOK
        <5>2. Shown = cart
          BY <4>2, ShowsTheCart
        <5>3. readAt[o] = 0
          BY <1>0, <2>1, <3>2 DEF CallsAgree, ShopTypeOK
        <5>4. ASSUME NEW d \in Clicked' \ {o} PROVE server'[d] \in {"done", "refused"}
          BY <2>2, <3>2, <4>2, <5>4 DEF NothingInDoubt
        <5>. QED
          BY <2>2, <5>1, <5>2, <5>3, <5>4 DEF Buys
      <4>. QED
        BY <4>1, <4>2
    <3>. QED
      BY <3>1, <3>2
  <2>. QED
    BY <2>3, <2>4 DEF OrderStands
<1>3. ASSUME NEW c \in Clicks, Serves(c) PROVE OrderStands'
  <2>1. UNCHANGED <<clicked, basis>> /\ server[c] \in {"asked", "unsure"}
        /\ \A d \in Clicks \ {c} : server'[d] = server[d]
    BY <1>3, ServesOne
  <2>2. c \in Clicked /\ Clicked' = Clicked /\ Clicked \subseteq Clicks
    BY <2>1 DEF Clicked, Agreement
  <2>3. ASSUME NEW o \in Orders, basis[o].sure, Clicked = basis[o].before \cup {o}
        PROVE  /\ Buys(o)' = basis[o].items
               /\ \A d \in Clicked \ {o} : server'[d] \in {"done", "refused"}
    <3>1. /\ Buys(o) = basis[o].items
          /\ \A d \in Clicked \ {o} : server[d] \in {"done", "refused"}
      BY <2>3 DEF OrderStands
    <3>2. c = o
      BY <2>1, <2>2, <3>1
    <3>3. Buys(o)' = Buys(o)
      BY <1>3, <3>2, OwnStepsKeep
    <3>. QED
      BY <2>1, <2>2, <3>1, <3>2, <3>3
  <2>. QED
    BY <2>1, <2>2, <2>3 DEF OrderStands
<1>4. CASE Learns
  <2>1. Clicked' = Clicked /\ UNCHANGED <<serverVars, basis>>
    BY <1>4 DEF Learns, Clicked
  <2>. QED
    BY <1>4, <2>1, <1>0 DEF Learns, OrderStands, serverVars, Buys, Bought
<1>. QED
  BY <1>1, <1>2, <1>3, <1>4, Kinds

--------------------------------------------------------------------------------

ShopInv == /\ ShopTypeOK /\ Agreement /\ CallsAgree /\ InTheCarts /\ FetchSees
           /\ ReadYourWrites /\ Earlier /\ OrderStands

LEMMA ShopInvInit == ShopInit => ShopInv
<1>. SUFFICES ASSUME ShopInit PROVE ShopInv
  OBVIOUS
<1>1. ShopTypeOK
  BY TypeInit
<1>2. Orders \subseteq Clicks /\ Succeeded = {} /\ carts = << {} >> /\ Len(carts) = 1
  BY DEF Clicks, Succeeded, ShopInit
<1>3. Agreement
  BY <1>2 DEF ShopInit, Agreement
<1>4. cart = {} /\ \A c \in Clicks : call[c].at = "idle"
  BY DEF ShopInit, Services!CallsInit, Services!NoCall, Services!Call
<1>5. CallsAgree
  BY <1>2, <1>4 DEF ShopInit, CallsAgree
<1>6. InTheCarts
  BY <1>2 DEF ShopInit, InTheCarts, StaysOut
<1>7. Earlier /\ OrderStands
  BY <1>2 DEF ShopInit, Earlier, OrderStands, NoBasis
<1>8. FetchSees /\ ReadYourWrites
  BY <1>2 DEF FetchSees, ReadYourWrites
<1>. QED
  BY <1>1, <1>3, <1>5, <1>6, <1>7, <1>8 DEF ShopInv

LEMMA ShopInvStep == ShopInv /\ [ShopNext]_shopVars => ShopInv'
  BY TypeStep, AgreementStep, CallsAgreeStep, InTheCartsStep, SeesStep, EarlierStep,
     OrderStandsStep DEF ShopInv

LEMMA ShopInvariant == ShopSpec => []ShopInv
  BY ShopInvInit, ShopInvStep, PTL DEF ShopSpec

(***************************************************************************)
(* Every page of every shop shows its user what he has done.               *)
(***************************************************************************)
THEOREM WritesAreRead == ShopSpec => []ReadYourWrites
<1>1. ShopInv => ReadYourWrites
  BY DEF ShopInv
<1>. QED
  BY <1>1, ShopInvariant, PTL

(***************************************************************************)
(* An order placed with nothing in doubt buys the cart that was shown,     *)
(* however reading, charging and emptying interleave with the page.        *)
(***************************************************************************)
THEOREM OrdersBuyWhatIsShown == ShopSpec => []OrderBuysWhatIsShown
<1>1. ShopInv => OrderBuysWhatIsShown
  BY DEF ShopInv, OrderStands, Buys, OrderBuysWhatIsShown
<1>. QED
  BY <1>1, ShopInvariant, PTL

(***************************************************************************)
(* Two orders, one clicked after the other was placed, share no item, also *)
(* when the first was answered with an error, unless checkout did not see  *)
(* the cart emptied or an addition under way put it back.                  *)
(***************************************************************************)
THEOREM PlacedOrdersAreApart == ShopSpec => []PlacedOrdersShareNothing
<1>1. ShopInv => PlacedOrdersShareNothing
  BY ApartByCarts DEF ShopInv
<1>. QED
  BY <1>1, ShopInvariant, PTL
--------------------------------------------------------------------------------

(***************************************************************************)
(* All that the shop has its services do are calls as CartCalls has them,  *)
(* which is what checkout and the cart service implement for each user.    *)
(***************************************************************************)
LEMMA ShopMakesCartCalls == ShopSpec => Services!CallsSpec
<1>1. ShopInit => Services!CallsInit
  BY DEF ShopInit
<1>2. ASSUME [ShopNext]_shopVars PROVE [Services!CallsNext]_(Services!callVars)
  <2>0. Adds \subseteq Clicks /\ Empties \subseteq Clicks /\ Orders \subseteq Clicks
    BY DEF Clicks
  <2>1. ASSUME NEW a \in Adds, ReadForAdd(a) \/ AddItem(a) PROVE Services!CallsNext
    BY <2>0, <2>1 DEF ReadForAdd, AddItem, Services!CallsNext
  <2>2. ASSUME NEW e \in Empties, EmptyCart(e) PROVE Services!CallsNext
    BY <2>0, <2>2 DEF EmptyCart, Services!CallsNext
  <2>3. ASSUME NEW o \in Orders, \/ PrepareOrder(o) \/ EmptyUserCart(o)
                                 \/ EmptyUserCartGivenUp(o) \/ EmptyUserCartLate(o)
        PROVE  Services!CallsNext
    <3>1. {o} \in SUBSET Clicks /\ {} \in SUBSET Clicks
      BY <2>0
    <3>. QED
      BY <2>0, <2>3, <3>1
      DEF PrepareOrder, EmptyUserCart, EmptyUserCartGivenUp, EmptyUserCartLate,
          Services!CallsNext
  <2>4. ASSUME NEW c \in Clicks, Refuse(c) PROVE Services!CallsNext
    <3>1. {c} \in SUBSET Clicks /\ {} \in SUBSET Clicks
      OBVIOUS
    <3>. QED
      BY <2>4, <3>1 DEF Refuse, Services!CallsNext
  <2>5. ASSUME NEW k \in Currencies, Read(k) \/ Arrive(k) \/ ReadFails(k) \/ SelectCurrency(k)
        PROVE  UNCHANGED Services!callVars
    BY <2>5 DEF Read, Arrive, ReadFails, SelectCurrency, Step, serverVars, Services!callVars
  <2>6. ASSUME Focus \/ Reload \/ UNCHANGED shopVars PROVE UNCHANGED Services!callVars
    BY <2>6 DEF Focus, Step, Reload, shopVars, serverVars, Services!callVars
  <2>7. ASSUME NEW c, ClickAdd(c) \/ ClickEmpty(c) \/ ClickOrder(c) \/ Succeed(c) \/ Fail(c)
        PROVE  UNCHANGED Services!callVars
    BY <2>7 DEF ClickAdd, ClickEmpty, ClickOrder, Send, Succeed, Fail, serverVars,
                Services!callVars
  <2>. QED
    BY <1>2, <2>1, <2>2, <2>3, <2>4, <2>5, <2>6, <2>7 DEF ShopNext
<1>. QED
  BY <1>1, <1>2, PTL DEF ShopSpec, Services!CallsSpec
================================================================================
