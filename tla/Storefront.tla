------------------------------- MODULE Storefront -------------------------------
(***************************************************************************)
(* The cart as a user of the shop sees it: the buttons of the pages, the   *)
(* mutations and the query behind them (Cart.provider.tsx), the API routes *)
(* and what they have the cart and checkout services do.  A click is an    *)
(* element of Adds, Empties or Orders; what a click in Adds has put into   *)
(* the cart bears its name, so that a cart is a set of such clicks.  What  *)
(* the services do to the cart is CartCalls, which checkout over the cart  *)
(* service implements (CheckoutProperties).  The visit ends before the 60  *)
(* minutes that a cart is kept.                                            *)
(*                                                                         *)
(* The cache of queries and the mutations are those of react-query 5 with  *)
(* its default options.  Only the selected currency's query is observed.   *)
(* The one for '', which the first render asks for, is never looked at.    *)
(* The mobile app is the same without currencies and without Focus.        *)
(***************************************************************************)
EXTENDS Naturals, Sequences

CONSTANTS
    Adds,        \* clicks on "Add To Cart"
    Empties,     \* clicks on "Empty Cart"
    Orders,      \* clicks on "Place Order"
    Currencies,  \* those of the switcher
    Retry        \* how often a failed query is asked again: 3

ASSUME ClicksAssumption ==
    /\ Adds \cap Empties = {} /\ Adds \cap Orders = {} /\ Empties \cap Orders = {}
    /\ Currencies # {} /\ Retry \in Nat

VARIABLES
    cart, call,        \* of CartCalls
    carts,             \* history: the carts there have been, the last one now
    readAt,            \* history: the number of the cart a click has read; 0 if none
    doneAt,            \* history: the number of the cart a click has made
    server,            \* what the services make of a click
    clicked,           \* the mutation of a click
    basis,             \* of an order: what the page knew and showed at the click,
                       \* and which orders had emptied the cart by then
    selectedCurrency,
    query              \* by currency, the query for the cart

serverVars == <<cart, call, carts, readAt, doneAt, server>>
pageVars   == <<clicked, basis, selectedCurrency, query>>
shopVars   == <<serverVars, pageVars>>

Clicks == Adds \cup Empties \cup Orders

PutIn(m, a) == m \cup {a}

Services == INSTANCE CartCalls
                WITH Callers <- Clicks, Nothing <- {}, Items <- Adds, With <- PutIn

Clicked   == {c \in Clicks : clicked[c] # "none"}
Succeeded == {c \in Clicks : clicked[c] = "succeeded"}

(***************************************************************************)
(* One load of the cart: the number of the cart that was read, and the     *)
(* clicks whose success has not cancelled the load while it was under way. *)
(***************************************************************************)
Loads == [version : Nat, missed : SUBSET Clicks]

Load(version, missed) == [version |-> version, missed |-> missed]

NoLoad == Load(0, {})

Queries == [shown : Loads, fetch : Loads, stage : {"idle", "asked", "read"},
            tries : 0..Retry, failed : BOOLEAN]

Query(shown, fetch, stage, tries, failed) ==
    [shown |-> shown, fetch |-> fetch, stage |-> stage, tries |-> tries, failed |-> failed]

NoQuery == Query(NoLoad, NoLoad, "idle", 0, FALSE)

--------------------------------------------------------------------------------
(* The query *)

Fetching(q) == Query(q.shown, NoLoad, "asked", 0, q.failed)

\* Asking for a query that may be running already: mounted, focused, selected.
Joining(q) == IF q.stage = "idle" THEN Fetching(q) ELSE q

\* Fault for a mutant of Invalidated: a running fetch is good enough.
InvalidatedByJoining(q) == Joining(q)

\* invalidateQueries: a running fetch is cancelled, its answer ignored, and a
\* new one started.
Invalidated(q) == Fetching(q)

\* A first load is not cancelled, nor one that nobody observes.
RunsOn(k) ==
    query[k].stage # "idle" /\ (k # selectedCurrency \/ query[k].shown.version = 0)

Missing(q, c) ==
    Query(q.shown, Load(q.fetch.version, q.fetch.missed \cup {c}), q.stage, q.tries, q.failed)

\* What the success of c does to the queries for the cart.
AfterSuccess(c) ==
    [k \in Currencies |->
        CASE RunsOn(k) -> Missing(query[k], c)
          [] ~RunsOn(k) /\ k = selectedCurrency -> Invalidated(query[k])
          [] OTHER -> query[k]]

Step(k, q) ==
    /\ query' = [query EXCEPT ![k] = q]
    /\ UNCHANGED <<serverVars, clicked, basis, selectedCurrency>>

Having(q) == Query(q.shown, Load(Len(carts), q.fetch.missed), "read", q.tries, q.failed)

Showing(q) == Query(q.fetch, NoLoad, "idle", 0, FALSE)

AskedAgain(q) == Query(q.shown, Load(0, q.fetch.missed), "asked", q.tries + 1, q.failed)

GivenUp(q) == Query(q.shown, NoLoad, "idle", 0, TRUE)

\* GET /api/cart, after which the handler asks for the products.
Read(k) ==
    /\ query[k].stage = "asked"
    /\ Step(k, Having(query[k]))

Arrive(k) ==
    /\ query[k].stage = "read"
    /\ Step(k, Showing(query[k]))

\* Fault for a mutant of ReadFails: the attempts are not counted.
ReadFailsForEver(k) ==
    /\ query[k].stage # "idle"
    /\ Step(k, [AskedAgain(query[k]) EXCEPT !.tries = query[k].tries])

\* The text of an error is no JSON.  What nobody observes is not tried again.
ReadFails(k) ==
    /\ query[k].stage # "idle"
    /\ IF k = selectedCurrency /\ query[k].tries < Retry
       THEN Step(k, AskedAgain(query[k]))
       ELSE Step(k, GivenUp(query[k]))

Focus == Step(selectedCurrency, Joining(query[selectedCurrency]))

\* The session in localStorage changes with it, so that it outlives a reload.
SelectCurrency(c) ==
    /\ c # selectedCurrency
    /\ selectedCurrency' = c
    /\ query' = [query EXCEPT ![c] = Joining(query[c])]
    /\ UNCHANGED <<serverVars, clicked, basis>>

--------------------------------------------------------------------------------
(* Clicks *)

page == query[selectedCurrency]

Shown == IF page.shown.version = 0 THEN {} ELSE carts[page.shown.version]

\* The page has had the last answer it was waiting for, and it was a cart.
Settled == page.stage = "idle" /\ ~page.failed /\ page.shown.version # 0

\* The shown cart comes from a load that the success of c would have cancelled.
Reflects(c) == c \notin page.shown.missed

\* Every click so far was answered and has its effect on the page, or none.
NothingInDoubt ==
    /\ Settled
    /\ \A c \in Clicked :
          \/ clicked[c] = "succeeded" /\ server[c] = "done" /\ Reflects(c)
          \/ clicked[c] = "failed" /\ server[c] = "refused"

Send(c) ==
    /\ clicked[c] = "none"
    /\ clicked' = [clicked EXCEPT ![c] = "pending"]
    /\ server' = [server EXCEPT ![c] = "asked"]
    /\ UNCHANGED <<cart, call, carts, readAt, doneAt, selectedCurrency, query>>

ClickAdd(a) ==
    /\ Send(a)
    /\ UNCHANGED basis

\* The cart page shows its details and buttons only with something in it.
ClickEmpty(e) ==
    /\ Shown # {}
    /\ Send(e)
    /\ UNCHANGED basis

\* The button stays enabled while an order is pending.
ClickOrder(o) ==
    /\ Shown # {}
    /\ Send(o)
    /\ basis' = [basis EXCEPT ![o] =
                    [items |-> IF NothingInDoubt THEN Shown ELSE {},
                     sure |-> NothingInDoubt,
                     before |-> IF NothingInDoubt THEN Clicked ELSE {},
                     placed |-> {p \in Orders : server[p] = "done"}]]

--------------------------------------------------------------------------------
(* The services behind the routes *)

\* The step of the services makes a new cart, which is what c was for.
HasDone(c) ==
    /\ server[c] = "asked"
    /\ server' = [server EXCEPT ![c] = "done"]
    /\ carts' = Append(carts, cart')
    /\ doneAt' = [doneAt EXCEPT ![c] = Len(carts) + 1]
    /\ UNCHANGED <<readAt, pageVars>>

\* The step reads the cart.
HasRead(c) ==
    /\ server[c] = "asked"
    /\ readAt' = [readAt EXCEPT ![c] = Len(carts)]
    /\ UNCHANGED <<carts, doneAt, server, pageVars>>

\* The step ends the call without a change.
HasEnded(c, outcome) ==
    /\ server[c] = "asked"
    /\ server' = [server EXCEPT ![c] = outcome]
    /\ UNCHANGED <<carts, readAt, doneAt, pageVars>>

ReadForAdd(a)  == Services!ReadToAdd(a) /\ HasRead(a)

AddItem(a)     == Services!WriteAddition(a, a) /\ HasDone(a)

EmptyCart(e)   == Services!Empty(e) /\ HasDone(e)

\* PlaceOrder reads the cart, charges and ships what was in it ...
PrepareOrder(o) == Services!ReadToOrder(o) /\ HasRead(o)

\* Fault for a mutant of EmptyUserCart: the cart is left alone.
EmptyUserCartSkipped(o) ==
    /\ call[o].at = "ordering"
    /\ Services!Lose({o}, {})
    /\ HasDone(o)

\* Fault for a mutant of EmptyUserCart: emptied first, and then not shipped.
EmptyUserCartTooEarly(o) ==
    /\ call[o].at = "ordering" /\ server[o] = "asked"
    /\ Services!EmptyOrdered(o)
    /\ server' = [server EXCEPT ![o] = "refused"]
    /\ carts' = Append(carts, {})
    /\ UNCHANGED <<readAt, doneAt, pageVars>>

\* ... and empties it, whatever is in it by now ...
EmptyUserCart(o) == Services!EmptyOrdered(o) /\ HasDone(o)

\* ... and goes on, or stops, without knowing whether it will be emptied.
EmptyUserCartGivenUp(o) == Services!Lose({}, {o}) /\ HasEnded(o, "unsure")

EmptyUserCartLate(o) ==
    /\ server[o] = "unsure"
    /\ Services!EmptyOrdered(o)
    /\ carts' = Append(carts, cart')
    /\ UNCHANGED <<readAt, doneAt, server, pageVars>>

\* An error before anything has changed in the cart.
Refuse(c) == Services!Lose({c}, {}) /\ HasEnded(c, "refused")

\* onSuccess, and then the promise of mutateAsync.
Succeed(c) ==
    /\ clicked[c] = "pending" /\ server[c] \in {"done", "unsure"}
    /\ clicked' = [clicked EXCEPT ![c] = "succeeded"]
    /\ query' = AfterSuccess(c)
    /\ UNCHANGED <<serverVars, basis, selectedCurrency>>

\* An error, also one after the change: the getCart that follows addItem, the
\* products that follow placeOrder, a lost answer.  Nothing is asked again.
Fail(c) ==
    /\ clicked[c] = "pending"
    /\ clicked' = [clicked EXCEPT ![c] = "failed"]
    /\ UNCHANGED <<serverVars, basis, selectedCurrency, query>>

\* The page is loaded anew, while the services go on.
Reload ==
    /\ clicked' = [c \in Clicks |-> IF clicked[c] = "pending" THEN "failed" ELSE clicked[c]]
    /\ query' = [k \in Currencies |-> IF k = selectedCurrency THEN Fetching(NoQuery) ELSE NoQuery]
    /\ UNCHANGED <<serverVars, basis, selectedCurrency>>

--------------------------------------------------------------------------------

NoBasis == [items |-> {}, sure |-> FALSE, before |-> {}, placed |-> {}]

ShopInit ==
    /\ Services!CallsInit
    /\ carts = << {} >>
    /\ readAt = [c \in Clicks |-> 0]
    /\ doneAt = [c \in Clicks |-> 0]
    /\ server = [c \in Clicks |-> "none"]
    /\ clicked = [c \in Clicks |-> "none"]
    /\ basis = [o \in Orders |-> NoBasis]
    /\ selectedCurrency \in Currencies
    /\ query = [k \in Currencies |->
                   IF k = selectedCurrency
                   THEN Fetching(NoQuery) ELSE NoQuery]

ShopNext ==
    \/ \E k \in Currencies : Read(k) \/ Arrive(k) \/ ReadFails(k) \/ SelectCurrency(k)
    \/ Focus
    \/ Reload
    \/ \E a \in Adds : ClickAdd(a) \/ ReadForAdd(a) \/ AddItem(a)
    \/ \E e \in Empties : ClickEmpty(e) \/ EmptyCart(e)
    \/ \E o \in Orders : \/ ClickOrder(o)
                         \/ PrepareOrder(o)
                         \/ EmptyUserCart(o)
                         \/ EmptyUserCartGivenUp(o)
                         \/ EmptyUserCartLate(o)
    \/ \E c \in Clicks : Refuse(c) \/ Succeed(c) \/ Fail(c)

\* A request is answered, or its connection ends: the proxy's routes time out.
Answers(k) == Read(k) \/ Arrive(k) \/ ReadFails(k)

ShopSpec ==
    /\ ShopInit /\ [][ShopNext]_shopVars
    /\ \A k \in Currencies : WF_shopVars(Answers(k))

--------------------------------------------------------------------------------

ShopTypeOK ==
    /\ cart \in SUBSET Adds
    /\ call \in [Clicks -> [at : {"idle", "adding", "ordering", "late"}, cart : SUBSET Adds]]
    /\ carts \in Seq(SUBSET Adds) /\ Len(carts) > 0
    /\ readAt \in [Clicks -> 0..Len(carts)]
    /\ doneAt \in [Clicks -> 0..Len(carts)]
    /\ server \in [Clicks -> {"none", "asked", "done", "refused", "unsure"}]
    /\ clicked \in [Clicks -> {"none", "pending", "succeeded", "failed"}]
    /\ basis \in [Orders -> [items : SUBSET Adds, sure : BOOLEAN,
                             before : SUBSET Clicks, placed : SUBSET Orders]]
    /\ selectedCurrency \in Currencies
    /\ query \in [Currencies -> Queries]
    /\ \A k \in Currencies : {query[k].shown.version, query[k].fetch.version} \subseteq 0..Len(carts)

(***************************************************************************)
(* A user reads what he wrote: once the page has the answer it waits for,  *)
(* its cart is no older than any add, emptying or order that it has seen   *)
(* succeed.  The exceptions are loads that a success could not cancel: the *)
(* first one of a query, and one that ran on while another currency was    *)
(* selected; they show a cart without the item until the next refetch.     *)
(***************************************************************************)
ReadYourWrites ==
    Settled => \A c \in Succeeded : doneAt[c] =< page.shown.version \/ ~Reflects(c)

Bought(o) == IF readAt[o] = 0 THEN {} ELSE carts[readAt[o]]

(***************************************************************************)
(* An order buys what was on the page, though PlaceOrder is not told what  *)
(* that was: if no click was in doubt when it was placed and none came     *)
(* after, the cart that it reads is the cart that was shown, and until it  *)
(* does, so is the cart that is stored.                                    *)
(***************************************************************************)
OrderBuysWhatIsShown ==
    \A o \in Orders :
        basis[o].sure /\ Clicked = basis[o].before \cup {o}
            => (IF readAt[o] = 0 THEN cart ELSE Bought(o)) = basis[o].items

\* An addition that had read the cart before p emptied it was written after.
Undone(p) == \E a \in Adds : 0 < readAt[a] /\ readAt[a] < doneAt[p] /\ doneAt[p] < doneAt[a]

(***************************************************************************)
(* No item is bought again by an order that is clicked after another has   *)
(* emptied the cart, whatever the page was told of that one: the route may *)
(* answer it with an error, and the page offer the same cart once more.    *)
(* The exception is an addition under way, which may bring back what was   *)
(* in the cart.  It says nothing of two clicks one right after the other,  *)
(* nor of an order whose emptying failed: these do share items.            *)
(***************************************************************************)
PlacedOrdersShareNothing ==
    \A o \in Orders :
        \A p \in basis[o].placed : ~Undone(p) => Bought(o) \cap Bought(p) = {}

\* The user reloads the page or selects another currency.
Restless == Reload \/ \E k \in Currencies : SelectCurrency(k)

(***************************************************************************)
(* What has succeeded shows up: if the user leaves page and currency alone *)
(* from some time on, the page comes back, after every success, to a cart  *)
(* that is no older, or to one of the exceptions of ReadYourWrites, or to  *)
(* a failed query.                                                         *)
(***************************************************************************)
CartCatchesUp ==
    <>[][~Restless]_shopVars =>
        []<>(\/ page.failed
             \/ \A c \in Succeeded : doneAt[c] =< page.shown.version \/ ~Reflects(c))
================================================================================
