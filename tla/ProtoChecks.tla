------------------------------- MODULE ProtoChecks -------------------------------
(***************************************************************************)
(* What the generated code of the frontend and of the app promise each     *)
(* other and the services behind them, for the messages of every call: the *)
(* message itself and each message inside it.                              *)
(***************************************************************************)
EXTENDS ProtoCodec

Web == INSTANCE DemoProtos
App == INSTANCE AppProtos

ReviewService == Web!ProductReviewServiceService

\* The services that both files have, side by side.
SharedServices == <<
    <<Web!CartServiceService,           App!CartServiceService>>,
    <<Web!RecommendationServiceService, App!RecommendationServiceService>>,
    <<Web!ProductCatalogServiceService, App!ProductCatalogServiceService>>,
    <<Web!ShippingServiceService,       App!ShippingServiceService>>,
    <<Web!CurrencyServiceService,       App!CurrencyServiceService>>,
    <<Web!PaymentServiceService,        App!PaymentServiceService>>,
    <<Web!EmailServiceService,          App!EmailServiceService>>,
    <<Web!CheckoutServiceService,       App!CheckoutServiceService>>,
    <<Web!AdServiceService,             App!AdServiceService>>,
    <<Web!FeatureFlagServiceService,    App!FeatureFlagServiceService>> >>

RECURSIVE Parts(_)
Parts(schema) ==
    {schema} \cup UNION {Parts(schema[i].of) : i \in {j \in DOMAIN schema : IsMessage(schema[j])}}

Services == Append([i \in DOMAIN SharedServices |-> SharedServices[i][1]], ReviewService)

\* A call is the numbers of a service and the name of a method.
Messages(call) ==
    LET method == Services[call[1]][call[2]]
    IN Parts(method.request) \cup Parts(method.response)

--------------------------------------------------------------------------------

(***************************************************************************)
(* Samples: every field set, with a value of its own; no field set; every  *)
(* field but one; one field.  A repeated field holds a full and an empty   *)
(* element.  An int64 gets the value "long".                               *)
(***************************************************************************)
RECURSIVE Full(_, _)
Full(schema, long) ==
    LET Single(f) ==
            CASE IsMessage(f)       -> Full(f.of, long)
              [] f.kind = "string"  -> f.name
              [] f.kind = "bool"    -> TRUE
              [] f.kind = "int64"   -> long
              [] OTHER              -> -f.no
        Blank(f) == IF IsMessage(f) THEN createBase(f.of) ELSE ""
        Filled(f) == IF f.many THEN <<Single(f), Blank(f)>>
                  ELSE IF IsMessage(f) THEN <<Single(f)>> ELSE Single(f)
    IN [n \in Names(schema) |-> Filled(FieldNamed(schema, n))]

Samples(schema) ==
    LET full == Full(schema, MaxSafe)
        base == createBase(schema)
    IN {full, base} \cup UNION {{[full EXCEPT ![n] = base[n]], [base EXCEPT ![n] = full[n]]}
                                  : n \in Names(schema)}

(***************************************************************************)
(* The bytes that a peer may send for a message: in the order of its       *)
(* fields, in another order, with defaults written out before the values,  *)
(* and with fields of a later version of the message around them.          *)
(***************************************************************************)
Writings == 1..4

Written(w, schema, m) ==
    LET plain == encode(schema, m)
        scalars == SelectSeq(schema, LAMBDA f : ~f.many /\ ~IsMessage(f))
        defaults == [i \in DOMAIN scalars |->
            [no |-> scalars[i].no, wt |-> WireType(scalars[i]), val |-> Default(scalars[i])]]
        later == [no |-> 99, wt |-> 0, val |-> 1]
    IN CASE w = 1 -> plain
         [] w = 2 -> encode(Reverse(schema), m)
         [] w = 3 -> defaults \o plain
         [] w = 4 -> <<later>> \o plain \o <<later>>

(***************************************************************************)
(* Whatever way a peer writes a message, the frontend reads what was       *)
(* meant: the order of the fields, defaults on the wire and fields it does *)
(* not know make no difference, at any depth, and a message that was built *)
(* from some of its fields only has defaults for the others.               *)
(***************************************************************************)
AreRead(call) ==
    \A schema \in Messages(call) : \A m \in Samples(schema) :
        LET built == fromPartial(schema, toJSON(schema, m))
        IN \A w \in Writings : decode(schema, Written(w, schema, built)) = <<m>>

HasLong(schema) ==
    \E part \in Parts(schema) : \E i \in DOMAIN part : part[i].kind = "int64"

(***************************************************************************)
(* A message with units that a JavaScript number cannot hold is refused as *)
(* a whole, however deep the amount sits: no price, cost or total is ever  *)
(* shown or passed on with other units than were sent.                     *)
(***************************************************************************)
LargeRefused(call) ==
    \A schema \in Messages(call) : \A long \in {MaxSafe + 1, -MaxSafe - 1} :
        decode(schema, encode(schema, Full(schema, long))) =
            IF HasLong(schema) THEN <<>> ELSE <<Full(schema, long)>>

(***************************************************************************)
(* The app's file and the frontend's describe the same calls: the same     *)
(* methods, and bytes and JSON that one side writes the other side reads   *)
(* as they were meant.                                                     *)
(***************************************************************************)
Agreed(call) ==
    \A i \in DOMAIN SharedServices :
        LET web == SharedServices[i][1]
            app == SharedServices[i][2]
            Agree(a, b) ==
                \A m \in Samples(a) :
                    /\ decode(b, encode(a, m)) = <<m>>
                    /\ decode(a, encode(b, m)) = <<m>>
                    /\ App!fromJSON(b, toJSON(a, m)) = m
                    /\ Web!fromJSON(a, toJSON(b, m)) = m
        IN /\ DOMAIN web = DOMAIN app
           /\ \A k \in {j \in DOMAIN web : call = <<i, j>>} :
                 /\ web[k].rpc = app[k].rpc
                 /\ Agree(web[k].request, app[k].request)
                 /\ Agree(web[k].response, app[k].response)

--------------------------------------------------------------------------------

\* What the shipping service reads and answers has snake-case names.
transformAddress(a) ==
    [street_address |-> a.streetAddress, city |-> a.city, state |-> a.state,
     country |-> a.country, zip_code |-> a.zipCode]

transformCartItems(items) ==
    [i \in DOMAIN items |->
        [product_id |-> items[i].productId, quantity |-> items[i].quantity]]

\* The body that getShippingCost posts, and what it makes of the answer.
QuoteBody(items, address) ==
    [items |-> transformCartItems(items), address |-> <<transformAddress(address)>>]

QuoteAnswer(data) ==
    [costUsd |-> IF "cost_usd" \in DOMAIN data
                 THEN LET cost == data["cost_usd"][1]
                      IN <<[currencyCode |-> cost["currency_code"],
                            units |-> cost["units"], nanos |-> cost["nanos"]]>>
                 ELSE <<>>]

\* The service's answer: all three fields, whatever they hold.
CostJson(c) ==
    [currency_code |-> c.currencyCode, units |-> c.units, nanos |-> c.nanos]

(***************************************************************************)
(* Shipping is the one service that the frontend speaks JSON with, through *)
(* conversions written by hand.  They lose nothing: read as the messages   *)
(* they stand for, the body has the address and the items of the cart, and *)
(* the answer has the cost.                                                *)
(***************************************************************************)
QuoteRead(call) ==
    Web!GetQuoteRequest \in Messages(call) =>
    /\ \A address \in Samples(Web!Address), item \in Samples(Web!CartItem) :
          Web!fromJSON(Web!GetQuoteRequest, QuoteBody(<<item, item>>, address)) =
              [address |-> <<address>>, items |-> <<item, item>>]
    /\ \A cost \in Samples(Web!Money) :
          LET data == [cost_usd |-> <<CostJson(cost)>>]
          IN QuoteAnswer(data) = Web!fromJSON(Web!GetQuoteResponse, data)
================================================================================
