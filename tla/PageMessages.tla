------------------------------- MODULE PageMessages -------------------------------
(***************************************************************************)
(* The product page with the generated code under it: what the page sends  *)
(* is written and read by ProtoCodec, with the messages of DemoProtos, and *)
(* any gRPC call that a page, an API route or the app may make besides is  *)
(* one step.                                                               *)
(***************************************************************************)
EXTENDS ProductPage

CONSTANT MaxSafe  \* Number.MAX_SAFE_INTEGER

ASSUME MessagesAssumption == MaxSafe \in Nat

VARIABLE call  \* the last gRPC call of any page, by service and method

Wire == INSTANCE ProtoChecks

\* The messages of ProductPage.
Schema ==
    [Money                      |-> Wire!Web!Money,
     CurrencyConversionRequest  |-> Wire!Web!CurrencyConversionRequest,
     ListRecommendationsRequest |-> Wire!Web!ListRecommendationsRequest,
     AdRequest                  |-> Wire!Web!AdRequest]

\* Sends of ProductPage: what is read of a message that was written.
Read(name, m) == Wire!decode(Schema[name], Wire!encode(Schema[name], m))

\* Any call of a page, an API route or the app.
AnyCall ==
    /\ \E i \in DOMAIN Wire!Services :
          \E method \in DOMAIN Wire!Services[i] : call' = <<i, method>>
    /\ UNCHANGED <<pageVars, currencyVars>>

MessagesInit == PageInit /\ call = <<>>

MessagesNext == AnyCall \/ (PageNext /\ UNCHANGED call)

MessagesSpec == MessagesInit /\ [][MessagesNext]_<<pageVars, currencyVars, call>>
--------------------------------------------------------------------------------

(* What a peer may write, the frontend reads as it was meant, whatever the *)
(* order of the fields and whatever it does not know, and the hand-written *)
(* JSON of Shipping.gateway.ts loses nothing of address, items and cost:   *)
(* ProtoChecks.AreRead and QuoteRead for the messages of the call.         *)
MessagesAreRead == call # <<>> => Wire!AreRead(call) /\ Wire!QuoteRead(call)

(* No page goes on with an amount whose units a number cannot hold: the    *)
(* whole message is refused (ProtoChecks.LargeRefused).                    *)
LargeAmountsAreRefused == call # <<>> => Wire!LargeRefused(call)

(* The mobile app and the frontend, generated from one file by different   *)
(* versions of the generator, write and read the same bytes and the same   *)
(* JSON for the call (ProtoChecks.Agreed).                                 *)
AppAndWebAgree == call # <<>> => Wire!Agreed(call)
================================================================================
