------------------------------- MODULE ProductPage -------------------------------
(***************************************************************************)
(* The product page of the shop in one browser tab: the price in the       *)
(* selected currency, the row of recommendations and the AI assistant,     *)
(* with the API routes, gateways and services behind them.  What goes over *)
(* gRPC is written and read by the generated code, which is the constant   *)
(* Sends here and ProtoCodec in PageMessages, and prices are converted by  *)
(* the currency service, which other clients use too.                      *)
(***************************************************************************)
EXTENDS Currency, ProductReviews, SequencesExt

CONSTANTS
    Price,         \* the catalogue: product id -> amount in USD
    Selectable,    \* the currencies of the switcher
    CartLists,     \* the lists of product ids that the cart may hold
    Categories,    \* of each product
    AdsOf,         \* the ads of every category, in adsMap or not
    MaxAsks,       \* bound: questions put to the assistant
    MaxResponses,  \* the server's max_responses, 5 in the code
    RowSize,       \* what recommendations.ts keeps of them, 4 in the code
    Sends(_, _)    \* a message by name: <<what is read>>, or <<>> if it is refused

Products == DOMAIN Price

NoText == ""

Comma == ","

ASSUME PageAssumption ==
    /\ Selectable \subseteq DOMAIN Table /\ "USD" \in DOMAIN Table
    /\ NoText \notin Selectable
    /\ IsFiniteSet(Products) /\ Comma \notin Products
    /\ \A p \in Products : Price[p] \in Sent
    /\ CartLists \subseteq Seq(Products)
    /\ DOMAIN Categories = Products
    /\ IsFiniteSet(DOMAIN AdsOf) /\ Comma \notin DOMAIN AdsOf
    /\ \A p \in Products : Categories[p] \subseteq DOMAIN AdsOf /\ Categories[p] # {}
    /\ {MaxAsks, MaxResponses, RowSize} \subseteq Nat

VARIABLES
    productId,         \* the product on the page
    selectedCurrency,  \* "" until the effect of CurrencyProvider has run
    price,             \* the answer that came last: its key in the cache, and an amount
    asks,              \* the mutations of the assistant: product and status
    current,           \* the mutation that its observer follows, or 0
    first_run,         \* of the recommendation server
    cached_ids,        \* of the recommendation server
    row,               \* the last call for recommendations
    ad                 \* the categories that were sent, and the ads to choose from

pageVars == <<productId, selectedCurrency, price, asks, current,
              first_run, cached_ids, row, ad, reviewVars>>

MoneyOf(a) == [currencyCode |-> a.cur, units |-> a.units, nanos |-> a.nanos]

AmountOf(m) == Amount(m.currencyCode, m.units, m.nanos)

--------------------------------------------------------------------------------
(* The price *)

UNCHANGEDbutPrice ==
    UNCHANGED <<productId, selectedCurrency, asks, current, first_run, cached_ids,
                row, ad, reviewVars>>

\* getProductPrice: "!!currencyCode && currencyCode !== defaultCurrencyCode".
ConvertsTo(currencyCode) == currencyCode # NoText /\ currencyCode # "USD"

ListPrice(p) == Amount("USD", Price[p].units, Price[p].nanos)

\* The catalogue's price as the gateway has it, and the request for another.
PriceRead(p) == Sends("Money", MoneyOf(ListPrice(p)))[1]

Conversion(usd, code) == [from |-> <<usd>>, toCode |-> code]

ConversionRead(usd, code) == Sends("CurrencyConversionRequest", Conversion(usd, code))[1]

NoPrice == [status |-> "none"]

\* ProductCatalogService.getProduct for the page's query, whose key has the
\* product and the currency.
LoadPrice ==
    LET usd == PriceRead(productId)
        Keep(amount) == price' = [status |-> "loaded", product |-> productId,
                                  currency |-> selectedCurrency, amount |-> amount]
    IN /\ IF ConvertsTo(selectedCurrency)
          THEN LET request == ConversionRead(usd, selectedCurrency)
                   from == request.from[1]
               IN /\ Convert([units |-> from.units, nanos |-> from.nanos],
                             from.currencyCode, request.toCode)
                  /\ reply'.status = "ok"
                  /\ Keep(AmountOf(Sends("Money", MoneyOf(reply'.amount))[1]))
          ELSE Keep(AmountOf(usd)) /\ UNCHANGED currencyVars
       /\ UNCHANGEDbutPrice

\* Anybody may ask the currency service for anything.
OtherConversion ==
    /\ CurrencyNext
    /\ UNCHANGED pageVars

--------------------------------------------------------------------------------
(* The row of recommendations *)

\* URLSearchParams writes a list as its elements with commas between them.
Joined(ids) ==
    [i \in 1..(2 * Len(ids) - 1) |-> IF i % 2 = 1 THEN ids[(i + 1) \div 2] ELSE Comma]

\* split(','): what stands between two commas.
Split(text) ==
    LET commas == {0, Len(text) + 1} \cup {i \in 1..Len(text) : text[i] = Comma}
        Next(i) == CHOOSE j \in commas : j > i /\ \A k \in commas : k > i => k >= j
    IN {SubSeq(text, i + 1, Next(i) - 1) : i \in commas \ {Len(text) + 1}}

\* Fault for a mutant of RecommendationQuery: the handler splits the list
\* first, as the one for ads does.
RecommendationQuerySplit(ids) ==
    [userId |-> NoText, productIds |-> SelectSeq(Joined(ids), LAMBDA t : t # Comma)]

(***************************************************************************)
(* recommendations.ts takes the text of the query for a list of ids, and   *)
(* encode writes it character by character; the pieces of one id stay      *)
(* together and are one element here.                                      *)
(***************************************************************************)
RecommendationQuery(ids) == [userId |-> NoText, productIds |-> Joined(ids)]

\* The server puts the pieces together again and splits the text at commas.
request_product_ids(ids) ==
    LET text == Sends("ListRecommendationsRequest", RecommendationQuery(ids))[1].productIds
    IN {s[1] : s \in {t \in Split(text) : Len(t) = 1}}

NoRow == [phase |-> "none"]

UNCHANGEDbutRow ==
    UNCHANGED <<productId, selectedCurrency, price, asks, current, ad, reviewVars>>

\* AdProvider asks for the product on the page and those in the cart.
AskForRow ==
    /\ \E list \in CartLists, flag \in BOOLEAN :
          row' = [phase |-> "asked", ids |-> <<productId>> \o list, flag |-> flag]
    /\ UNCHANGED <<first_run, cached_ids, currencyVars>> /\ UNCHANGEDbutRow

\* random.sample of what is not excluded, and slice(0, 4) of that.
Answer(product_ids) ==
    LET filtered == product_ids \ request_product_ids(row.ids)
        Least(a, b) == IF a < b THEN a ELSE b
        kept == Least(RowSize, Least(MaxResponses, Cardinality(filtered)))
    IN \E chosen \in SUBSET filtered :
          /\ Cardinality(chosen) = kept
          /\ row' = [phase |-> "shown", ids |-> row.ids, flag |-> row.flag, shown |-> chosen]

\* With recommendationCacheFailure on, half of the calls after the first use
\* what earlier ones have left; first_run is cleared before the catalogue is
\* asked.
CacheHit ==
    /\ row.phase = "asked" /\ row.flag /\ ~first_run
    /\ Answer(cached_ids)
    /\ UNCHANGED <<first_run, cached_ids, currencyVars>> /\ UNCHANGEDbutRow

CacheMiss ==
    /\ row.phase = "asked"
    /\ row' = [row EXCEPT !.phase = "listing"]
    /\ first_run' = (first_run /\ ~row.flag)
    /\ UNCHANGED <<cached_ids, currencyVars>> /\ UNCHANGEDbutRow

\* ListProducts answers.  The cache is a list that grows; its elements count.
CatalogListed(product_ids) ==
    /\ row.phase = "listing"
    /\ cached_ids' = IF row.flag THEN cached_ids \cup product_ids ELSE cached_ids
    /\ Answer(IF row.flag THEN cached_ids' ELSE product_ids)
    /\ UNCHANGED <<first_run, currencyVars>> /\ UNCHANGEDbutRow

ListProductsFails ==
    /\ row.phase = "listing"
    /\ row' = NoRow
    /\ UNCHANGED <<first_run, cached_ids, currencyVars>> /\ UNCHANGEDbutRow

--------------------------------------------------------------------------------
(* The advertisement and the reviews *)

\* data.ts splits before it asks.
contextKeys(keys) == {t[1] : t \in Split(Joined(keys))}

\* Fault for a mutant of getAds: one category without ads is enough.
getAdsOfAll(keys) ==
    IF \E k \in keys : AdsOf[k] = {} THEN UNION Range(AdsOf) ELSE UNION {AdsOf[k] : k \in keys}

\* The ads that the service may answer with: random ones for want of others.
getAds(keys) ==
    LET allAds == UNION {AdsOf[k] : k \in keys}
    IN IF allAds = {} THEN UNION Range(AdsOf) ELSE allAds

NoAd == [keys |-> {}, list |-> {}]

\* What the reviews and the advertisement leave alone.
UNCHANGEDbutSide ==
    UNCHANGED <<productId, selectedCurrency, price, asks, current, first_run,
                cached_ids, row, currencyVars>>

\* The page of a product asks for its categories, that of the cart for those
\* of its items.
KeysOf(p) ==
    {UNION {Categories[q] : q \in Range(list)} : list \in {<<p>>} \cup (CartLists \ {<<>>})}

AdQuery(keys) == [contextKeys |-> SetToSeq(contextKeys(SetToSeq(keys)))]

LoadAds ==
    /\ ad = NoAd
    /\ \E keys \in KeysOf(productId) :
          LET read == Sends("AdRequest", AdQuery(keys))[1].contextKeys
          IN ad' = [keys |-> keys, list |-> getAds(Range(read))]
    /\ UNCHANGED reviewVars /\ UNCHANGEDbutSide

PageReviews ==
    /\ \E score \in Scores : ReviewListed(score)
    /\ UNCHANGED ad /\ UNCHANGEDbutSide

--------------------------------------------------------------------------------
(* What goes over gRPC *)

\* An amount of dollars in another currency, as the service cuts it.
Converted(p, code) ==
    {getUnitsAndNanos(code, value) :
        value \in Cut((getDouble(ListPrice(p)) * Table[code]) \div Table["USD"])}

\* What the page sends and is sent, by the name of the message.
SentByPage ==
    [Money |-> {MoneyOf(ListPrice(p)) : p \in Products} \cup
               {MoneyOf(m) : m \in UNION {Converted(p, code) : p \in Products, code \in Selectable}},
     CurrencyConversionRequest |->
         {Conversion(MoneyOf(ListPrice(p)), code) : p \in Products, code \in Selectable},
     ListRecommendationsRequest |->
         {RecommendationQuery(<<p>> \o list) : p \in Products, list \in CartLists},
     AdRequest |-> {AdQuery(keys) : keys \in UNION {KeysOf(p) : p \in Products}}]

\* It is read as it was sent: PageMessages!Read shows this of the generated code.
ASSUME WireAssumption ==
    \A name \in DOMAIN SentByPage :
        \A m \in SentByPage[name] : Sends(name, m) = <<m>>

--------------------------------------------------------------------------------
(* The assistant, and the page itself *)

UNCHANGEDbutPage == UNCHANGED <<currencyVars, price, first_run, cached_ids, row>>

Loading == current # 0 /\ asks[current].status = "pending"

\* handleAskAI: the typed question waits for the answer to the one before,
\* the quick prompts do not.
Ask(typed) ==
    /\ Len(asks) < MaxAsks
    /\ typed => ~Loading
    /\ asks' = Append(asks, [product |-> productId, status |-> "pending"])
    /\ current' = Len(asks) + 1
    /\ UNCHANGED <<productId, selectedCurrency, ad, reviewVars>> /\ UNCHANGEDbutPage

AskAnswered(i, status) ==
    /\ asks[i].status = "pending"
    /\ asks' = [asks EXCEPT ![i].status = status]
    /\ UNCHANGED <<productId, selectedCurrency, current, ad, reviewVars>> /\ UNCHANGEDbutPage

\* Reviews and ads are queries of the product and of its categories.
OpenOthers ==
    /\ ad' = NoAd
    /\ productReviews' = <<>> /\ percents' = <<>>

\* Fault for a mutant of Open: the assistant is not reset.
OpenWithoutReset(p) ==
    /\ p # productId
    /\ productId' = p
    /\ OpenOthers
    /\ UNCHANGED <<selectedCurrency, asks, current>> /\ UNCHANGEDbutPage

\* A link to another product: the page stays mounted, and the effect on
\* productId runs before anything else can happen on it.
Open(p) ==
    /\ p # productId
    /\ productId' = p
    /\ current' = 0
    /\ OpenOthers
    /\ UNCHANGED <<selectedCurrency, asks>> /\ UNCHANGEDbutPage

SelectCurrency(c) ==
    /\ selectedCurrency' = c
    /\ UNCHANGED <<productId, asks, current, ad, reviewVars>> /\ UNCHANGEDbutPage

--------------------------------------------------------------------------------

PageInit ==
    /\ CurrencyInit
    /\ productId \in Products
    /\ selectedCurrency = NoText
    /\ price = NoPrice
    /\ asks = <<>> /\ current = 0
    /\ first_run = TRUE /\ cached_ids = {}
    /\ row = NoRow
    /\ ad = NoAd
    /\ productReviews = <<>> /\ percents = <<>>

PriceNext ==
    \/ LoadPrice
    \/ OtherConversion
    \/ \E c \in Selectable : SelectCurrency(c)

RowNext ==
    \/ AskForRow
    \/ CacheHit
    \/ CacheMiss
    \/ CatalogListed(Products)
    \/ ListProductsFails

AssistantNext ==
    \/ \E typed \in BOOLEAN : Ask(typed)
    \/ \E i \in DOMAIN asks, status \in {"answered", "failed"} : AskAnswered(i, status)

PageNext ==
    \/ PriceNext
    \/ RowNext
    \/ AssistantNext
    \/ LoadAds
    \/ PageReviews
    \/ \E p \in Products : Open(p)

PageSpec == PageInit /\ [][PageNext]_<<pageVars, currencyVars>>
--------------------------------------------------------------------------------

PageTypeOK ==
    /\ productId \in Products
    /\ selectedCurrency \in Selectable \cup {NoText}
    /\ price.status \in {"none", "loaded"}
    /\ \A a \in Range(asks) : a.product \in Products /\ a.status \in {"pending", "answered", "failed"}
    /\ current \in 0..Len(asks)
    /\ first_run \in BOOLEAN /\ cached_ids \subseteq Products
    /\ row.phase \in {"none", "asked", "listing", "shown"}
    /\ ad.keys \subseteq DOMAIN AdsOf /\ ad.list \subseteq UNION Range(AdsOf)
    /\ productReviews \in Seq(Scores) /\ Len(productReviews) =< MaxReviews
    /\ percents # <<>> => percents \in [Stars -> Nat]

(***************************************************************************)
(* The price on a product's page is the catalogue's price of that product  *)
(* at the rates of the table, in the currency that was selected when the   *)
(* page asked, whatever products and currencies were on the page before    *)
(* and whatever else the currency service was asked, but for what doubles  *)
(* round of large amounts.  A price whose first decimal is a zero, as that *)
(* of the flashlight, is true in dollars only.                             *)
(***************************************************************************)
PricesAreTrue ==
    price.status = "loaded" =>
        LET due == ListPrice(price.product)
            to  == IF price.currency = NoText THEN "USD" ELSE price.currency
        IN /\ price.amount.cur = to
           /\ \/ to # "USD" /\ LeadingZero(due)
              \/ True([status |-> "ok", from |-> due, to |-> to, amount |-> price.amount])

(***************************************************************************)
(* The recommendations never show the product on the page nor one in the   *)
(* cart, and they fill the row as far as the catalogue has other products: *)
(* the handler, the generated code and the server each do something odd to *)
(* the list of ids, and together they get it right.  The exception is a    *)
(* hit of an empty cache: with the flag recommendationCacheFailure on, the *)
(* first call may fail to list the catalogue, and until another call has   *)
(* listed it the row may be short.                                         *)
(***************************************************************************)
RowIsWellChosen ==
    row.phase = "shown" =>
        LET others == Products \ Range(row.ids)
        IN /\ row.shown \subseteq others
           /\ \/ row.shown = others
              \/ Cardinality(row.shown) \in {RowSize, MaxResponses}
              \/ row.flag /\ first_run = FALSE /\ cached_ids = {}

(***************************************************************************)
(* The ad on a page comes from one of the categories of the products that  *)
(* are on it, and is a random one only if none of them has ads: no set of  *)
(* categories gets lost between the query, the route and the service.      *)
(***************************************************************************)
AdsAreOnTopic ==
    ad # NoAd =>
        LET due == UNION {AdsOf[k] : k \in ad.keys}
        IN ad.list = IF due = {} THEN UNION Range(AdsOf) ELSE due

(***************************************************************************)
(* The answer under the assistant is the one to the last question, asked   *)
(* about the product that is on the page: answers that come late, after    *)
(* another question or on another product's page, are never shown.         *)
(***************************************************************************)
AnswerIsForThisPage ==
    current # 0 /\ asks[current].status = "answered" =>
        asks[current].product = productId /\ current = Len(asks)
================================================================================
