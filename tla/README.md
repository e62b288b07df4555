# A verification project for the OpenTelemetry demo shop

The repository is a shop of small services in a dozen languages, with a web
frontend and a mobile app in TypeScript. Much of it is telemetry, deployment and
layout; its own logic decides what is shown, ordered, charged, shipped, emptied,
booked and switched, and which messages carry that from one part to the next.
This project models that logic in TLA+, checks the models with TLC on small
instances and proves the most important results with TLAPS for every value of
the constants.

Paths below are those of the repository; `PROJECT.json` gives, for each
definition, the lines that it stands for.

## 1. The system

| Component | Its state | Its operations | Talks to |
|---|---|---|---|
| **cart** (`src/cart`, C#) | one hash per user in Valkey with a time to live; a shared connection and the flag that says it is open | AddItem, GetCart, EmptyCart; `EnsureRedisConnected` under each | Valkey, flagd |
| **checkout** (`src/checkout`, Go) | nothing that outlives a call; one shared Kafka producer | PlaceOrder; the money arithmetic; `sendToPostProcessor` | cart, product-catalog, currency, shipping, payment, email, Kafka, flagd |
| **payment**, **shipping**, **quote**, **email** | none that is kept | charge a card; quote and ship; mail a confirmation | – |
| **currency** (`src/currency`, C++) | the table of rates, in memory, shared by all calls | Convert, GetSupportedCurrencies | – |
| **accounting** (`src/accounting`, C#) | the offset of its consumer, rows in Postgres | consume, book, commit in the background | Kafka, Postgres |
| **fraud-detection** (`src/fraud-detection`, Kotlin) | the offset of its consumer | poll, count, commit | Kafka, flagd |
| **flagd-ui** (`src/flagd-ui`, Elixir) | the flag document in a GenServer and in a file | read, replace, write one flag | the file, flagd |
| **flagd** (third party) | the flags it read from the file | evaluates flags | every service |
| **frontend: cart and orders** (`src/frontend`: Cart.provider, the API routes, react-query) | in the browser: mutations, the cached query for the cart by currency, the session; in the routes nothing | Add To Cart, Empty Cart, Place Order, reload, focus, select a currency | cart, checkout, product-catalog |
| **frontend: product page** | the selected currency, cached answers, the observed question to the assistant | price, recommendations, ad, reviews, assistant | product-catalog, currency, recommendation, ad, product-reviews |
| **frontend: totals** | none | add up a cart or an order for the page | – |
| **frontend: messages** (`protos/demo.ts`, generated) | none | encode, decode, fromJSON, toJSON, fromPartial for each message | all gRPC services; shipping by JSON |
| **react-native-app** | as the frontend's cart, with one currency; session and settings | as the frontend, over the frontend's API | frontend |
| **recommendation** (`src/recommendation`, Python) | `first_run`, `cached_ids` under a feature flag | ListRecommendations | product-catalog, flagd |
| **ad** (`src/ad`, Java) | the ads by category; load generators behind flags | GetAds | flagd |
| product-catalog, product-reviews | read-only rows in Postgres | queries; questions to an assistant | Postgres, llm |
| llm, load-generator, proxies, telemetry stack | configuration, random input | – | – |

An order runs like this: the page of a product shows a price that the currency
service converted. The browser posts to the frontend's routes, which add items to
the cart and call PlaceOrder. Checkout reads the cart, asks for product data,
conversions and a shipping quote, charges the card, ships, empties the cart, mails, produces the
order to the topic `orders` and answers. Accounting and fraud-detection consume
the topic, each in a group of its own.

### What is hard about it

* Nothing is locked between the read of a cart and its write, nor between the
  read of the cart by an order and its emptying. Calls of one user overlap.
* Checkout keeps no record of an order. A failure after the charge is answered
  with an error and nothing is taken back; a stop of the process leaves the
  order wherever it was.
* A remote act and its answer are two things: a charge may be made and its
  answer lost.
* The page acts on a cart that it loaded some time ago. Loads are tried again,
  joined by others and cancelled; PlaceOrder is not told what was on the page.
* Two requests of one click handler run one after the other: a click may have
  taken effect and be answered with an error.
* Answers come back after the page has moved on to another product or currency.
* One file of messages was generated twice, by two versions of the generator,
  and the services that read them are written in other languages still.
* Handlers take answers from channels that they share; a context may end while
  its answer is on the way.
* Both consumers commit offsets without regard to what they have done with the
  messages.
* Money is a pair of integers; its sums mix signs, carries and nanos.
* The flag document is written by whole-document and single-flag changes, from
  several pages, through a file that another process reads.

`PROJECT.json` lists 40 such places under "hazards", each at its line, with the
properties that watch it. Section 7 lists the places that no property watches.

### What makes each component correct

* cart: no interleaving makes units out of nothing; calls that do not overlap
  are atomic; only a call that failed leaves a cart that never expires; requests
  that find the connection closed make one connection between them and end.
* PlaceOrder: at most one charge and one shipment, in this order, and nobody is
  told of an order that lacks either; goods that were paid for leave the cart;
  the invoice is what was charged; every call ends unless the Kafka producer keeps it.
* total: the charge is the exact sum, a valid amount, and no addition panics unless
  amounts are small (section 4).
* producer: answers and waiters balance; the producer stops for good only when
  enough handlers have walked away; who waits gets an answer.
* currency: a conversion between listed codes is true within the rounding of doubles,
  whatever other calls there are.
* accounting: no double booking, no silent gap, no message that blocks the rest;
  what is booked was paid and shipped, and is no order that PlaceOrder answered with an error.
* fraud-detection: once its group has committed an offset, no order is passed over
  except behind a record that does not parse; no record blocks the rest for ever.
* the cart in the browser: it shows what the user's own successful clicks did, and
  comes to do so; an order buys what was on the page; two orders, one clicked after
  the other has emptied the cart, share nothing, whatever the page was told of the first.
* product page: price, ad, row, bars and answer belong to the product and the
  currency that are on the page, and are true.
* messages: whatever way a peer writes a message, it is read as it was meant or
  refused as a whole; the app and the frontend understand each other.
* totals on pages: what is shown is what is charged.
* flags: the file is what the server shows; a dashboard's change of a flag that is there
  stays; whatever documents editors save, the server comes back and works off its mailbox,
  and flagd catches up with it.

## 2. The modules

| Module | Models | Built on |
|---|---|---|
| `SharedCart` | abstract: what the cart service promises | – |
| `CartStore` | CartService.cs and ValkeyCartStore.cs: carts as stored, calls as round trips; the refinement of `SharedCart` | `SharedCart` |
| `CartConnection` | `EnsureRedisConnected` and its event handlers | – |
| `OrderSaga` | abstract: what placing an order promises | – |
| `CartCalls` | abstract: what additions, emptyings and orders do to one user's cart, as seen from the shop | – |
| `Checkout` | PlaceOrder over the cart service, with payment, shipping, email and Kafka as acts | `CartStore` |
| `CheckoutProperties` | the properties of both, and the refinements of `OrderSaga` and, per user, of `CartCalls` | `Checkout`, `OrderSaga`, `CartCalls` |
| `Money` | IsValid, Sum of money.go | – |
| `OrderTotal` | MultiplySlow, Must, the total of PlaceOrder | `Money` |
| `Currency` | the table, getDouble, getUnitsAndNanos, Convert | `Money` |
| `OrderPublish`, `PublishProperties` | sendToPostProcessor and CreateKafkaProducer | – |
| `Accounting` | Consumer.cs over Kafka and Postgres | – |
| `OrderPipeline` | an order from its placement to the books | `Accounting`, `OrderSaga` |
| `FraudDetection` | main.kt over the Kafka client | – |
| `OrderPage` | the totals of an order's page and of the cart page, over the lines of PlaceOrder | `OrderTotal` |
| `Storefront` | the cart provider, react-query's query and mutations, the routes for cart and checkout, the services as far as `CartCalls` goes | `CartCalls` |
| `ProductReviews` | the distribution of stars and its percentages | – |
| `ProductPage` | price, recommendations, ad and assistant with their providers, routes, gateways and services | `Currency`, `ProductReviews` |
| `ProtoCodec` | the five functions that the generator writes for each message | – |
| `DemoProtos`, `AppProtos` | all messages and services of both `protos/demo.ts` | `ProtoCodec` |
| `ProtoChecks` | samples of messages, ways to write them, the hand-written JSON of shipping, and what is promised of them | both |
| `PageMessages` | the product page over the generated code, and any other gRPC call | `ProductPage`, `ProtoChecks` |
| `FlagStorage` | storage.ex, the editor, the dashboard, the REST write, flagd's reload | – |
| `CartProofs`, `CheckoutProofs`, `OrderTotalProofs`, `KafkaProofs`, `AccountingProofs`, `StorefrontProofs`, `PageProofs`, `FlagProofs` | theorems (section 5) | the modules they are about |
| `MC*` | constants for TLC | |

A definition whose name is that of another one with an ending (`KeyExpireSkipped`,
`SumUnreduced`, ...) and whose comment begins with *Fault* is a wrong version of
it. No specification uses it; it serves to show that a property notices the
mistake (section 6).

### State and actions against the code

**CartStore.** `cart` and `key` are the hash of a user and its key (absent,
with a time to live, without one); `call` is, per caller, the RPC it has in
progress and how far it is. `AddItemRead` is AddItemAsync up to the HashGet,
`AddItemWrite` the change and the HashSet, `KeyExpire` the renewal that ends the
call; `EmptyCartWrite` and `KeyExpire` are EmptyCartAsync; `GetCart` is one round
trip. `CallFails` is an exception between two round trips, or an EmptyCart that
went to the bad store of the cartFailure flag. The case of a write that Valkey
made and whose answer was lost is `AddItemWrite` followed by `CallFails`: the
multiplexed connection keeps the order of commands. `KeyExpires` is Valkey's.
In `SharedCart` an addition is one step, where the write of AddItem is, and an
emptying where the write of EmptyCart is; a user whose calls have overlapped is
promised only that the cart holds no more than was put in.
`added`, `clean` and `failed` are histories. A caller may hold a cart it has read
("held"), as PlaceOrder does, so that its emptying counts as one call with its read.

**CartConnection.** `flag`, `current`, `lock` are `_isRedisConnectionOpened`,
`_redis`, `_locker`. A request reads the flag (`Ensure`), gets the lock and reads it
again (`Lock`), connects (`Connect`), fails (`TestFails`) or attaches handlers
(`Attach`) and sets the flag (`Mark`), then reads `_redis` (`Use`). Outages and the
client library's restores are external; `Handle` is a handler that runs on the
thread pool, in any order with the others. The model starts where `Initialize` has
succeeded, as the service does not serve before. A multiplexer that is neither
current nor watched has no further part in the program, and its name is given to
a new one; the model therefore does not count the objects that are never disposed of.

**Checkout.** An order is a PlaceOrder handler that runs through `stage`. The
calls that only read (products, conversions, quote) are one step, `Prepare`, or
`PrepareFails`. Charge and shipment are each split into the act at the other
service (`Charge`, `Ship`) and its answer (`ChargeAnswered`, `ShipAnswered`), so that
`ChargeFails` before the act is a refusal and after it a lost answer. The cart is
emptied by the calls of `CartStore`; whatever becomes of them, PlaceOrder goes on
(`EmptyCartAnswered`, `EmptyCartGivenUp`), as the code drops that error. Publishing is two
steps that are not the handler's own: the producer takes the message
(`SendToPostProcessor`, the stage becomes "sent"), and an answer or the end of the context lets the
handler go on (`LeavePostProcessor`), from either side of `Input`. What the producer does
in between is `OrderPublish`; a handler may wait for it for ever, as neither checkout nor the
frontend's gateway sets a deadline.
`Crash` ends every handler and call in progress: money.Must panics, nothing recovers
panics, and a stop of the service does not wait, because GracefulStop stands behind
a Serve that does not return. An order of an empty cart is charged and shipped,
as in the code.

**CartCalls.** One user's cart and, per caller, a call: an addition that has read the
cart and not yet written it, an order that has read it and not yet had it emptied, an order that
no longer waits for that. `CallOf` of `CheckoutProperties` reads this off a call and the
stage of its order. Two modules meet here: `Checkout` over `CartStore` implements `CartCalls` for each
user, and the services of `Storefront` take only its steps; both are proved (section 5).
That `Storefront` also leaves none of them out is seen from its text: it has an action for
each kind of step but `Expire`, and lets calls fail one at a time, in any order, where a
crash of checkout ends several at once.

**Money, OrderTotal, Currency.** An amount is `[cur, units, nanos]`; `NanosMod`
stands for the billion. `Quotient` and `Remainder` round towards zero as Go does.
`OrderTotal` takes each `Sum` as a step; `Panic` is what Must does when Sum fails.
In `Currency` a double is a whole number of nanos; what rounding may do to it is
the choice in `Cut`: any result that is off by no more than `Slack`, upwards or downwards,
which is one nano and one more for each `Precision` nanos of the result. A double rounds to
one part in 2^53. The two rates make two such roundings, the digits and their sum with the
units at most four, the quotient and the product two: eight parts in 2^53 are less than
one in 10^15, which is the code's `Precision`. The product with 10^9 in
getUnitsAndNanos adds far less than a nano, which the first nano covers. The result is taken to fit a long (`Sent`):
beyond it the cast is undefined. `Touch` is `operator[]`, which inserts a missing key. An
amount whose code is not in the table has rate zero: a source of rate zero makes a
division by zero, whose cast to long is undefined; a target of rate zero makes
the answer zero. Both are answered with OK.

**OrderPage.** Both pages reduce the items to units and nanos apart, add the
shipping cost and carry once; `ShowLine` and `ShowShipping` are steps of
`OrderTotal` that add the same line on the page. The page multiplies where
PlaceOrder adds one by one.

**Storefront.** A click on a button is an element of `Adds`, `Empties` or `Orders`;
the cart is the set of `Adds` in it. `carts` is the history of carts at the
service, whose last element is the cart now, so that an answer is known by the
version it was read from. `server` says how far the services are with a click and
`clicked` what its mutation knows. `query` is, by currency, the cache entry of
react-query: what is shown, the load under way, how often it was tried.
`Succeed` is onSuccess: the query is invalidated, and that cancels a load unless
it is the first one of the query or nobody looks at it (`RunsOn`), in which case
the load is marked with the clicks it missed. `Fail` may come after the services
have done their part: a getCart that follows addItem, the products that follow
placeOrder, a lost answer. What the services do to the cart is a step of `CartCalls`,
for each of them: `ReadForAdd` and `AddItem` are the two round trips of an addition,
`PrepareOrder` is PlaceOrder's read of the cart, `EmptyUserCart` its emptying. An order that gave
up on the emptying (`EmptyUserCartGivenUp`), or stopped while it waited for it, is `unsure`: the cart may be
emptied at any time from then on (`EmptyUserCartLate`), or never. `readAt` and `doneAt` say
which cart of `carts` a click has read and which it has made. The expiry of a cart after 60
minutes is in `CartCalls` and not here: the visit ends before. `Reload` drops the page's state and keeps the session. The mobile app is this module with
one currency and without `Focus`; it shows its toast of success before it has an
answer, which is no state here.

**ProductPage.** The page's parts share the product, the selected currency and the
messages. `LoadPrice` is getProductPrice with the catalogue's answer and the
request to the currency service going through the generated code, and `Convert` of
`Currency`. The generated code is the constant `Sends` here; `WireAssumption` says that it
reads what this page sends as it was sent. In `PageMessages` `Sends` is `Read`, which is
encode and decode of `ProtoCodec`, so that TLC evaluates the assumption for the
code before each run; `OtherConversion` is any other client. `AskForRow`, `CacheHit`, `CacheMiss`,
`CatalogListed` and `ListProductsFails` are the recommendation server under the
flag recommendationCacheFailure, behind a route that passes on the list of ids as
one text. `Ask`, `AskAnswered` and `Open` are the mutation of the assistant, its
observer, and the effect that resets it when the product changes. `LoadAds` is the
context, the route and the choice by category. `AnyCall` of `PageMessages` names a
method; the properties then speak of the messages of that call. `ReviewListed` adds a
review to the list of a product and computes the bars.

**ProtoCodec and the protos.** All generated functions of one kind are the same
but for the fields, so a message is the sequence of its fields and each function
an operator on such a sequence: the loop over tags with its check of number and
wire type, unknown fields skipped, a group's end stopping the loop, the default
left out, int64 through a check of the safe range. A repeated field is written
from any iterable, a text one character at a time. The bytes within an entry are
the protobuf library's.

**OrderPublish.** A sender is a handler or one of the goroutines that the
kafkaQueueProblems flag makes it start. `inflight`, `successes`, `errors` are the
messages sarama has, and its two channels. With RequiredAcks = NoResponse a success
is a message that was written to the socket. Each sender has a message of its own,
although the goroutines of one handler share a pointer: only fields that sarama sets
differ. Which message an answer is about is not kept: a handler takes any.

**Accounting.** `hand` is the message in ProcessMessage. `AutoCommit` may happen
at any time and commits what Consume has handed out. `Book` inserts the rows,
`Refuse` is the primary key that an order booked before violates, `Drop` any
other failure, all swallowed. `Crash` is every stop: Program.cs runs StartListening
before host.Run, so that a SIGTERM closes nothing.

**OrderPipeline.** Orders are placed by `OrderSaga`, which `Checkout` implements, and
those that it has told others of (`Announced`) may reach the topic, at any time and any
number of times: handlers end before their message arrives, and kafkaQueueProblems
repeats it. `told` includes orders that were mailed and never produced, so that the
pipeline allows more than the code does.

**FraudDetection.** `Poll` commits what the previous poll returned and takes a
batch; `Count` folds one record; `Poisoned` is a record that does not parse: `use`
closes the consumer, which commits the position behind the whole batch, and the
process starts again. `PollLimit` slow records use up max.poll.interval; then `PutOut`
takes the consumer out of its group, and its next poll joins again (`Join`), as a new
process does. main.kt sets no auto.offset.reset, so that a group joins from its
committed offset or, if it has none, from the end of the topic (`Start`); accounting sets
Earliest (Consumer.cs:148). `began` is the history of where that was: orders from before it are
never looked at. `Killed` is a stop without a close.

**FlagStorage.** `state` is the GenServer's document, `mailbox` its messages,
`file` the file, `writing` what File.write! is in the middle of writing: it cuts the
file first (`BeginWrite`) and has written it later (`FinishWrite`). `Save` of an
editor checks that the text is JSON, nothing else. `Post` adds a message, `NextIs`
takes the first. A document may lack flags or their default variant (`Unset`), have data
of a flag that is no map (`NoMap`), be an object without flags (`Bare`) or none at all (`Other`).
`update_flag` changes only a default variant that is there; a dashboard that still shows a flag
the document has lost says "Saved" (dashboard.ex:59) and nothing is changed. A single-flag
write over a document that is no object, or of a flag whose data is no map, raises
(`WriteRaises`), the process dies with its mailbox (`ServerGone`) and the supervisor
starts another (`Start`), which reads the file. If the file was left cut short,
`Start` is never enabled: init raises each time. `Reload` is flagd, which keeps its
flags when it cannot read the file. What flagd makes of a document that does not set
every flag is left open: it may take it or keep what it has.

## 3. What TLC checks

Every passing run is exhaustive, `storefront` within `OneStory` and `product_page` within
`OnePartSpec`, both explained below. States are distinct states; times are with two workers.

| Run | Question | Bounds | States |
|---|---|---|---|
| `cart_store` | do overlapping, failing and expiring calls keep `NoUnitsFromNowhere`, `CartsExpireUnlessACallFailed`; does the service implement `SharedCart` | 1 user, 2 products, 2 callers, 2 units a call, 2 units a product | 219 541, 14 s |
| `cart_connection` | `ReplacedOnlyAfterFailures`: one connection for the requests that find it closed; `RequestsEnd` | 2 requests, 2 outages, 5 multiplexers | 132 890, 25 s |
| `checkout` | does PlaceOrder implement `OrderSaga`; `NoUnitBilledTwice`, `PaidGoodsLeaveTheCart`, `InvoiceIsWhatWasCharged`, `CartEmptiedOnlyForShippedGoods`; `EveryOrderEnds` | 2 orders and a shopper, 1 user, 1 product, 1 unit, the producer set | 360 189, 120 s |
| `order_total` | `PanicsOnlyOverSmallAmounts`, `ChargeIsValid`, `ChargeIsExact`, `PageShowsTheCharge` | 8 nanos to the unit, all prices below two units, quantities 0 to 3, 2 lines | 49 379, 2 s |
| `publish` | `AnswersBalance`, `WedgedOnlyByThoseWhoGaveUp`, `WaitingEnds` | 3 handlers with a goroutine each, room for 1 message each way | 121 668, 70 s |
| `accounting` | `BookedOrdersWereShipped`, `BookedAtMostOnce`, `NoSilentGap`, `EveryMessageSettles` | 2 orders from their placement on, 4 messages, 2 stops | 737 367, 130 s |
| `fraud_detection` | `NoOrderPassedOver`, `RecordsArePassed` | 4 records, batches of 3, 1 slow record uses up the interval, 1 kill | 16 712, 5 s |
| `product_page` | `PricesAreTrue`, `RowIsWellChosen`, `AdsAreOnTopic`, `AnswerIsForThisPage`, `PercentsAddUp`, `MessagesAreRead`, `LargeAmountsAreRefused`, `AppAndWebAgree` | 4 products, 2 listed codes and 1 unlisted, 8 amounts of three decimals, carts of up to 2 lines, 2 questions, 3 answers of the server of which the row keeps 2, 6 reviews, each method of each service, doubles of one part in 2000 | 68 453, 90 s |
| `storefront` | `ReadYourWrites`, `OrderBuysWhatIsShown`, `PlacedOrdersShareNothing`, `CartCatchesUp` | 2 additions, 1 emptying, 2 orders, 2 currencies, 1 retry; the constraint `OneStory` | 311 260, 60 s |
| `flags` | `FlagTypeOK`, `StateIsInFile`, `DashboardChangesStay`, `FlagsSettle` | 2 flags, 2 variants, 1 editor, 3 messages, 1 stop | 109 560, 21 s |

Type invariants that no run checks are proved (section 5).

### Why the bounds are enough

* *cart_store*: the properties compare one write with the reads before it. Two
  callers make every order of two calls' round trips; two products show that a
  write touches no other line. Users do not interact.
* *cart_connection*: two requests race at both checks of the flag; two outages
  let a replaced multiplexer fail and be restored while its successor works. Five
  names are one more than are ever current or watched, so `Connect` is never
  blocked for want of a name.
* *checkout*: two orders of one user and a shopper make each race on a cart:
  two orders that read the same goods, an addition between an order's read and
  its emptying, a stop in between. One unit suffices to bill one twice.
* *order_total*: the cases of Sum are decided by the signs and by the carry of
  nanos; with eight nanos to a unit all pairs occur. Two lines make sums of sums.
* *publish*: with room for one message each way two handlers that give up
  wedge the producer; the third meets it wedged.
* *product_page*: the parts of the page share nothing but the product on it, so
  `OnePartSpec` moves one of them at a time, along with the opening of other products.
  A request leaves only its codes in the currency table, so that two requests show
  whatever a sequence of them does. Four products against a row of two leave more
  candidates than places, and with a cart of two and the product on the page fewer.
  Six reviews on seven scores give every remainder of five shares up to sixths; of the
  lists with the same scores one is followed, as the bars do not depend on the order.
  Three decimals for nine let the loop of getDouble run none to three times; the proof
  has nine.
  A `Precision` of 2000 beside results of a few thousand nanos makes doubles miss by one
  nano or by several, both ways, as those of the code do for large amounts.
  Each message of each method is taken full, empty, with one field and without one,
  with a full and an empty element in each repeated field, in four ways of writing.
* *storefront*: one retry separates the first try from the last. An addition and two
  orders make every race of orders and of an addition with one of them, an emptying that
  of a cart emptied under the page. The second addition (`Late`) comes while the first
  order is on its way, which it takes to bring bought items back: it reads before the
  emptying and writes after it. The second order (`Second`) comes after the others.
  `OneStory` does not follow what a third click adds to a second currency or to an
  emptying, nor failing loads beside the late addition: with two clicks a success already
  meets every state of the other currency's load, and the theorems of section 5 need
  none of these bounds. `CartCatchesUp` is checked under the same constraint:
  it cuts off behaviours that go on clicking, not the ones that wait for answers.
* *accounting*, *fraud_detection*: four messages with repeats, a batch border, and
  a stop at each point, also a second one while the first one's messages come again.
* *flags*: two flags show that a change of one keeps the other, also when the document
  has lost one of them; three messages let a write, a replace and another write meet a stop.

### Fairness, and why the code justifies it

* *checkout*: weak fairness of what an order's handler and the calls it has at the
  cart service do. That the services it calls answer, or their connections end, is an assumption
  about them: checkout sets no deadline on gRPC calls, and its http.Client has no timeout. Nothing is
  assumed of the Kafka producer (`ProducerStep` is not fair), of shoppers, stops or
  failures, and `EveryOrderEnds` says that an order ends or waits for the producer. Who waits
  there, and until when, is the subject of `publish`.
* *cart_connection*: threads run (weak fairness of each request's steps), the
  library restores a connection while Valkey is there, and Valkey comes back. The lock
  needs no strong fairness, because each request takes it once.
* *publish*: goroutines run; sarama answers for what it has unless Successes is
  full; the error goroutine runs. No context is made to end. `WaitingEnds` says what
  this suffices for: someone may wait for ever once the error goroutine has taken a
  failure that a handler waited for, or a handler gave up.
* *accounting*: the loop consumes and processes; publishing, commits and stops are
  not fair.
* *fraud_detection*: the loop polls when there is something, and folds.
  `RecordsArePassed` assumes that the flag is off from some time on: with it on
  for ever a batch may come again for ever.
* *storefront*: a request of the page for the cart is answered or fails, because the
  proxy ends a route that takes too long and the browser a connection that is
  gone. Nothing is assumed of the clicks and of what the services do with them.
  `CartCatchesUp` speaks of users who leave page and currency alone from some time on
  (`Restless`): who reloads for ever sees nothing.
* *flags*: the GenServer works off its mailbox, the supervisor restarts it, flagd
  reads a file that sets every flag if it stays; of other documents no reload is assumed.
  `FlagsSettle` makes the exception for a file that a stop has left cut short.

### Deadlock

It is checked where the code never stops by itself (`cart_store`,
`cart_connection`, `checkout`, `fraud_detection`, `product_page`). In the other runs the end
of the bounded input is a state without a successor.

## 4. Where code and documentation disagree

Two runs expect a violation and check what a comment or document says:

* `currency_nanos` (`NanosAreBillionths`, server.cpp:149): the loop that reads
  nanos as decimals stops when the rest is zero and drops leading zeros: 0.08 is read
  as 0.8. The flashlight (init.sql:170), 57.08 dollars, is 57.80 dollars in any other
  currency. `PricesAreTrue` holds of the other amounts, within the rounding of doubles.
* `flag_conflict` (`ConflictsArePrevented`, storage.ex:35): a replace stores the
  document of an editor that read it earlier over all later changes; the
  module's documentation says that last-writer-wins is prevented.

Seen while modelling, in the models but not the subject of a run of its own:

* Sum takes a sum whose units are zero for one of different signs (money.go:90), so
  that 0.4 and 0.4 units make 1 unit and -0.2. The next Sum fails on that although
  all prices are valid; Must panics and ends the process.
  `PanicsOnlyOverSmallAmounts` states, checks and proves that it takes a price below
  half a unit or a shipping cost below one.
* `MultiplySlow` of quantity 0 is the amount itself (money.go:113), so a cart line of
  quantity 0 is charged as one unit. `ChargeIsExact` excepts orders with such a line.
* `EnsureRedisConnected` connects again for each waiting request as long as
  connects fail, although a comment says "only at the first thread".
* A handler may take the answer for another handler's message and log its offset,
  or report its failure (main.go:651-664).
* An unknown currency code stays in the table once it was asked for, and is
  listed by GetSupportedCurrencies from then on (server.cpp:195).
* Only the success of a mutation makes the page ask for the cart again
  (Cart.provider.tsx:34). After an order that was placed and answered with an error,
  the page goes on showing the items until the next load; a second click orders
  the empty cart. `OrderBuysWhatIsShown` excepts orders placed with a click in doubt.
* A first load of the cart is not cancelled by a success, so that it may show the cart
  from before it; so may the load of a currency that was left meanwhile.
* An addition that has read the cart before an order emptied it and writes after that puts
  back all that the order has bought, and the next order buys it again
  (ValkeyCartStore.cs:132-173). `PlacedOrdersShareNothing` excepts this (`Undone`). It says nothing of
  orders whose emptying nobody waited for: emptyUserCart's error is dropped (main.go:353), and a
  request that was given up may still be carried out after the order was answered with success;
  nor of two clicks one right after the other (CartDetail.tsx:38), which do buy the same items.
* The fraud consumer sets no auto.offset.reset (main.kt:38-49): a group without a committed
  offset starts at the end of the topic. Orders produced before its first join, and those that a
  process killed before its first commit had not counted, are never looked at.
* A dashboard that is older than the document may change a flag that an editor has removed:
  nothing is changed (storage.ex:57-63) and the page says "Saved" (dashboard.ex:59).
  `DashboardChangesStay` speaks of flags that the document sets.
* An order may be in the books although the browser shows an error: a stop of checkout, or a product
  that cannot be read after placeOrder (checkout.ts:20), comes after the order was published.
* recommendations.ts passes the ids as one text for a list of texts. The generated
  code writes its characters, the server joins them and splits at the commas:
  `RowIsWellChosen` shows that this comes out right. The mutant of it, a route that
  does split, shows that the server relies on it.
* With recommendationCacheFailure on, a catalogue that fails on the first call leaves an
  empty cache that later calls answer from (recommendation_server.py:83-100), until one of
  them lists the catalogue: `RowIsWellChosen` excepts a row only while the cache is empty.
* Of the mobile app, outside the models: its ProductCard.tsx:49 divides nanos by
  100000000, where demo.proto:193 has 10^-9; in CartItems.tsx:39-40 of the frontend,
  `a + nanos || 0` is `(a + nanos) || 0`, which matters only for undefined nanos; option
  12 of the months in CheckoutForm.tsx is labelled January.

## 5. What is proved

All theorems are of the form "every behaviour of the specification ...", for every
value of the constants that satisfies the module's named assumption.

**CartProofs, the carts.** `CartInv` adds to the types that each cart in the hand of a
call holds, with the units the call will write, no more than was ever added, and
that a key without a time to live has a call that will renew it or a failure. From
it follow `CartTypeCorrect`, `NoUnitsFromNowhereHolds` and `CartsExpireHolds`. `SerialInv` says that a
user whose calls never overlapped has at most one call, and that this call saw the
cart as it is stored. With both, each step maps to a step of `SharedCart` or to none
(`CartImplementsSharedCart`): an addition of a user who is alone writes what it read, plus the
units, which is why it is exact.

**CartProofs, the connection.** `ConnInv` counts watched multiplexers against the
failures handled, one more while the flag is up or about to be set.
`ReplacedOnlyAfterFailuresHolds`, `ConnTypeCorrect`.

**CheckoutProofs.** `Inv` joins the two invariants of the carts with `HandlerInv` (which
charges, shipments, mails and messages each stage may have behind it), `CallInv`
(which call of the cart service belongs to each stage, and that a held cart is the
one that was priced), `InvoiceInv` and `BillInv` (the balance of billed, stored and
added units, which has to look the other way between a charge and the emptying).
One lemma per action, then `TypeCorrect`, `NoUnitBilledTwiceHolds`,
`PaidGoodsLeaveTheCartHolds`, `InvoiceHolds`, `CartEmptiedOnlyForShippedGoodsHolds`, and three
refinements. `CheckoutImplementsOrderSaga`: each step maps to a step of `OrderSaga` or a
stutter. `CheckoutKeepsSharedCart`: what the cart service promises by itself it also
promises under handlers that hold carts, give calls up and die together.
`CheckoutImplementsCartCalls`: for each user a step is a step of `CartCalls` or, when it is about
another user, a stutter. Most steps leave the calls as `CallOf` sees them (`CallStays`); an
error, a given-up emptying or a crash ends some of them and leaves others late
(`CallsAreLost`). It rests on `CallInv`: only an order that has charged and shipped has
an emptying on its way. TLC has no form for an instance under a quantifier as a property, so no run checks
this one; the theorem has all of it.

**OrderTotalProofs.** Facts about `Sum` for all amounts in range, then
`TotalTypeCorrect`; `ChargeIsExactHolds` by `ExactInv`, which counts what MultiplySlow
still has to add; `PanicsOnlyOverSmallAmountsHolds` and `ChargeIsValidHolds` by
`WholeInv`: without small amounts the total is a unit or more once the shipping cost is
in, and a sum never leaves the case of equal signs. `PageShowsTheChargeHolds` carries
the worth of both sums along the steps of `OrderPage`.

**KafkaProofs, the producer.** `PublishInv` adds that sets are finite and messages are in one
place, that who gave up waits no more and that goroutines start after their handler.
`PublishTypeCorrect`; `AnswersBalanceHolds` counts; `WedgedOnlyByThoseWhoGaveUpHolds` follows by arithmetic.

**KafkaProofs, fraud-detection.** The invariant places the committed offset, the fold and the position
in order, zero only for a service that has never joined its group, and extends `NoOrderPassedOver` over the batch. `NoOrderPassedOverHolds`, `FraudTypeCorrect`.

**AccountingProofs.** The invariant is that all before the committed offset, and
all before the position except the message in hand, is settled. `NoSilentGapHolds`,
`BookedAtMostOnceHolds`, `AccountingTypeCorrect`. With the pipeline before it the service behaves
as by itself (`PipelineKeepsTheBooks`), so that these hold there too. `BookedOrdersWereShippedHolds`
needs the topic between placement and books: `Placed` says what `OrderSaga` keeps of orders
that others were told of, `FromThePlaced` that topic and books have no others.

**StorefrontProofs.** `ShopInv` joins `ShopTypeOK` and `ReadYourWrites`, which are not
inductive even together, with six facts. TLC has checked each of them on the run's constants.

* `FetchSees`: a load that has read the cart has every success that it is not marked to
  have missed, which `ReadYourWrites` needs when the load arrives.
* `Agreement`: mutations and services agree on which clicks were made and have succeeded,
  and the latest cart is the work of a click, or an order nobody waited for may have made it.
* `CallsAgree`: a call that is under way works with the cart that its click has read; the
  stored cart is the last one.
* `InTheCarts`: carts hold only what was done, and what an order has bought and emptied is in none
  of the later carts unless an addition that had read before has written after
  (`StaysOut`). It speaks of all later carts, not only of the last, because an addition may write
  any cart it has read since.
* `Earlier`: an order clicked after another has emptied the cart reads it after that. With `StaysOut` the two share nothing (`ApartByCarts`).
* `OrderStands`: while an order with nothing in doubt is on its way and nobody clicks, it
  buys what was shown, and all other clicks are settled at the services, which is why
  nothing changes the cart it will read.

Steps of the services are sorted by what they do: read (`Reads`), make a new cart (`Puts`,
`PutsLate`) or end (`Ends`), so that each fact is shown to last through four kinds of steps and not through
eight actions. Then `WritesAreRead`, `OrdersBuyWhatIsShown`, `PlacedOrdersAreApart`,
`ShopTypeCorrect`, for any clicks, currencies and retries. `ShopMakesCartCalls` says that
the services in the shop make only the steps of `CartCalls`.

**FlagProofs.** `StateIsInFile` and `DashboardChangesStay` speak of the file, and a file that
is being written has nothing in it; `FlagInv` therefore adds `InWriting`, what is being
written and of which message, and `Kept`, that the server's document has what
dashboards may expect of the file. A restart takes the document from the file, a
finished write the file from the document, so that each needs the other. The message that is
being written is part of it, because what a write leaves of a dashboard's wish
depends on whether the document still sets the flag (`Wanted`).
`FlagTypeCorrect`, `StateIsInFileHolds`, `DashboardChangesStayHolds`, for any flags, editors, messages and stops.

**PageProofs.** `PageInv` has a part for each part of the page. The only thing it uses of the
generated code is `WireAssumption`.

* Assistant: `LastAsked`, that the observer follows no mutation but the last, and this one
  is about the product on the page; `AnswerIsForThisPageHolds`.
* Row: `AskedWithCart`, that a call names the product and a list of the cart. What is
  joined with commas and split at them again is the list (`SplitJoined`), for any ids
  without commas; the cache has the whole catalogue or nothing (`RowTyped`);
  `RowIsWellChosenHolds`, for any catalogue.
* Ad: the same for the categories; `AdsAreOnTopicHolds`.
* Reviews: no invariant is needed beyond the bars themselves; `PercentsAddUpHolds` by
  `BarsAddUp`. No bar loses more than one percent, so what all have lost, a whole number of
  percents, is at most the number of bars that lost something; those that lost most get
  one back each, and none is raised that had lost nothing (`RaisedAreTheLargest`).
* Price: `RatesKept`, that no conversion changes a rate that is in the table. `DecimalShifts` says
  what the digit loop of getDouble computes for nanos of up to nine digits, with that the
  recursive function it is written as exists: the digits moved up until the first of them
  is the first decimal. Unless the first decimal is zero this is the amount (`DoubleIsExact`), and what is cut and
  rounded is within the slack of the result (`ConvertedIsTrue`, `ProductGrows`); `PricesAreTrueHolds`, for any
  catalogue, rates and `Precision`. That a double stays within `Precision` is argued in section 2, not proved.

`PageTypeCorrect` joins the types of the parts.

### What is only model-checked

* Everything that must happen eventually (`EveryOrderEnds`, `RequestsEnd`,
  `WaitingEnds`, `EveryMessageSettles`, `RecordsArePassed`, `FlagsSettle`, `CartCatchesUp`):
  liveness under fairness and ENABLED are outside the prover's reach.
* The generated code (`MessagesAreRead`, `LargeAmountsAreRefused`, `AppAndWebAgree`, and with them
  `WireAssumption` of the real code): messages contain messages, the model is recursive, and what it
  computes for every message would need an induction that the prover cannot do.

All other properties of the passing runs are theorems.

## 6. Does a property notice a mistake?

For each property of each passing run, `PROJECT.json` names a definition and a wrong
version of it ("mutants"): with the wrong version in its place TLC finds the property
violated under the same configuration.

## 7. What is left out

Places that can go wrong and that no property watches:

* A negative quantity becomes a huge uint32 in MultiplySlow, a long loop
  (main.go:329). int32 and int64 overflow of quantities and units: they are natural
  numbers here. The form's quantity is a text until the generated writer's int32
  takes it.
* ValkeyCartStore.cs:124 logs "Disposing the object" and disposes of nothing; the
  old multiplexers go on. The model of the connection does not count them.
* The goroutines of kafkaQueueProblems share one ProducerMessage, whose fields
  sarama writes (main.go:688).
* A nil producer after a failed start of the Kafka client (main.go:239): it panics
  at the first order, a `Crash` as any other.
* Concurrent inserts into an `std::unordered_map` (server.cpp:195): undefined
  behaviour on the whole table.
* CPULoad.java:34: a singleton and its running flag without synchronisation. It is
  a load generator for demonstrations; whatever it does, no answer depends on it.
* quote.rs:85 cuts a quote to cents instead of rounding; costs are inputs here.
* The mobile app's settings: a get that returns after the user has typed overwrites the
  text (Setting.tsx:21); setSessionValue spreads a promise instead of the session,
  so that the other values of the session are lost.

Not modelled:

* The start of the process, health checks, telemetry, wording, logging.
* Partitions, rebalances among several consumers, and the brokers: one partition,
  one consumer per group.
* Details of page mounts; the other fields of a flag.
* In the frontend: styled components, layout, names, pictures, the tracers; the
  garbage collection of unobserved queries; several tabs.
* Of the mobile app: settings, session storage, navigation.
* The queries of product-catalog and product-reviews, the prompts of the assistant,
  llm, proxies, load generator and deployment: read-only, random or configuration.

## 8. Plan

Done: everything in section 2, in the order CartStore, Checkout with its refinement,
OrderTotal, OrderPublish, Accounting, Currency, FlagStorage, FraudDetection,
CartConnection; then the side of the user: Storefront with its proofs, ProtoCodec with
the two protos, ProductPage, OrderPage, ProductReviews; then the proofs of FlagStorage and
of the page, SharedCart and OrderPipeline; at last CartCalls between Checkout and
Storefront, with the proofs on both sides.

Worth adding, in this order:

1. `OrderPublish` between the saga and the topic of `OrderPipeline`, to state which orders that
   were answered with success may be missing in the books.
2. Two tabs in `Storefront`.
3. The arithmetic of quote (routes.php 15-49) and of the cents in shipping
   (quote.rs 82-87).
