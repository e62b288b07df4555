-------------------------------- MODULE AppProtos --------------------------------
(***************************************************************************)
(* The messages and services of the mobile app's protos/demo.ts, which an  *)
(* older version of the generator wrote from the same demo.proto without   *)
(* the product reviews.  The app talks JSON to the frontend and uses the   *)
(* types of this file; what the two files promise each other is checked in *)
(* ProtoChecks.                                                            *)
(***************************************************************************)
EXTENDS ProtoCodec

Rpc(name, request, response) ==
    [rpc |-> name, request |-> request, response |-> response]

CartItem == <<Text(1, "productId"), Int32(2, "quantity")>>
AddItemRequest == <<Text(1, "userId"), One(2, "item", CartItem)>>
EmptyCartRequest == <<Text(1, "userId")>>
GetCartRequest == <<Text(1, "userId")>>
Cart == <<Text(1, "userId"), Many(2, "items", CartItem)>>
Empty == <<>>
ListRecommendationsRequest == <<Text(1, "userId"), Texts(2, "productIds")>>
ListRecommendationsResponse == <<Texts(1, "productIds")>>
Money == <<Text(1, "currencyCode"), Int64(2, "units"), Int32(3, "nanos")>>
Product == <<
    Text(1, "id"), Text(2, "name"), Text(3, "description"),
    Text(4, "picture"), One(5, "priceUsd", Money), Texts(6, "categories")>>
ListProductsResponse == <<Many(1, "products", Product)>>
GetProductRequest == <<Text(1, "id")>>
SearchProductsRequest == <<Text(1, "query")>>
SearchProductsResponse == <<Many(1, "results", Product)>>
Address == <<
    Text(1, "streetAddress"), Text(2, "city"), Text(3, "state"),
    Text(4, "country"), Text(5, "zipCode")>>
GetQuoteRequest == <<One(1, "address", Address), Many(2, "items", CartItem)>>
GetQuoteResponse == <<One(1, "costUsd", Money)>>
ShipOrderRequest == <<One(1, "address", Address), Many(2, "items", CartItem)>>
ShipOrderResponse == <<Text(1, "trackingId")>>
GetSupportedCurrenciesResponse == <<Texts(1, "currencyCodes")>>
CurrencyConversionRequest == <<One(1, "from", Money), Text(2, "toCode")>>
\* Fault for a mutant of CreditCardInfo: month and year have changed places.
CreditCardInfoSwapped == <<
    Text(1, "creditCardNumber"), Int32(2, "creditCardCvv"),
    Int32(4, "creditCardExpirationYear"),
    Int32(3, "creditCardExpirationMonth")>>

CreditCardInfo == <<
    Text(1, "creditCardNumber"), Int32(2, "creditCardCvv"),
    Int32(3, "creditCardExpirationYear"),
    Int32(4, "creditCardExpirationMonth")>>
ChargeRequest == <<
    One(1, "amount", Money), One(2, "creditCard", CreditCardInfo)>>
ChargeResponse == <<Text(1, "transactionId")>>
OrderItem == <<One(1, "item", CartItem), One(2, "cost", Money)>>
OrderResult == <<
    Text(1, "orderId"), Text(2, "shippingTrackingId"),
    One(3, "shippingCost", Money), One(4, "shippingAddress", Address),
    Many(5, "items", OrderItem)>>
SendOrderConfirmationRequest == <<
    Text(1, "email"), One(2, "order", OrderResult)>>
PlaceOrderRequest == <<
    Text(1, "userId"), Text(2, "userCurrency"), One(3, "address", Address),
    Text(5, "email"), One(6, "creditCard", CreditCardInfo)>>
PlaceOrderResponse == <<One(1, "order", OrderResult)>>
AdRequest == <<Texts(1, "contextKeys")>>
Ad == <<Text(1, "redirectUrl"), Text(2, "text")>>
AdResponse == <<Many(1, "ads", Ad)>>
Flag == <<Text(1, "name"), Text(2, "description"), Bool(3, "enabled")>>
GetFlagRequest == <<Text(1, "name")>>
GetFlagResponse == <<One(1, "flag", Flag)>>
CreateFlagRequest == <<
    Text(1, "name"), Text(2, "description"), Bool(3, "enabled")>>
CreateFlagResponse == <<One(1, "flag", Flag)>>
UpdateFlagRequest == <<Text(1, "name"), Bool(2, "enabled")>>
UpdateFlagResponse == <<>>
ListFlagsRequest == <<>>
ListFlagsResponse == <<Many(1, "flag", Flag)>>
DeleteFlagRequest == <<Text(1, "name")>>
DeleteFlagResponse == <<>>

CartServiceService == [
    addItem |-> Rpc("AddItem", AddItemRequest, Empty),
    getCart |-> Rpc("GetCart", GetCartRequest, Cart),
    emptyCart |-> Rpc("EmptyCart", EmptyCartRequest, Empty)]
RecommendationServiceService == [
    listRecommendations |->
        Rpc("ListRecommendations", ListRecommendationsRequest, ListRecommendationsResponse)]
ProductCatalogServiceService == [
    listProducts |-> Rpc("ListProducts", Empty, ListProductsResponse),
    getProduct |-> Rpc("GetProduct", GetProductRequest, Product),
    searchProducts |->
        Rpc("SearchProducts", SearchProductsRequest, SearchProductsResponse)]
ShippingServiceService == [
    getQuote |-> Rpc("GetQuote", GetQuoteRequest, GetQuoteResponse),
    shipOrder |-> Rpc("ShipOrder", ShipOrderRequest, ShipOrderResponse)]
CurrencyServiceService == [
    getSupportedCurrencies |->
        Rpc("GetSupportedCurrencies", Empty, GetSupportedCurrenciesResponse),
    convert |-> Rpc("Convert", CurrencyConversionRequest, Money)]
PaymentServiceService == [
    charge |-> Rpc("Charge", ChargeRequest, ChargeResponse)]
EmailServiceService == [
    sendOrderConfirmation |->
        Rpc("SendOrderConfirmation", SendOrderConfirmationRequest, Empty)]
CheckoutServiceService == [
    placeOrder |-> Rpc("PlaceOrder", PlaceOrderRequest, PlaceOrderResponse)]
AdServiceService == [getAds |-> Rpc("GetAds", AdRequest, AdResponse)]
FeatureFlagServiceService == [
    getFlag |-> Rpc("GetFlag", GetFlagRequest, GetFlagResponse),
    createFlag |-> Rpc("CreateFlag", CreateFlagRequest, CreateFlagResponse),
    updateFlag |-> Rpc("UpdateFlag", UpdateFlagRequest, UpdateFlagResponse),
    listFlags |-> Rpc("ListFlags", ListFlagsRequest, ListFlagsResponse),
    deleteFlag |-> Rpc("DeleteFlag", DeleteFlagRequest, DeleteFlagResponse)]

\* The app's fromJSON knows no other spelling.
fromJSON(schema, object) == FromObject(schema, object, NoSpelling)
================================================================================
