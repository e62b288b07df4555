--------------------------------- MODULE Currency ---------------------------------
(***************************************************************************)
(* The currency service.  Its table of rates is an unordered_map that      *)
(* Convert reads with operator[], so a code that is not in the table is    *)
(* put there with rate zero.  An amount is read into a double digit by     *)
(* digit, divided by the one rate, multiplied by the other and cut to      *)
(* nanos again.  Doubles are whole numbers of nanos here; what rounding    *)
(* can do to them is the choice in Cut.                                    *)
(***************************************************************************)
EXTENDS Money

CONSTANTS
    Table,     \* the rates the service starts with: code -> rate
    Unlisted,  \* codes that clients ask for and the table does not have
    Precision, \* what a double rounds is less than one part in this, 10^15
    Sent       \* bound: the units and nanos that clients send, small enough
               \* for what they are converted into to fit a long

PowersOfTen ==
    {1, 10, 100, 1000, 10000, 100000, 1000000, 10000000, 100000000, 1000000000}

Nanos == 0..(NanosMod - 1)

ASSUME CurrencyAssumption ==
    /\ NanosMod \in PowersOfTen \ {1}
    /\ \A code \in DOMAIN Table : Table[code] \in Nat \ {0}
    /\ Precision \in Nat \ {0}
    /\ DOMAIN Table \cap Unlisted = {}
    /\ Sent \subseteq [units : Nat, nanos : Nanos]

VARIABLES
    currency_conversion,  \* the table: code -> rate
    reply                 \* the last conversion: what was asked and answered

currencyVars == <<currency_conversion, reply>>

Codes == DOMAIN Table \cup Unlisted

\* Fault for a mutant of Decimal: the digits are taken for hundredths.
DecimalShifted ==
    LET loop[v \in Nanos \X Nanos] ==
            IF v[1] = 0 THEN v[2]
            ELSE loop[<<v[1] \div 10, v[2] \div 10 + (v[1] % 10) * (NanosMod \div 100)>>]
    IN [nanos \in Nanos |-> loop[<<nanos, 0>>]]

\* The loop of getDouble: it takes the last digit of nanos and shifts what it
\* has, a decimal, by one place, for as long as nanos is not zero.
Round(v) == <<v[1] \div 10, v[2] \div 10 + (v[1] % 10) * (NanosMod \div 10)>>

Decimal ==
    LET loop[v \in Nanos \X Nanos] == IF v[1] = 0 THEN v[2] ELSE loop[Round(v)]
    IN [nanos \in Nanos |-> loop[<<nanos, 0>>]]

getDouble(m) == m.units * NanosMod + Decimal[m.nanos]

(***************************************************************************)
(* The rates, the digits, the sum, the quotient and the product are each   *)
(* rounded to one part in 2^53, together by less than nine such parts.     *)
(* That is less than one nano in 10^15 of them, and getUnitsAndNanos cuts  *)
(* what comes out: value is what it would cut the exact result to.         *)
(***************************************************************************)
Slack(value) == 1 + value \div Precision

Cut(value) ==
    IF value = 0 THEN {0}
    ELSE {v \in (value - Slack(value))..(value + Slack(value)) : v >= 0}

getUnitsAndNanos(code, value) ==
    Amount(code, value \div NanosMod, value % NanosMod)

\* operator[]: the value of a missing key is zero, and the key stays.
Touch(rates, code) ==
    [c \in DOMAIN rates \cup {code} |-> IF c \in DOMAIN rates THEN rates[c] ELSE 0]

NoReply == [status |-> "none"]

(***************************************************************************)
(* A zero rate divides by zero; turning the result into a long is          *)
(* undefined, and the client is told OK all the same.                      *)
(***************************************************************************)
Convert(sent, from_code, to_code) ==
    LET from  == Amount(from_code, sent.units, sent.nanos)
        rates == Touch(Touch(currency_conversion, from.cur), to_code)
        rate  == rates[from.cur]
    IN /\ currency_conversion' = rates
       /\ \/ /\ rate = 0
             /\ reply' = [status |-> "undefined", from |-> from, to |-> to_code]
          \/ /\ rate # 0
             /\ \E value \in Cut((getDouble(from) * rates[to_code]) \div rate) :
                   reply' = [status |-> "ok", from |-> from, to |-> to_code,
                             amount |-> getUnitsAndNanos(to_code, value)]

CurrencyInit ==
    /\ currency_conversion = Table
    /\ reply = NoReply

CurrencyNext ==
    \E sent \in Sent, from_code, to_code \in Codes :
        Convert(sent, from_code, to_code)

CurrencySpec == CurrencyInit /\ [][CurrencyNext]_currencyVars

--------------------------------------------------------------------------------

Listed(r) == {r.from.cur, r.to} \subseteq DOMAIN Table

\* The answer is worth what was asked, but for the rounding of the doubles
\* and the part of a nano that is cut off.
True(r) ==
    /\ r.status = "ok"
    /\ LET rate == Table[r.from.cur]
           due  == Worth(r.from) * Table[r.to]
           got  == Worth(r.amount) * rate
           off  == Slack(due \div rate) * rate
       IN got =< due + off /\ due < got + off + rate

\* 57.08, as opposed to 57.80 or 57.
LeadingZero(m) == 0 < m.nanos /\ 10 * m.nanos < NanosMod

(***************************************************************************)
(* Between two listed currencies every amount is converted at the rates of *)
(* the table, nanos being billionths of a unit, whatever was asked before. *)
(***************************************************************************)
NanosAreBillionths ==
    \/ reply.status = "none"
    \/ ~Listed(reply)
    \/ True(reply)
================================================================================
