------------------------------ MODULE ProductReviews ------------------------------
(***************************************************************************)
(* The summary above the reviews of a product: how many of them gave one   *)
(* to five stars, as whole percentages that are made to add up.  A score   *)
(* is in tenths of a star, percentages before rounding are the fractions   *)
(* 100 * count / reviews, and what a JavaScript number does to a fraction  *)
(* is the choice whether a whole one comes out a hair below.               *)
(***************************************************************************)
EXTENDS Integers, Sequences, FiniteSets

CONSTANTS
    MaxReviews,  \* bound: reviews of a product
    Scores       \* bound: the scores, in tenths of a star

ASSUME ReviewAssumption == Scores \subseteq Int /\ MaxReviews \in Nat

VARIABLES
    productReviews,  \* their scores, in the order of the answer
    percents         \* the bars that are shown, <<>> for none

reviewVars == <<productReviews, percents>>

Stars == 1..5

Total(counts) == counts[1] + counts[2] + counts[3] + counts[4] + counts[5]

\* clamp(Math.round(Number(r.score)), 1, 5), with halves rounded up.
StarsOf(score) ==
    LET s == (score + 5) \div 10
    IN IF s < 1 THEN 1 ELSE IF s > 5 THEN 5 ELSE s

distribution(reviews) ==
    [s \in Stars |-> Cardinality({i \in DOMAIN reviews : StarsOf(reviews[i]) = s})]

\* Fault for a mutant of Floors: the percentages are rounded up.
FloorsCeiled(counts, off, reviews) ==
    [s \in Stars |-> (100 * counts[s]) \div reviews + IF s \in off THEN 0 ELSE 1]

\* Math.floor of each percentage; those in "off" have come out a hair below
\* the whole number that they are.
Floors(counts, off, reviews) ==
    [s \in Stars |-> (100 * counts[s]) \div reviews - IF s \in off THEN 1 ELSE 0]

\* The percentages that are whole, when there are that many reviews.
Whole(counts, reviews) ==
    {s \in Stars : counts[s] > 0 /\ (100 * counts[s]) % reviews = 0}

\* What is missing goes to the percentages that lost the most; which ones of
\* those that lost the same is left open.
normalizedPercents(counts, off, reviews) ==
    LET floored   == Floors(counts, off, reviews)
        remainder == 100 - Total(floored)
        lost      == [s \in Stars |-> 100 * counts[s] - floored[s] * reviews]
    IN {[s \in Stars |-> IF s \in raised THEN floored[s] + 1 ELSE floored[s]] :
           raised \in {r \in SUBSET Stars :
              /\ Cardinality(r) = IF remainder > 0 THEN remainder ELSE 0
              /\ \A s \in r, t \in Stars \ r : lost[s] >= lost[t]}}

\* A list of reviews with one more: all that a product may have are reached.
ReviewListed(score) ==
    /\ Len(productReviews) < MaxReviews
    /\ productReviews' = Append(productReviews, score)
    /\ LET counts == distribution(productReviews')
           N == Len(productReviews')
       IN \E off \in SUBSET Whole(counts, N) :
             percents' \in normalizedPercents(counts, off, N)

(***************************************************************************)
(* Every review counts for one number of stars, and the five bars under    *)
(* the average add up to a hundred percent, each less than one percent off *)
(* its true share, whatever was lost in rounding.                          *)
(***************************************************************************)
PercentsAddUp ==
    percents # <<>> =>
        LET counts == distribution(productReviews)
            N == Len(productReviews)
        IN /\ Total(percents) = 100
           /\ \A s \in Stars :
                 LET miss == percents[s] * N - 100 * counts[s]
                 IN -N < miss /\ miss < N
================================================================================
