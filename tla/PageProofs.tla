-------------------------------- MODULE PageProofs --------------------------------
(***************************************************************************)
(* The product page, proved for any catalogue, categories, ads, carts and  *)
(* reviews, any number of questions, any rates, and nanos of up to nine    *)
(* digits.  The parts of the page read and write variables of their own,   *)
(* so each has an invariant of its own, and a step of one leaves those of  *)
(* the others as they were.  The generated code is the constant Sends, of  *)
(* which only WireAssumption is used.                                      *)
(***************************************************************************)
EXTENDS ProductPage, FiniteSetTheorems, TLAPS

(* Lists as text *)

\* A joined list has its elements at the odd places, and commas between.
LEMMA JoinedText ==
  ASSUME NEW S, Comma \notin S, NEW ids \in Seq(S), ids # <<>>
  PROVE  LET text == Joined(ids)
         IN /\ Len(ids) \in Nat \ {0}
            /\ text \in Seq(S \cup {Comma}) /\ Len(text) = 2 * Len(ids) - 1
            /\ \A k \in 1..(Len(ids) - 1) : text[2 * k] = Comma
            /\ \A k \in 1..Len(ids) : text[2 * k - 1] = ids[k]
<1>. DEFINE n == Len(ids)
            text == Joined(ids)
<1>1. n \in Nat \ {0}
  OBVIOUS
<1>2. \A i \in 1..(2 * n - 1) :
         /\ i % 2 = 1 => (i + 1) \div 2 \in 1..n
         /\ i % 2 # 1 => i \in {2 * k : k \in 1..(n - 1)}
  <2>. SUFFICES ASSUME NEW i \in 1..(2 * n - 1)
       PROVE  /\ i % 2 = 1 => (i + 1) \div 2 \in 1..n
              /\ i % 2 # 1 => i = 2 * (i \div 2) /\ i \div 2 \in 1..(n - 1)
    OBVIOUS
  <2>. QED  BY <1>1
<1>3. text \in [1..(2 * n - 1) -> S \cup {Comma}]
  BY <1>1, <1>2 DEF Joined
<1>4. text \in Seq(S \cup {Comma}) /\ Len(text) = 2 * n - 1
  BY <1>1, <1>3
<1>5. ASSUME NEW k \in 1..(n - 1) PROVE text[2 * k] = Comma
  <2>1. 2 * k \in 1..(2 * n - 1) /\ (2 * k) % 2 = 0
    BY <1>1
  <2>. QED  BY <2>1 DEF Joined
<1>6. ASSUME NEW k \in 1..n PROVE text[2 * k - 1] = ids[k]
  <2>1. 2 * k - 1 \in 1..(2 * n - 1) /\ (2 * k - 1) % 2 = 1 /\ ((2 * k - 1) + 1) \div 2 = k
    BY <1>1
  <2>. QED  BY <2>1 DEF Joined
<1>. QED
  BY <1>1, <1>4, <1>5, <1>6

\* A piece of one element.
LEMMA OneElement ==
  ASSUME NEW S, NEW s \in Seq(S), NEW i \in 1..Len(s)
  PROVE  SubSeq(s, i, i) = <<s[i]>>
<1>1. SubSeq(s, i, i) = [k \in 1..1 |-> s[k + i - 1]]
  OBVIOUS
<1>. QED  BY <1>1

\* A joined list is split into its elements.
LEMMA SplitJoined ==
  ASSUME NEW S, Comma \notin S, NEW ids \in Seq(S), ids # <<>>
  PROVE  Split(Joined(ids)) = {<<ids[k]>> : k \in 1..Len(ids)}
<1>. DEFINE n == Len(ids)
            text == Joined(ids)
            commas == {0, Len(text) + 1} \cup {i \in 1..Len(text) : text[i] = Comma}
            After(i) == CHOOSE j \in commas : j > i /\ \A k \in commas : k > i => k >= j
<1>1. /\ n \in Nat \ {0}
      /\ text \in Seq(S \cup {Comma}) /\ Len(text) = 2 * n - 1
      /\ \A k \in 1..(n - 1) : text[2 * k] = Comma
      /\ \A k \in 1..n : text[2 * k - 1] = ids[k]
  BY JoinedText
<1>0. \A k \in 1..n : ids[k] # Comma
  OBVIOUS
<1>2. Split(text) = {SubSeq(text, i + 1, After(i) - 1) : i \in commas \ {Len(text) + 1}}
  BY DEF Split
<1>. HIDE DEF text
<1>3. ASSUME NEW i \in Int PROVE i \in commas <=> \E k \in 0..n : i = 2 * k
  <2>1. i \div 2 \in Int /\ (i = 2 * (i \div 2) \/ i = 2 * ((i \div 2) + 1) - 1)
    OBVIOUS
  <2>. DEFINE h == i \div 2
  <2>. HIDE DEF h
  <2>2. h \in Int /\ (i = 2 * h \/ i = 2 * (h + 1) - 1)
    BY <2>1 DEF h
  <2>3. CASE i = 2 * h
    <3>1. \A k \in 0..n : i = 2 * k <=> k = h
      BY <2>2, <2>3
    <3>2. h \in 0..n => h = 0 \/ h = n \/ h \in 1..(n - 1)
      BY <1>1, <2>2
    <3>3. h \in 0..n => i \in commas
      <4>1. h = n => i = Len(text) + 1
        BY <1>1, <2>3
      <4>2. h \in 1..(n - 1) => i \in 1..Len(text) /\ text[i] = Comma
        BY <1>1, <2>3
      <4>3. h = 0 => i = 0
        BY <2>3
      <4>. QED  BY <4>1, <4>2, <4>3, <3>2
    <3>4. i \in commas => h \in 0..n
      BY <1>1, <2>2, <2>3
    <3>. QED  BY <2>2, <3>1, <3>3, <3>4
  <2>4. CASE i = 2 * (h + 1) - 1
    <3>1. i \in 1..(2 * n - 1) => text[i] # Comma
      <4>1. i \in 1..(2 * n - 1) => h + 1 \in 1..n
        BY <1>1, <2>2, <2>4
      <4>. QED  BY <1>0, <1>1, <4>1, <2>4
    <3>2. i \notin commas
      BY <1>1, <3>1, <2>2, <2>4
    <3>. QED  BY <3>2, <2>2, <2>4
  <2>. QED  BY <2>2, <2>3, <2>4
<1>4. commas \subseteq Int
  BY <1>1
<1>. HIDE DEF commas
<1>5. ASSUME NEW k \in 0..(n - 1)
      PROVE  SubSeq(text, 2 * k + 1, After(2 * k) - 1) = <<ids[k + 1]>>
  <2>1. /\ 2 * k + 2 \in commas /\ 2 * k + 2 > 2 * k
        /\ \A j \in commas : j > 2 * k => j >= 2 * k + 2
    <3>1. 2 * k + 2 = 2 * (k + 1) /\ k + 1 \in 0..n /\ 2 * k + 2 \in Int
      BY <1>1
    <3>. QED  BY <1>3, <1>4, <3>1
  <2>2. \E a \in commas : /\ a = After(2 * k) /\ a > 2 * k
                          /\ \A j \in commas : j > 2 * k => j >= a
    BY <2>1
  <2>. HIDE DEF After
  <2>3. After(2 * k) = 2 * k + 2
    <3>1. PICK a \in commas : /\ a = After(2 * k) /\ a > 2 * k
                             /\ \A j \in commas : j > 2 * k => j >= a
      BY <2>2
    <3>2. a \in Int /\ a >= 2 * k + 2 /\ 2 * k + 2 >= a
      BY <2>1, <3>1, <1>4
    <3>3. 2 * k + 2 \in Int
      BY <1>1
    <3>4. a = 2 * k + 2
      BY <3>2, <3>3
    <3>. QED  BY <3>1, <3>4
  <2>4. SubSeq(text, 2 * k + 1, 2 * k + 1) = <<text[2 * k + 1]>>
    <3>1. 2 * k + 1 \in 1..Len(text)
      BY <1>1
    <3>. QED  BY <1>1, <3>1, OneElement
  <2>5. text[2 * k + 1] = ids[k + 1]
    <3>1. k + 1 \in 1..n /\ 2 * (k + 1) - 1 = 2 * k + 1
      BY <1>1
    <3>. QED  BY <1>1, <3>1
  <2>. QED  BY <2>3, <2>4, <2>5
<1>. HIDE DEF After
<1>6. commas \ {Len(text) + 1} = {2 * k : k \in 0..(n - 1)}
  <2>1. Len(text) + 1 = 2 * n
    BY <1>1
  <2>2. \A k \in 0..n : 2 * k # 2 * n <=> k \in 0..(n - 1)
    <3>. SUFFICES ASSUME NEW k \in 0..n PROVE 2 * k # 2 * n <=> k \in 0..(n - 1)
      OBVIOUS
    <3>1. k \in Int /\ n \in Int /\ 0 =< k /\ k =< n
      BY <1>1
    <3>. HIDE DEF n
    <3>. QED  BY <3>1
  <2>3. \A k \in 0..(n - 1) : 2 * k \in commas /\ 2 * k # 2 * n
    <3>. SUFFICES ASSUME NEW k \in 0..(n - 1) PROVE 2 * k \in commas /\ 2 * k # 2 * n
      OBVIOUS
    <3>1. k \in 0..n /\ 2 * k \in Int
      BY <1>1
    <3>. QED  BY <1>3, <2>2, <3>1
  <2>4. ASSUME NEW i
        PROVE  i \in commas \ {Len(text) + 1} <=> i \in {2 * k : k \in 0..(n - 1)}
    <3>1. i \in commas => i \in Int
      BY <1>4
    <3>2. i \in commas => \E k \in 0..n : i = 2 * k
      BY <1>3, <3>1
    <3>3. i \in commas /\ i # 2 * n => \E k \in 0..(n - 1) : i = 2 * k
      BY <3>2, <2>2
    <3>. QED  BY <2>1, <2>3, <3>3
  <2>. QED  BY <2>4
<1>7. Split(text) = {SubSeq(text, 2 * k + 1, After(2 * k) - 1) : k \in 0..(n - 1)}
  BY <1>2, <1>6
<1>8. Split(text) = {<<ids[k + 1]>> : k \in 0..(n - 1)}
  BY <1>5, <1>7
<1>. QED
  <2>1. \A k \in 1..n : k - 1 \in 0..(n - 1) /\ (k - 1) + 1 = k
    BY <1>1
  <2>2. \A k \in 0..(n - 1) : k + 1 \in 1..n
    BY <1>1
  <2>. QED  BY <1>8, <2>1, <2>2 DEF text

\* What the server and the route for ads read of a joined list.
LEMMA SplitValues ==
  ASSUME NEW S, Comma \notin S, NEW ids \in Seq(S), ids # <<>>
  PROVE  /\ {s[1] : s \in {t \in Split(Joined(ids)) : Len(t) = 1}} = Range(ids)
         /\ {t[1] : t \in Split(Joined(ids))} = Range(ids)
<1>1. Split(Joined(ids)) = {<<ids[k]>> : k \in 1..Len(ids)}
  BY SplitJoined
<1>2. Range(ids) = {ids[k] : k \in 1..Len(ids)}
  BY DEF Range
<1>3. \A k \in 1..Len(ids) : Len(<<ids[k]>>) = 1 /\ <<ids[k]>>[1] = ids[k]
  OBVIOUS
<1>. DEFINE pieces == {<<ids[k]>> : k \in 1..Len(ids)}
<1>4. {t \in pieces : Len(t) = 1} = pieces
  BY <1>3
<1>5. {t[1] : t \in pieces} = Range(ids)
  <2>1. {t[1] : t \in pieces} = {<<ids[k]>>[1] : k \in 1..Len(ids)}
    OBVIOUS
  <2>. QED  BY <2>1, <1>2, <1>3
<1>. QED  BY <1>1, <1>4, <1>5

\* SetToSeq lists a finite set.
LEMMA ListsSet ==
  ASSUME NEW S, IsFiniteSet(S)
  PROVE  /\ SetToSeq(S) \in Seq(S) /\ Range(SetToSeq(S)) = S
         /\ S # {} => SetToSeq(S) # <<>>
<1>. DEFINE n == Cardinality(S)
            f == SetToSeq(S)
<1>1. n \in Nat /\ \E g \in [1..n -> S] : IsInjective(g)
  BY FS_CardinalityType DEF ExistsBijection, Bijection, Injection
<1>2. f \in [1..n -> S] /\ IsInjective(f)
  BY <1>1 DEF SetToSeq
<1>. HIDE DEF f
<1>3. IsFiniteSet(1..n) /\ Cardinality(1..n) = n
  BY <1>1, FS_Interval
<1>4. f \in Surjection(1..n, S)
  BY <1>2, <1>3, FS_Injection DEF Injection
<1>5. Range(f) = S
  BY <1>2, <1>4 DEF Surjection, Range
<1>6. f \in Seq(S)
  BY <1>1, <1>2
<1>7. S # {} => f # <<>>
  BY <1>5, <1>6 DEF Range
<1>. QED  BY <1>5, <1>6, <1>7 DEF f

--------------------------------------------------------------------------------
(* The messages of the page *)

\* WireAssumption, message by message.
LEMMA MessagesSent ==
  /\ \A p \in Products : Sends("Money", MoneyOf(ListPrice(p))) = <<MoneyOf(ListPrice(p))>>
  /\ \A p \in Products, code \in Selectable :
        /\ Sends("CurrencyConversionRequest", Conversion(MoneyOf(ListPrice(p)), code))
              = <<Conversion(MoneyOf(ListPrice(p)), code)>>
        /\ \A m \in Converted(p, code) : Sends("Money", MoneyOf(m)) = <<MoneyOf(m)>>
  /\ \A p \in Products, list \in CartLists :
        Sends("ListRecommendationsRequest", RecommendationQuery(<<p>> \o list))
           = <<RecommendationQuery(<<p>> \o list)>>
  /\ \A p \in Products : \A keys \in KeysOf(p) :
        Sends("AdRequest", AdQuery(keys)) = <<AdQuery(keys)>>
<1>1. /\ \A m \in SentByPage["Money"] : Sends("Money", m) = <<m>>
      /\ \A m \in SentByPage["CurrencyConversionRequest"] :
            Sends("CurrencyConversionRequest", m) = <<m>>
      /\ \A m \in SentByPage["ListRecommendationsRequest"] :
            Sends("ListRecommendationsRequest", m) = <<m>>
      /\ \A m \in SentByPage["AdRequest"] : Sends("AdRequest", m) = <<m>>
  <2>1. {"Money", "CurrencyConversionRequest", "ListRecommendationsRequest", "AdRequest"}
           \subseteq DOMAIN SentByPage
    BY DEF SentByPage
  <2>. QED  BY <2>1, WireAssumption
<1>2. /\ \A p \in Products : MoneyOf(ListPrice(p)) \in SentByPage["Money"]
      /\ \A p \in Products, code \in Selectable :
            /\ Conversion(MoneyOf(ListPrice(p)), code) \in SentByPage["CurrencyConversionRequest"]
            /\ \A m \in Converted(p, code) : MoneyOf(m) \in SentByPage["Money"]
      /\ \A p \in Products, list \in CartLists :
            RecommendationQuery(<<p>> \o list) \in SentByPage["ListRecommendationsRequest"]
      /\ \A p \in Products : \A keys \in KeysOf(p) : AdQuery(keys) \in SentByPage["AdRequest"]
  BY DEF SentByPage
<1>. QED  BY <1>1, <1>2

\* What the service for recommendations takes for the list that was sent.
LEMMA ProductsAsked ==
  ASSUME NEW p \in Products, NEW list \in CartLists
  PROVE  LET ids == <<p>> \o list
         IN ids \in Seq(Products) /\ request_product_ids(ids) = Range(ids)
<1>. DEFINE ids == <<p>> \o list
<1>1. ids \in Seq(Products) /\ ids # <<>> /\ Comma \notin Products
  BY PageAssumption
<1>2. Sends("ListRecommendationsRequest", RecommendationQuery(ids))
         = <<RecommendationQuery(ids)>>
  BY MessagesSent
<1>3. request_product_ids(ids) =
         {s[1] : s \in {t \in Split(Joined(ids)) : Len(t) = 1}}
  BY <1>2 DEF request_product_ids, RecommendationQuery
<1>. HIDE DEF ids
<1>. QED  BY <1>1, <1>3, SplitValues DEF ids

\* The categories of a page arrive at the service for ads as they are.
LEMMA CategoriesAsked ==
  ASSUME NEW p \in Products, NEW keys \in KeysOf(p)
  PROVE  /\ keys \subseteq DOMAIN AdsOf
         /\ Range(Sends("AdRequest", AdQuery(keys))[1].contextKeys) = keys
<1>1. keys \subseteq DOMAIN AdsOf /\ keys # {}
  <2>1. PICK list \in {<<p>>} \cup (CartLists \ {<<>>}) :
           keys = UNION {Categories[q] : q \in Range(list)}
    BY DEF KeysOf
  <2>2. list \in Seq(Products) /\ list # <<>>
    <3>1. <<p>> \in Seq(Products) /\ <<p>> # <<>> /\ CartLists \subseteq Seq(Products)
      BY PageAssumption
    <3>. QED  BY <2>1, <3>1
  <2>3. Range(list) \subseteq Products /\ Range(list) # {}
    BY <2>2 DEF Range
  <2>. QED  BY <2>1, <2>3, PageAssumption
<1>2. IsFiniteSet(keys)
  BY <1>1, PageAssumption, FS_Subset
<1>3. contextKeys(SetToSeq(keys)) = keys
  <2>1. Comma \notin keys
    BY <1>1, PageAssumption
  <2>2. SetToSeq(keys) \in Seq(keys) /\ SetToSeq(keys) # <<>> /\ Range(SetToSeq(keys)) = keys
    BY <1>1, <1>2, ListsSet
  <2>. QED  BY <2>1, <2>2, SplitValues DEF contextKeys
<1>4. Sends("AdRequest", AdQuery(keys)) = <<AdQuery(keys)>>
  BY MessagesSent
<1>. QED  BY <1>1, <1>2, <1>3, <1>4, ListsSet DEF AdQuery

--------------------------------------------------------------------------------
(* The summary of the reviews *)

\* Five numbers of zero and one add up to how many are one.
LEMMA StarsCounted ==
  ASSUME NEW r \in SUBSET Stars
  PROVE  Cardinality(r) = Total([s \in Stars |-> IF s \in r THEN 1 ELSE 0])
<1>. DEFINE Upto(k) == {s \in r : s =< k}
<1>1. ASSUME NEW k \in Stars
      PROVE  /\ IsFiniteSet(Upto(k - 1)) /\ Cardinality(Upto(k - 1)) \in Nat
             /\ Cardinality(Upto(k)) =
                   Cardinality(Upto(k - 1)) + IF k \in r THEN 1 ELSE 0
  <2>1. IsFiniteSet(Stars) /\ Upto(k - 1) \in SUBSET Stars
    <3>1. 1 \in Int /\ 5 \in Int
      OBVIOUS
    <3>2. IsFiniteSet(1..5)
      BY <3>1, FS_Interval, Zenon
    <3>. QED  BY <3>2 DEF Stars
  <2>2. IsFiniteSet(Upto(k - 1)) /\ Cardinality(Upto(k - 1)) \in Nat
    BY <2>1, FS_Subset, FS_CardinalityType
  <2>3. Upto(k) = IF k \in r THEN Upto(k - 1) \cup {k} ELSE Upto(k - 1)
    <3>1. r \subseteq Int /\ k \in Int
      BY DEF Stars
    <3>2. \A s \in r : s =< k <=> s =< k - 1 \/ s = k
      BY <3>1
    <3>3. k =< k
      BY <3>1
    <3>4. Upto(k) = Upto(k - 1) \cup (r \cap {k})
      BY <3>2, <3>3
    <3>. HIDE DEF Upto
    <3>. QED  BY <3>4
  <2>4. k \notin Upto(k - 1)
    BY DEF Stars
  <2>. HIDE DEF Upto
  <2>5. Cardinality(Upto(k - 1) \cup {k}) = Cardinality(Upto(k - 1)) + 1
    BY <2>2, <2>4, FS_AddElement
  <2>. QED  BY <2>2, <2>3, <2>5
<1>2. Upto(0) = {} /\ Upto(5) = r
  <2>1. \A s \in r : ~(s =< 0) /\ s =< 5
    BY DEF Stars
  <2>. QED  BY <2>1
<1>3. Cardinality(Upto(0)) = 0
  BY <1>2, FS_EmptySet
<1>. HIDE DEF Upto
<1>4. /\ Cardinality(Upto(1)) = Cardinality(Upto(0)) + IF 1 \in r THEN 1 ELSE 0
      /\ Cardinality(Upto(2)) = Cardinality(Upto(1)) + IF 2 \in r THEN 1 ELSE 0
      /\ Cardinality(Upto(3)) = Cardinality(Upto(2)) + IF 3 \in r THEN 1 ELSE 0
      /\ Cardinality(Upto(4)) = Cardinality(Upto(3)) + IF 4 \in r THEN 1 ELSE 0
      /\ Cardinality(Upto(5)) = Cardinality(Upto(4)) + IF 5 \in r THEN 1 ELSE 0
  <2>1. {1, 2, 3, 4, 5} \subseteq Stars /\ 1 - 1 = 0 /\ 2 - 1 = 1 /\ 3 - 1 = 2 /\ 4 - 1 = 3 /\ 5 - 1 = 4
    BY DEF Stars
  <2>. QED  BY <1>1, <2>1
<1>. QED  BY <1>2, <1>3, <1>4 DEF Total, Stars

\* Every review is counted for one number of stars.
LEMMA ReviewsCounted ==
  ASSUME NEW reviews \in Seq(Scores)
  PROVE  /\ distribution(reviews) \in [Stars -> Nat]
         /\ Total(distribution(reviews)) = Len(reviews)
<1>. DEFINE N == Len(reviews)
            Of(s) == {i \in DOMAIN reviews : StarsOf(reviews[i]) = s}
            Upto(k) == {i \in DOMAIN reviews : StarsOf(reviews[i]) =< k}
<1>1. N \in Nat /\ DOMAIN reviews = 1..N
  OBVIOUS
<1>2. \A i \in 1..N : StarsOf(reviews[i]) \in Stars
  <2>1. ASSUME NEW score \in Int PROVE StarsOf(score) \in Stars
    BY DEF StarsOf, Stars
  <2>2. \A i \in 1..N : reviews[i] \in Int
    <3>1. \A i \in 1..N : reviews[i] \in Scores
      BY <1>1
    <3>. QED  BY <3>1, ReviewAssumption
  <2>. QED  BY <2>1, <2>2
<1>3. ASSUME NEW k \in Stars
      PROVE  /\ Cardinality(Of(k)) \in Nat
             /\ Cardinality(Upto(k)) = Cardinality(Upto(k - 1)) + Cardinality(Of(k))
  <2>1. IsFiniteSet(1..N)
    BY <1>1, FS_Interval
  <2>2. /\ IsFiniteSet(Of(k)) /\ Cardinality(Of(k)) \in Nat
        /\ IsFiniteSet(Upto(k - 1)) /\ Cardinality(Upto(k - 1)) \in Nat
    <3>1. Of(k) \in SUBSET (1..N) /\ Upto(k - 1) \in SUBSET (1..N)
      BY <1>1
    <3>. HIDE DEF Of, Upto
    <3>. QED  BY <2>1, <3>1, FS_Subset, FS_CardinalityType
  <2>3. Upto(k) = Upto(k - 1) \cup Of(k) /\ Upto(k - 1) \cap Of(k) = {}
    BY <1>1, <1>2 DEF Stars
  <2>. HIDE DEF Of, Upto
  <2>4. Cardinality(Upto(k - 1) \cap Of(k)) = 0
    BY <2>3, FS_EmptySet
  <2>5. Cardinality(Upto(k - 1) \cup Of(k)) =
           Cardinality(Upto(k - 1)) + Cardinality(Of(k)) - Cardinality(Upto(k - 1) \cap Of(k))
    BY <2>2, FS_Union
  <2>. QED  BY <2>2, <2>3, <2>4, <2>5
<1>4. Upto(0) = {} /\ Upto(5) = 1..N
  BY <1>1, <1>2 DEF Stars
<1>5. Cardinality(Upto(0)) = 0 /\ Cardinality(Upto(5)) = N
  <2>. HIDE DEF Upto
  <2>1. Cardinality(1..N) = N
    BY <1>1, FS_Interval
  <2>. QED  BY <1>4, <2>1, FS_EmptySet
<1>6. distribution(reviews) = [s \in Stars |-> Cardinality(Of(s))]
  BY DEF distribution
<1>. HIDE DEF Of, Upto
<1>7. /\ Cardinality(Upto(1)) = Cardinality(Upto(0)) + Cardinality(Of(1))
      /\ Cardinality(Upto(2)) = Cardinality(Upto(1)) + Cardinality(Of(2))
      /\ Cardinality(Upto(3)) = Cardinality(Upto(2)) + Cardinality(Of(3))
      /\ Cardinality(Upto(4)) = Cardinality(Upto(3)) + Cardinality(Of(4))
      /\ Cardinality(Upto(5)) = Cardinality(Upto(4)) + Cardinality(Of(5))
  <2>1. {1, 2, 3, 4, 5} \subseteq Stars /\ 1 - 1 = 0 /\ 2 - 1 = 1 /\ 3 - 1 = 2 /\ 4 - 1 = 3 /\ 5 - 1 = 4
    BY DEF Stars
  <2>. QED  BY <1>3, <2>1
<1>8. /\ Cardinality(Of(1)) \in Nat /\ Cardinality(Of(2)) \in Nat /\ Cardinality(Of(3)) \in Nat
      /\ Cardinality(Of(4)) \in Nat /\ Cardinality(Of(5)) \in Nat
  BY <1>3 DEF Stars
<1>. QED  BY <1>3, <1>5, <1>6, <1>7, <1>8 DEF Total, Stars

\* What the largest r of five losses are raised by is what all have lost
\* together: none that lost nothing is raised, and none that lost a whole
\* percent is left.
LEMMA RaisedAreTheLargest ==
  ASSUME NEW N \in Nat \ {0}, NEW lost \in [Stars -> 0..N], NEW r \in SUBSET Stars,
         Total(lost) = Total([s \in Stars |-> IF s \in r THEN N ELSE 0]),
         \A s \in r, t \in Stars \ r : lost[s] >= lost[t]
  PROVE  \A s \in Stars : IF s \in r THEN lost[s] > 0 ELSE lost[s] < N
<1>. DEFINE due == [s \in Stars |-> IF s \in r THEN N ELSE 0]
<1>1. /\ due \in [Stars -> 0..N]
      /\ \A s \in Stars : due[s] = IF s \in r THEN N ELSE 0
  OBVIOUS
<1>2. Total(lost) = Total(due)
  OBVIOUS
<1>0. \A s : s \in Stars <=> s \in {1, 2, 3, 4, 5}
  BY DEF Stars
<1>. HIDE DEF due
<1>3. ASSUME NEW s \in Stars, \A t \in Stars : lost[t] =< due[t] PROVE lost[s] = due[s]
  BY <1>1, <1>0, <1>2, <1>3 DEF Total
<1>4. ASSUME NEW s \in Stars, \A t \in Stars : lost[t] >= due[t] PROVE lost[s] = due[s]
  <2>1. \A t \in {1, 2, 3, 4, 5} : lost[t] \in Int /\ due[t] \in Int /\ due[t] =< lost[t]
    BY <1>0, <1>1, <1>4
  <2>2. \A t \in {1, 2, 3, 4, 5} : lost[t] = due[t]
    BY <1>2, <2>1 DEF Total
  <2>. QED  BY <1>0, <2>2
<1>5. ASSUME NEW s \in r, lost[s] = 0 PROVE FALSE
  <2>1. \A t \in Stars : lost[t] =< due[t]
    BY <1>1, <1>5
  <2>2. lost[s] = due[s]
    BY <1>3, <2>1
  <2>. QED  BY <1>1, <1>5, <2>2
<1>6. ASSUME NEW s \in Stars \ r, lost[s] >= N PROVE FALSE
  <2>1. \A t \in Stars : lost[t] >= due[t]
    <3>. SUFFICES ASSUME NEW t \in Stars PROVE lost[t] >= due[t]
      OBVIOUS
    <3>1. t \in r => lost[t] >= lost[s]
      OBVIOUS
    <3>. QED  BY <1>1, <1>6, <3>1
  <2>2. lost[s] = due[s]
    BY <1>4, <2>1
  <2>. QED  BY <1>1, <1>6, <2>2
<1>. QED  BY <1>5, <1>6

\* Dividing, and taking one less where nothing is left.
LEMMA QuotientLoses ==
  ASSUME NEW a \in Nat, NEW N \in Nat \ {0}, NEW less \in BOOLEAN, less => a > 0 /\ a % N = 0
  PROVE  LET f == a \div N - IF less THEN 1 ELSE 0
         IN f \in Nat /\ a - f * N \in 0..N
<1>. DEFINE q == a \div N
<1>1. q \in Nat /\ q * N =< a /\ a < q * N + N /\ (a % N = 0 => a = q * N)
  OBVIOUS
<1>. HIDE DEF q
<1>2. CASE ~less
  BY <1>1, <1>2 DEF q
<1>3. CASE less
  <2>1. q # 0
    BY <1>1, <1>3
  <2>2. q - 1 \in Nat /\ (q - 1) * N = q * N - N
    BY <1>1, <2>1
  <2>3. a - (q - 1) * N = N
    BY <1>1, <1>3, <2>2
  <2>. QED  BY <1>3, <2>2, <2>3 DEF q
<1>. QED  BY <1>2, <1>3

\* What the bars are, for any counts of the stars.
LEMMA BarsAddUp ==
  ASSUME NEW counts \in [Stars -> Nat], NEW N \in Nat \ {0}, Total(counts) = N,
         NEW off \in SUBSET Whole(counts, N),
         NEW bars \in normalizedPercents(counts, off, N)
  PROVE  /\ bars \in [Stars -> Nat] /\ Total(bars) = 100
         /\ \A s \in Stars : LET miss == bars[s] * N - 100 * counts[s]
                            IN -N < miss /\ miss < N
<1>. DEFINE f == Floors(counts, off, N)
            lost == [s \in Stars |-> 100 * counts[s] - f[s] * N]
            remainder == 100 - Total(f)
<1>1. f \in [Stars -> Nat] /\ lost \in [Stars -> 0..N]
  <2>. SUFFICES ASSUME NEW s \in Stars PROVE f[s] \in Nat /\ 100 * counts[s] - f[s] * N \in 0..N
    BY DEF Floors
  <2>1. f[s] = (100 * counts[s]) \div N - IF s \in off THEN 1 ELSE 0
    BY DEF Floors
  <2>2. 100 * counts[s] \in Nat /\ (s \in off) \in BOOLEAN
    OBVIOUS
  <2>3. s \in off => 100 * counts[s] > 0 /\ (100 * counts[s]) % N = 0
    BY DEF Whole
  <2>. DEFINE a == 100 * counts[s]
              less == s \in off
  <2>. HIDE DEF a, less
  <2>4. a \in Nat /\ less \in BOOLEAN /\ (less => a > 0 /\ a % N = 0)
    BY <2>2, <2>3 DEF a, less
  <2>5. LET g == a \div N - IF less THEN 1 ELSE 0
        IN g \in Nat /\ a - g * N \in 0..N
    BY <2>4, QuotientLoses
  <2>. QED  BY <2>1, <2>5 DEF a, less
<1>2. PICK r \in SUBSET Stars :
         /\ Cardinality(r) = IF remainder > 0 THEN remainder ELSE 0
         /\ \A s \in r, t \in Stars \ r : lost[s] >= lost[t]
         /\ bars = [s \in Stars |-> IF s \in r THEN f[s] + 1 ELSE f[s]]
  BY DEF normalizedPercents
<1>. DEFINE one == [s \in Stars |-> IF s \in r THEN 1 ELSE 0]
            due == [s \in Stars |-> IF s \in r THEN N ELSE 0]
<1>0. \A s : s \in Stars <=> s \in {1, 2, 3, 4, 5}
  BY DEF Stars
<1>3. Cardinality(r) = Total(one)
  BY StarsCounted
<1>4. \A s \in Stars : lost[s] = 100 * counts[s] - f[s] * N
  OBVIOUS
<1>5. \A s \in Stars : /\ one[s] = (IF s \in r THEN 1 ELSE 0) /\ due[s] = (IF s \in r THEN N ELSE 0)
                      /\ bars[s] = f[s] + one[s] /\ due[s] = one[s] * N
  BY <1>1, <1>2
<1>. HIDE DEF f, lost, one, due
<1>6. Total(f) \in Int /\ Total(lost) = remainder * N
  <2>1. \A s \in {1, 2, 3, 4, 5} : f[s] \in Int /\ counts[s] \in Int
    BY <1>0, <1>1
  <2>2. Total(lost) = 100 * N - (f[1] * N + f[2] * N + f[3] * N + f[4] * N + f[5] * N)
    <3>1. \A s \in {1, 2, 3, 4, 5} : f[s] * N \in Int
      BY <2>1
    <3>. DEFINE part(s) == f[s] * N
    <3>2. \A s \in {1, 2, 3, 4, 5} :
             part(s) \in Int /\ counts[s] \in Int /\ lost[s] = 100 * counts[s] - part(s)
      BY <1>0, <1>4, <2>1, <3>1
    <3>. HIDE DEF part
    <3>3. Total(lost) = 100 * N - (part(1) + part(2) + part(3) + part(4) + part(5))
      BY <3>2 DEF Total
    <3>. QED  BY <3>3 DEF part
  <2>3. f[1] * N + f[2] * N + f[3] * N + f[4] * N + f[5] * N = Total(f) * N
    BY <2>1 DEF Total
  <2>4. Total(f) \in Int
    BY <2>1 DEF Total
  <2>. QED  BY <2>2, <2>3, <2>4
<1>7. remainder >= 0
  <2>1. Total(lost) >= 0
    <3>1. \A s \in {1, 2, 3, 4, 5} : lost[s] \in Nat
      BY <1>0, <1>1
    <3>. QED  BY <3>1 DEF Total
  <2>2. ASSUME NEW k \in Int, k * N >= 0 PROVE k >= 0
    BY <2>2
  <2>. QED  BY <1>6, <2>1, <2>2
<1>8. Total(one) = remainder
  BY <1>2, <1>3, <1>6, <1>7
<1>9. Total(bars) = 100
  <2>1. \A s \in {1, 2, 3, 4, 5} : f[s] \in Int /\ one[s] \in Int /\ bars[s] = f[s] + one[s]
    BY <1>0, <1>1, <1>5
  <2>2. Total(bars) = Total(f) + Total(one)
    BY <2>1 DEF Total
  <2>. QED  BY <1>6, <1>8, <2>2
<1>10. Total(lost) = Total(due)
  <2>1. \A s \in {1, 2, 3, 4, 5} : one[s] \in Int /\ due[s] = one[s] * N
    BY <1>0, <1>5
  <2>2. Total(due) = Total(one) * N
    BY <2>1 DEF Total
  <2>. QED  BY <1>6, <1>8, <2>2
<1>11. \A s \in Stars : IF s \in r THEN lost[s] > 0 ELSE lost[s] < N
  BY <1>1, <1>2, <1>10, RaisedAreTheLargest DEF due
<1>12. ASSUME NEW s \in Stars
       PROVE  LET miss == bars[s] * N - 100 * counts[s]
              IN -N < miss /\ miss < N
  <2>1. f[s] \in Int /\ counts[s] \in Int /\ one[s] \in Int /\ lost[s] \in 0..N
    BY <1>1, <1>5
  <2>2. bars[s] * N - 100 * counts[s] = one[s] * N - lost[s]
    BY <1>4, <1>5, <2>1
  <2>. QED  BY <1>5, <1>11, <2>1, <2>2
<1>13. bars \in [Stars -> Nat]
  BY <1>1, <1>2
<1>. QED  BY <1>9, <1>12, <1>13

--------------------------------------------------------------------------------
(* Division *)

\* Quotients, by what is left.
LEMMA QuotientIs ==
  ASSUME NEW a \in Int, NEW b \in Nat \ {0}, NEW q \in Int, q * b =< a, a < q * b + b
  PROVE  a \div b = q
<1>. DEFINE k == a \div b
<1>1. k \in Int /\ k * b =< a /\ a < k * b + b
  OBVIOUS
<1>. HIDE DEF k
<1>2. k * b < q * b + b /\ q * b < k * b + b
  <2>1. k * b \in Int /\ q * b \in Int
    BY <1>1
  <2>. QED  BY <1>1, <2>1
<1>3. k * b < (q + 1) * b /\ q * b < (k + 1) * b
  BY <1>1, <1>2
<1>4. ASSUME NEW x \in Int, NEW y \in Int, x * b < y * b PROVE x < y
  BY <1>4
<1>5. k < q + 1 /\ q < k + 1
  BY <1>1, <1>3, <1>4
<1>. QED  BY <1>1, <1>5 DEF k

LEMMA QuotientOfSum ==
  ASSUME NEW a \in Nat, NEW b \in Nat \ {0}, NEW c \in Nat
  PROVE  (a + c * b) \div b = a \div b + c
<1>. DEFINE k == a \div b
<1>1. k \in Int /\ k * b =< a /\ a < k * b + b
  OBVIOUS
<1>. HIDE DEF k
<1>2. (k + c) * b = k * b + c * b /\ c * b \in Int /\ k * b \in Int
  BY <1>1
<1>3. (k + c) * b =< a + c * b /\ a + c * b < (k + c) * b + b
  BY <1>1, <1>2
<1>4. a + c * b \in Int /\ k + c \in Int
  BY <1>1, <1>2
<1>5. (a + c * b) \div b = k + c
  BY <1>3, <1>4, QuotientIs
<1>. QED  BY <1>5 DEF k

LEMMA QuotientOfQuotient ==
  ASSUME NEW d \in Nat, NEW b \in Nat \ {0}
  PROVE  (d \div 10) \div b = d \div (10 * b)
<1>. DEFINE k == (d \div 10) \div b
            e == d \div 10
<1>1. e \in Nat /\ 10 * e =< d /\ d < 10 * e + 10
  OBVIOUS
<1>2. k = e \div b
  OBVIOUS
<1>. HIDE DEF e, k
<1>3. k \in Int /\ k * b =< e /\ e < k * b + b
  BY <1>1, <1>2
<1>4. k * (10 * b) = 10 * (k * b) /\ k * b \in Int
  BY <1>3
<1>5. k * (10 * b) =< d /\ d < k * (10 * b) + 10 * b
  BY <1>1, <1>3, <1>4
<1>6. d \div (10 * b) = k
  BY <1>3, <1>5, QuotientIs
<1>. QED  BY <1>6 DEF k

--------------------------------------------------------------------------------
(* What the loop of getDouble computes *)

\* The power of ten that has one digit more.
Above(n) == CHOOSE p \in PowersOfTen : n < p /\ p =< 10 * n

LEMMA PowersAre ==
  ASSUME NEW p \in PowersOfTen
  PROVE  /\ p \in Nat \ {0}
         /\ p # 1 => p \div 10 \in PowersOfTen /\ p = 10 * (p \div 10)
  BY DEF PowersOfTen

LEMMA PowersDivide ==
  ASSUME NEW p \in PowersOfTen, p =< NanosMod
  PROVE  NanosMod \div p \in Nat /\ NanosMod = p * (NanosMod \div p)
  BY CurrencyAssumption DEF PowersOfTen

LEMMA AboveIs ==
  ASSUME NEW n \in Nanos \ {0}
  PROVE  /\ Above(n) \in PowersOfTen /\ n < Above(n) /\ Above(n) =< 10 * n /\ Above(n) =< NanosMod
         /\ \A p \in PowersOfTen : n < p /\ p =< 10 * n => p = Above(n)
<1>1. n \in Nat \ {0} /\ n < NanosMod /\ NanosMod \in PowersOfTen
  BY CurrencyAssumption, MoneyAssumption DEF Nanos
<1>2. \E p \in PowersOfTen : n < p /\ p =< 10 * n /\ p =< NanosMod
  BY <1>1 DEF PowersOfTen
<1>3. \A p, q \in PowersOfTen : n < p /\ p =< 10 * n /\ n < q /\ q =< 10 * n => p = q
  BY <1>1 DEF PowersOfTen
<1>. QED  BY <1>2, <1>3 DEF Above

\* The loop in one step: the rest d moves right by the digits of n, and these
\* go where it was.
Shifted ==
    [v \in Nanos \X Nanos |->
        IF v[1] = 0 THEN v[2] ELSE v[2] \div Above(v[1]) + v[1] * (NanosMod \div Above(v[1]))]

\* What the loop says of itself.
Body(l) == [v \in Nanos \X Nanos |-> IF v[1] = 0 THEN v[2] ELSE l[Round(v)]]

\* A round stays among numbers of nanos, and Shifted is what it keeps.
LEMMA RoundType ==
  ASSUME NEW n \in Nanos, NEW d \in Nanos
  PROVE  Round(<<n, d>>) \in Nanos \X Nanos
<1>. DEFINE m == NanosMod \div 10
            e == d \div 10
            t == n % 10
<1>1. m \in Nat /\ NanosMod = 10 * m
  BY PowersDivide, CurrencyAssumption DEF PowersOfTen
<1>2. e \in Nat /\ e < m /\ t \in 0..9 /\ n \div 10 \in Nanos
  BY <1>1 DEF Nanos
<1>3. t * m \in Nat /\ t * m =< 9 * m
  BY <1>1, <1>2
<1>. HIDE DEF m, e, t
<1>4. e + t * m \in Nanos
  BY <1>1, <1>2, <1>3 DEF Nanos
<1>. QED  BY <1>2, <1>4 DEF Round, m, e, t

LEMMA ShiftedStep ==
  ASSUME NEW n \in Nanos \ {0}, NEW d \in Nanos
  PROVE  Shifted[Round(<<n, d>>)] = Shifted[<<n, d>>]
<1>. DEFINE p == Above(n)
            R == NanosMod \div p
            h == n \div 10
            t == n % 10
            e == d \div 10
            m == NanosMod \div 10
<1>1. /\ p \in PowersOfTen /\ p \in Nat /\ n < p /\ p =< 10 * n /\ p # 1
      /\ p \div 10 \in PowersOfTen /\ p = 10 * (p \div 10)
  BY AboveIs, PowersAre, MoneyAssumption DEF Nanos
<1>2. R \in Nat /\ NanosMod = p * R
  BY <1>1, AboveIs, PowersDivide
<1>3. /\ n \in Nat \ {0} /\ d \in Nat /\ h \in Nanos /\ t \in 0..9 /\ n = 10 * h + t
      /\ e \in Nat
  BY MoneyAssumption DEF Nanos
<1>4. Round(<<n, d>>) = <<h, e + t * m>> /\ <<h, e + t * m>> \in Nanos \X Nanos
  BY RoundType DEF Round
<1>5. Shifted[<<n, d>>] = d \div p + n * R
  BY DEF Shifted
<1>6. CASE h = 0
  <2>1. 10 \in PowersOfTen /\ n < 10 /\ 10 =< 10 * n /\ n = t
    BY <1>3, <1>6 DEF PowersOfTen
  <2>2. p = 10
    BY <2>1, AboveIs
  <2>. QED  BY <1>4, <1>5, <1>6, <2>1, <2>2 DEF Shifted
<1>7. CASE h # 0
  <2>. DEFINE s == p \div 10
  <2>1. s \in PowersOfTen /\ s \in Nat \ {0} /\ p = 10 * s
    BY <1>1, PowersAre
  <2>2. s # 1
    <3>1. n < 10 => h = 0
      BY <1>3
    <3>. HIDE DEF s, p, h
    <3>. QED  BY <1>1, <1>7, <2>1, <3>1
  <2>3. s \div 10 \in Nat /\ s = 10 * (s \div 10)
    BY <2>1, <2>2, PowersAre
  <2>4. h < s /\ s =< 10 * h
    <3>. DEFINE u == s \div 10
    <3>1. u \in Nat /\ s = 10 * u
      BY <2>3
    <3>. HIDE DEF u, s, h, t, p
    <3>2. h \in Nat /\ h # 0
      BY <1>3, <1>7 DEF Nanos
    <3>. QED  BY <1>1, <1>3, <2>1, <3>1, <3>2
  <2>5. Above(h) = s
    BY <1>3, <1>7, <2>1, <2>4, AboveIs
  <2>. HIDE DEF s, h, t, e, p, R
  <2>6. Shifted[<<h, e + t * m>>] = (e + t * m) \div s + h * (NanosMod \div s)
    BY <1>4, <1>7, <2>5 DEF Shifted
  <2>7. NanosMod = (10 * R) * s /\ NanosMod = (R * s) * 10
    BY <1>2, <2>1
  <2>8. m = R * s /\ NanosMod \div s = 10 * R
    <3>1. R * s \in Int /\ 10 * R \in Int
      BY <1>2, <2>1
    <3>2. (R * s) * 10 + 10 > NanosMod /\ (10 * R) * s + s > NanosMod /\ NanosMod \in Int
      BY <2>1, <2>7, <3>1, MoneyAssumption
    <3>. QED  BY <2>1, <2>7, <3>1, <3>2, QuotientIs
  <2>9. (e + t * m) \div s = e \div s + t * R
    <3>1. t * m = (t * R) * s /\ t * R \in Nat
      BY <1>2, <1>3, <2>1, <2>8
    <3>2. (e + (t * R) * s) \div s = e \div s + t * R
      BY <1>3, <2>1, <3>1, QuotientOfSum
    <3>. QED  BY <3>1, <3>2
  <2>10. e \div s = d \div p
    BY <1>3, <2>1, QuotientOfQuotient DEF e
  <2>11. t * R + h * (10 * R) = n * R
    BY <1>2, <1>3
  <2>12. d \div p \in Int /\ t * R \in Int /\ h * (10 * R) \in Int
    BY <1>2, <1>3, <2>1 DEF Nanos
  <2>. QED  BY <1>4, <1>5, <2>6, <2>8, <2>9, <2>10, <2>11, <2>12
<1>. QED  BY <1>6, <1>7

\* The loop takes the digits for those right after the point.
LEMMA DecimalShifts ==
  ASSUME NEW n \in Nanos
  PROVE  Decimal[n] = IF n = 0 THEN 0 ELSE n * (NanosMod \div Above(n))
<1>. DEFINE l == CHOOSE f : f = Body(f)
<1>0. 0 \in Nanos
  BY MoneyAssumption DEF Nanos
<1>1. Shifted = Body(Shifted)
  <2>. SUFFICES ASSUME NEW v \in Nanos \X Nanos PROVE Shifted[v] = Body(Shifted)[v]
    BY DEF Shifted, Body
  <2>1. PICK k \in Nanos, d \in Nanos : v = <<k, d>>
    OBVIOUS
  <2>2. CASE k = 0
    BY <2>1, <2>2 DEF Shifted, Body
  <2>3. CASE k # 0
    BY <2>1, <2>3, ShiftedStep DEF Body
  <2>. QED  BY <2>2, <2>3
<1>2. l = Body(l)
  BY <1>1
<1>3. Decimal = [nanos \in Nanos |-> l[<<nanos, 0>>]]
  BY DEF Decimal, Body
<1>. HIDE DEF l
<1>4. /\ \A d \in Nanos : l[<<0, d>>] = d
      /\ \A k \in Nanos, d \in Nanos : k # 0 => l[<<k, d>>] = l[Round(<<k, d>>)]
  BY <1>0, <1>2 DEF Body
<1>. DEFINE Agree(p) == \A k \in Nanos, d \in Nanos : k < p => l[<<k, d>>] = Shifted[<<k, d>>]
<1>5. Agree(1)
  BY <1>0, <1>4 DEF Shifted, Nanos
<1>6. ASSUME NEW p \in Nat, Agree(p) PROVE Agree(10 * p)
  <2>. SUFFICES ASSUME NEW k \in Nanos, NEW d \in Nanos, k < 10 * p
                PROVE  l[<<k, d>>] = Shifted[<<k, d>>]
    OBVIOUS
  <2>1. CASE k = 0
    BY <1>4, <2>1 DEF Shifted
  <2>2. CASE k # 0
    <3>1. Round(<<k, d>>)[1] < p
      BY DEF Round, Nanos
    <3>2. PICK a \in Nanos, b \in Nanos : Round(<<k, d>>) = <<a, b>>
      BY RoundType
    <3>3. l[<<a, b>>] = Shifted[<<a, b>>]
      BY <1>6, <3>1, <3>2
    <3>. QED  BY <1>4, <2>2, <3>2, <3>3, ShiftedStep
  <2>. QED  BY <2>1, <2>2
<1>. HIDE DEF Agree
<1>7. /\ Agree(10) /\ Agree(100) /\ Agree(1000) /\ Agree(10000) /\ Agree(100000)
      /\ Agree(1000000) /\ Agree(10000000) /\ Agree(100000000) /\ Agree(1000000000)
  <2>1. Agree(10)        BY <1>6, <1>5
  <2>2. Agree(100)       BY <1>6, <2>1
  <2>3. Agree(1000)      BY <1>6, <2>2
  <2>4. Agree(10000)     BY <1>6, <2>3
  <2>5. Agree(100000)    BY <1>6, <2>4
  <2>6. Agree(1000000)   BY <1>6, <2>5
  <2>7. Agree(10000000)  BY <1>6, <2>6
  <2>8. Agree(100000000) BY <1>6, <2>7
  <2>9. Agree(1000000000) BY <1>6, <2>8
  <2>. QED  BY <2>1, <2>2, <2>3, <2>4, <2>5, <2>6, <2>7, <2>8, <2>9
<1>8. Agree(NanosMod)
  BY <1>5, <1>7, CurrencyAssumption DEF PowersOfTen
<1>9. l[<<n, 0>>] = Shifted[<<n, 0>>]
  BY <1>0, <1>8, MoneyAssumption DEF Agree, Nanos
<1>10. Decimal[n] = Shifted[<<n, 0>>]
  BY <1>3, <1>9
<1>11. n # 0 => /\ Above(n) \in Nat \ {0} /\ 0 \div Above(n) = 0
                /\ n * (NanosMod \div Above(n)) \in Int
  BY AboveIs, PowersAre, MoneyAssumption DEF Nanos
<1>. QED  BY <1>0, <1>10, <1>11 DEF Shifted

--------------------------------------------------------------------------------
(* The page *)

(***************************************************************************)
(* The invariant, by the parts of the page.  RowIsWellChosen is about a    *)
(* list that was sent and read, which has to be one of the page's lists    *)
(* (AskedWithCart); the assistant's observer follows the last question or  *)
(* none (LastAsked), which is more than that its answer is about this      *)
(* page; and prices come out right as long as other conversions leave the  *)
(* listed rates what they were (RatesKept).                                *)
(***************************************************************************)
AskStates == {"pending", "answered", "failed"}

LastAsked ==
    /\ asks \in Seq([product : Products, status : AskStates])
    /\ current # 0 => current = Len(asks) /\ asks[current].product = productId

AskInv == productId \in Products /\ current \in 0..Len(asks) /\ LastAsked

AskedWithCart ==
    row.phase # "none" =>
        /\ {"phase", "ids", "flag"} \subseteq DOMAIN row /\ row.flag \in BOOLEAN
        /\ \E p \in Products, list \in CartLists : row.ids = <<p>> \o list

\* The cache has the whole catalogue or nothing.
RowTyped ==
    /\ first_run \in BOOLEAN /\ cached_ids \in {{}, Products}
    /\ row.phase \in {"none", "asked", "listing", "shown"}

RowInv == RowTyped /\ AskedWithCart /\ RowIsWellChosen

AdTyped == ad.keys \subseteq DOMAIN AdsOf /\ ad.list \subseteq UNION Range(AdsOf)

AdInv == AdTyped /\ AdsAreOnTopic

ReviewsTyped ==
    /\ productReviews \in Seq(Scores) /\ Len(productReviews) =< MaxReviews
    /\ percents # <<>> => percents \in [Stars -> Nat]

ReviewInv == ReviewsTyped /\ PercentsAddUp

PriceTyped ==
    selectedCurrency \in Selectable \cup {NoText} /\ price.status \in {"none", "loaded"}

RatesKept ==
    /\ DOMAIN Table \subseteq DOMAIN currency_conversion
    /\ \A code \in DOMAIN Table : currency_conversion[code] = Table[code]

PriceInv == PriceTyped /\ RatesKept /\ PricesAreTrue

PageInv == AskInv /\ RowInv /\ AdInv /\ ReviewInv /\ PriceInv


--------------------------------------------------------------------------------
(* Prices *)

\* operator[] leaves the rates that are there alone.
LEMMA TouchKeeps ==
  ASSUME NEW rates, NEW code,
         DOMAIN Table \subseteq DOMAIN rates, \A c \in DOMAIN Table : rates[c] = Table[c]
  PROVE  /\ DOMAIN Table \subseteq DOMAIN Touch(rates, code)
         /\ \A c \in DOMAIN Table : Touch(rates, code)[c] = Table[c]
  BY DEF Touch

LEMMA ConvertKeepsRates ==
  ASSUME RatesKept, NEW sent, NEW from_code, NEW to_code, Convert(sent, from_code, to_code)
  PROVE  RatesKept'
<1>. DEFINE once == Touch(currency_conversion, from_code)
            twice == Touch(once, to_code)
<1>1. currency_conversion' = twice
  BY DEF Convert, Amount
<1>2. DOMAIN Table \subseteq DOMAIN once /\ \A c \in DOMAIN Table : once[c] = Table[c]
  BY TouchKeeps DEF RatesKept
<1>. HIDE DEF once
<1>3. DOMAIN Table \subseteq DOMAIN twice /\ \A c \in DOMAIN Table : twice[c] = Table[c]
  BY <1>2, TouchKeeps
<1>. QED  BY <1>1, <1>3 DEF RatesKept

LEMMA ListPriceType ==
  ASSUME NEW p \in Products
  PROVE  /\ ListPrice(p).cur = "USD" /\ ListPrice(p).units \in Nat /\ ListPrice(p).nanos \in Nanos
         /\ AmountOf(MoneyOf(ListPrice(p))) = ListPrice(p)
<1>1. Price[p] \in [units : Nat, nanos : Nanos]
  BY PageAssumption, CurrencyAssumption
<1>. QED  BY <1>1 DEF ListPrice, Amount, AmountOf, MoneyOf

\* Without a leading zero the double is the amount.
LEMMA DoubleIsExact ==
  ASSUME NEW m, m.units \in Nat, m.nanos \in Nanos, ~LeadingZero(m)
  PROVE  getDouble(m) = Worth(m) /\ Worth(m) \in Nat
<1>1. Decimal[m.nanos] = m.nanos
  <2>1. CASE m.nanos = 0
    BY <2>1, DecimalShifts
  <2>2. CASE m.nanos # 0
    <3>1. 10 * m.nanos >= NanosMod /\ m.nanos \in Nat /\ m.nanos < NanosMod /\ NanosMod \in PowersOfTen
      BY <2>2, MoneyAssumption, CurrencyAssumption DEF LeadingZero, Nanos
    <3>2. Above(m.nanos) = NanosMod
      BY <2>2, <3>1, AboveIs
    <3>3. NanosMod \div NanosMod = 1
      BY MoneyAssumption
    <3>. QED  BY <2>2, <3>1, <3>2, <3>3, DecimalShifts
  <2>. QED  BY <2>1, <2>2
<1>2. m.units * NanosMod \in Nat /\ m.nanos \in Nat
  BY MoneyAssumption DEF Nanos
<1>. QED  BY <1>1, <1>2 DEF getDouble, Worth

\* The double of any price is a natural number of nanos.
LEMMA DoubleType ==
  ASSUME NEW m, m.units \in Nat, m.nanos \in Nanos
  PROVE  getDouble(m) \in Nat
<1>1. Decimal[m.nanos] \in Nat
  <2>1. CASE m.nanos = 0
    BY <2>1, DecimalShifts
  <2>2. CASE m.nanos # 0
    <3>1. Above(m.nanos) \in PowersOfTen /\ Above(m.nanos) =< NanosMod
      BY <2>2, AboveIs
    <3>2. NanosMod \div Above(m.nanos) \in Nat /\ m.nanos \in Nat
      BY <3>1, PowersDivide DEF Nanos
    <3>3. m.nanos * (NanosMod \div Above(m.nanos)) \in Nat
      BY <3>2
    <3>. QED  BY <2>2, <3>3, DecimalShifts
  <2>. QED  BY <2>1, <2>2
<1>2. m.units * NanosMod \in Nat
  BY MoneyAssumption
<1>. QED  BY <1>1, <1>2 DEF getDouble

LEMMA ProductGrows ==
  ASSUME NEW a \in Nat, NEW b \in Nat, NEW n \in Nat, a =< b
  PROVE  a * n =< b * n
<1>1. PICK d \in Nat : b = a + d
  OBVIOUS
<1>2. b * n = a * n + d * n /\ d * n \in Nat /\ a * n \in Nat
  BY <1>1
<1>. QED  BY <1>2

\* What a conversion cuts is worth what was asked, but for the slack.
LEMMA ConvertedIsTrue ==
  ASSUME NEW p \in Products, NEW code \in Selectable, NEW m \in Converted(p, code)
  PROVE  /\ m.cur = code /\ AmountOf(MoneyOf(m)) = m
         /\ \/ LeadingZero(ListPrice(p))
            \/ True([status |-> "ok", from |-> ListPrice(p), to |-> code, amount |-> m])
<1>. DEFINE from == ListPrice(p)
            U == Table["USD"]
            T == Table[code]
            W == getDouble(from)
            q == (W * T) \div U
<1>1. PICK value \in Cut(q) : m = getUnitsAndNanos(code, value)
  BY DEF Converted
<1>2. m.cur = code /\ AmountOf(MoneyOf(m)) = m
  BY <1>1 DEF getUnitsAndNanos, Amount, AmountOf, MoneyOf
<1>3. U \in Nat \ {0} /\ T \in Nat \ {0}
  BY PageAssumption, CurrencyAssumption
<1>4. W \in Nat /\ from.cur = "USD"
  BY ListPriceType, DoubleType
<1>. HIDE DEF from, U, T, W
<1>5. W * T \in Nat
  BY <1>3, <1>4
<1>6. q \in Nat /\ q * U =< W * T /\ W * T < q * U + U
  BY <1>3, <1>5
<1>. HIDE DEF q
<1>7. /\ Slack(q) \in Nat /\ value \in Nat
      /\ value =< q + Slack(q) /\ q =< value + Slack(q)
  <2>1. q \div Precision \in Nat
    BY <1>6, CurrencyAssumption
  <2>2. Slack(q) \in Nat
    BY <2>1 DEF Slack
  <2>. QED  BY <1>1, <1>6, <2>2 DEF Cut
<1>8. Worth(m) = value
  <2>1. m.units = value \div NanosMod /\ m.nanos = value % NanosMod
    BY <1>1 DEF getUnitsAndNanos, Amount
  <2>2. (value \div NanosMod) * NanosMod + (value % NanosMod) = value
    BY <1>7, MoneyAssumption
  <2>. QED  BY <2>1, <2>2 DEF Worth
<1>. DEFINE off == Slack(q) * U
<1>9. off \in Nat /\ value * U =< W * T + off /\ W * T < value * U + off + U
  <2>1. off \in Nat /\ value * U \in Nat /\ q * U \in Nat
    BY <1>3, <1>6, <1>7
  <2>2. (q + Slack(q)) * U = q * U + off /\ (value + Slack(q)) * U = value * U + off
    BY <1>3, <1>6, <1>7
  <2>3. value * U =< (q + Slack(q)) * U
    BY <1>3, <1>6, <1>7, ProductGrows
  <2>4. q * U =< (value + Slack(q)) * U
    BY <1>3, <1>6, <1>7, ProductGrows
  <2>. HIDE DEF off
  <2>. QED  BY <1>3, <1>5, <1>6, <2>1, <2>2, <2>3, <2>4
<1>10. ASSUME ~LeadingZero(from)
       PROVE  True([status |-> "ok", from |-> from, to |-> code, amount |-> m])
  <2>1. W = Worth(from)
    BY <1>10, ListPriceType, DoubleIsExact DEF W, from
  <2>. QED  BY <1>4, <1>8, <1>9, <2>1 DEF True, U, T, q
<1>. QED  BY <1>2, <1>10 DEF from

\* A price that is loaded is right, whatever was converted before.
LEMMA LoadStep ==
  ASSUME PriceInv, productId \in Products, LoadPrice
  PROVE  PriceInv'
<1>. DEFINE p == productId
            c == selectedCurrency
            Keep(amount) == price' = [status |-> "loaded", product |-> p,
                                      currency |-> c, amount |-> amount]
<1>1. PriceRead(p) = MoneyOf(ListPrice(p))
  BY MessagesSent DEF PriceRead
<1>2. UNCHANGED selectedCurrency /\ c \in Selectable \cup {NoText}
  BY DEF LoadPrice, UNCHANGEDbutPrice, PriceInv, PriceTyped
<1>3. CASE ConvertsTo(c)
  <2>. DEFINE request == ConversionRead(PriceRead(p), c)
              from == request.from[1]
  <2>1. c \in Selectable /\ c # "USD" /\ c # NoText
    BY <1>2, <1>3 DEF ConvertsTo
  <2>2. request = Conversion(MoneyOf(ListPrice(p)), c)
    BY <1>1, <2>1, MessagesSent DEF ConversionRead
  <2>3. from = MoneyOf(ListPrice(p)) /\ request.toCode = c
    BY <2>2 DEF Conversion
  <2>4. /\ Convert([units |-> from.units, nanos |-> from.nanos], from.currencyCode, request.toCode)
        /\ reply'.status = "ok"
        /\ Keep(AmountOf(Sends("Money", MoneyOf(reply'.amount))[1]))
    BY <1>3 DEF LoadPrice
  <2>. DEFINE sent == [units |-> ListPrice(p).units, nanos |-> ListPrice(p).nanos]
  <2>5. Convert(sent, "USD", c)
    BY <2>3, <2>4, ListPriceType DEF MoneyOf
  <2>6. RatesKept'
    BY <2>5, ConvertKeepsRates DEF PriceInv
  <2>7. Amount("USD", sent.units, sent.nanos) = ListPrice(p)
    BY DEF ListPrice, Amount
  <2>8. reply'.amount \in Converted(p, c)
    <3>. DEFINE rates == Touch(Touch(currency_conversion, "USD"), c)
    <3>1. currency_conversion' = rates
      BY <2>5 DEF Convert, Amount
    <3>2. rates["USD"] = Table["USD"] /\ rates[c] = Table[c]
      BY <2>1, <2>6, <3>1, PageAssumption DEF RatesKept
    <3>. HIDE DEF rates
    <3>3. \E value \in Cut((getDouble(ListPrice(p)) * rates[c]) \div rates["USD"]) :
             reply' = [status |-> "ok", from |-> ListPrice(p), to |-> c,
                       amount |-> getUnitsAndNanos(c, value)]
      <4>1. \/ reply' = [status |-> "undefined", from |-> ListPrice(p), to |-> c]
            \/ \E value \in Cut((getDouble(ListPrice(p)) * rates[c]) \div rates["USD"]) :
                  reply' = [status |-> "ok", from |-> ListPrice(p), to |-> c,
                            amount |-> getUnitsAndNanos(c, value)]
        <5>1. ListPrice(p).cur = "USD"
          BY ListPriceType
        <5>2. LET usd == ListPrice(p)
                  r == Touch(Touch(currency_conversion, usd.cur), c)
                  rate == r[usd.cur]
              IN \/ /\ rate = 0
                    /\ reply' = [status |-> "undefined", from |-> usd, to |-> c]
                 \/ /\ rate # 0
                    /\ \E value \in Cut((getDouble(usd) * r[c]) \div rate) :
                          reply' = [status |-> "ok", from |-> usd, to |-> c,
                                    amount |-> getUnitsAndNanos(c, value)]
          BY <2>5, <2>7 DEF Convert
        <5>. QED  BY <5>1, <5>2 DEF rates
      <4>2. reply' # [status |-> "undefined", from |-> ListPrice(p), to |-> c]
        BY <2>4
      <4>. QED  BY <4>1, <4>2
    <3>. QED  BY <3>2, <3>3 DEF Converted
  <2>9. Sends("Money", MoneyOf(reply'.amount)) = <<MoneyOf(reply'.amount)>>
    BY <2>1, <2>8, MessagesSent
  <2>10. Keep(reply'.amount)
    <3>1. AmountOf(MoneyOf(reply'.amount)) = reply'.amount
      BY <2>1, <2>8, ConvertedIsTrue
    <3>2. Sends("Money", MoneyOf(reply'.amount))[1] = MoneyOf(reply'.amount)
      BY <2>9
    <3>3. Keep(AmountOf(Sends("Money", MoneyOf(reply'.amount))[1]))
      BY <2>4
    <3>. QED  BY <3>1, <3>2, <3>3, Zenon
  <2>11. PricesAreTrue'
    BY <2>1, <2>8, <2>10, ConvertedIsTrue DEF PricesAreTrue
  <2>12. PriceTyped'
    BY <1>2, <2>10 DEF PriceTyped
  <2>. QED  BY <2>6, <2>11, <2>12 DEF PriceInv
<1>4. CASE ~ConvertsTo(c)
  <2>1. Keep(ListPrice(p)) /\ UNCHANGED currency_conversion
    BY <1>1, <1>4, ListPriceType DEF LoadPrice, currencyVars
  <2>2. True([status |-> "ok", from |-> ListPrice(p), to |-> "USD", amount |-> ListPrice(p)])
    <3>1. Table["USD"] \in Nat \ {0} /\ Worth(ListPrice(p)) \in Int
      BY ListPriceType, PageAssumption, CurrencyAssumption, MoneyAssumption DEF Worth, Nanos
    <3>. DEFINE due == Worth(ListPrice(p)) * Table["USD"]
                off == Slack(due \div Table["USD"]) * Table["USD"]
    <3>2. due \in Nat
      BY <3>1, ListPriceType, MoneyAssumption DEF Worth, Nanos
    <3>3. Slack(due \div Table["USD"]) \in Nat
      <4>1. due \div Table["USD"] \in Nat
        BY <3>1, <3>2
      <4>. HIDE DEF due
      <4>2. (due \div Table["USD"]) \div Precision \in Nat
        BY <4>1, CurrencyAssumption
      <4>. QED  BY <4>2 DEF Slack
    <3>4. off \in Nat
      BY <3>1, <3>3
    <3>. HIDE DEF off
    <3>5. due =< due + off /\ due < due + off + Table["USD"]
      BY <3>1, <3>2, <3>4
    <3>. QED  BY <3>5, ListPriceType DEF True, off
  <2>3. c = NoText \/ c = "USD"
    BY <1>4 DEF ConvertsTo
  <2>4. PricesAreTrue'
    BY <2>1, <2>2, <2>3, ListPriceType DEF PricesAreTrue
  <2>5. RatesKept' /\ PriceTyped'
    BY <1>2, <2>1 DEF PriceInv, RatesKept, PriceTyped
  <2>. QED  BY <2>4, <2>5 DEF PriceInv
<1>. QED  BY <1>3, <1>4

LEMMA PriceUnchanged ==
  PriceInv /\ UNCHANGED <<selectedCurrency, price, currency_conversion>> => PriceInv'
  BY DEF PriceInv, PriceTyped, RatesKept, PricesAreTrue

LEMMA PriceStep ==
  ASSUME PriceInv, productId \in Products, PriceNext
  PROVE  PriceInv'
<1>1. CASE LoadPrice
  BY <1>1, LoadStep
<1>2. CASE OtherConversion
  <2>1. RatesKept'
    BY <1>2, ConvertKeepsRates DEF OtherConversion, CurrencyNext, PriceInv
  <2>2. UNCHANGED <<selectedCurrency, price>>
    BY <1>2 DEF OtherConversion, pageVars
  <2>. QED  BY <2>1, <2>2 DEF PriceInv, PriceTyped, PricesAreTrue
<1>3. ASSUME NEW c \in Selectable, SelectCurrency(c) PROVE PriceInv'
  <2>1. selectedCurrency' = c /\ UNCHANGED <<price, currency_conversion>>
    BY <1>3 DEF SelectCurrency, UNCHANGEDbutPage, currencyVars
  <2>. QED  BY <2>1 DEF PriceInv, PriceTyped, RatesKept, PricesAreTrue
<1>. QED  BY <1>1, <1>2, <1>3 DEF PriceNext


--------------------------------------------------------------------------------
(* The other parts.  What one of them does leaves the others alone. *)

LEMMA ElementType ==
  ASSUME NEW T, NEW s \in Seq(T), NEW i \in DOMAIN s
  PROVE  i \in 1..Len(s) /\ s[i] \in T
  OBVIOUS

LEMMA RowUnchanged == RowInv /\ UNCHANGED <<first_run, cached_ids, row>> => RowInv'
  BY DEF RowInv, RowTyped, AskedWithCart, RowIsWellChosen
LEMMA AdUnchanged == AdInv /\ UNCHANGED ad => AdInv'
  BY DEF AdInv, AdTyped, AdsAreOnTopic
LEMMA ReviewsUnchanged == ReviewInv /\ UNCHANGED reviewVars => ReviewInv'
  BY DEF ReviewInv, ReviewsTyped, PercentsAddUp, reviewVars
LEMMA AskUnchanged == AskInv /\ UNCHANGED <<productId, asks, current>> => AskInv'
  BY DEF AskInv, LastAsked

LEMMA ReviewStep ==
  ASSUME ReviewInv, NEW score \in Scores, ReviewListed(score)
  PROVE  ReviewInv'
<1>. DEFINE reviews == productReviews'
            N == Len(reviews)
            counts == distribution(reviews)
<1>1. /\ reviews = Append(productReviews, score) /\ productReviews \in Seq(Scores)
      /\ Len(productReviews) < MaxReviews
      /\ \E off \in SUBSET Whole(counts, N) : percents' \in normalizedPercents(counts, off, N)
  BY DEF ReviewListed, ReviewInv, ReviewsTyped
<1>2. reviews \in Seq(Scores) /\ N \in Nat \ {0} /\ N =< MaxReviews
  BY <1>1, ReviewAssumption
<1>3. counts \in [Stars -> Nat] /\ Total(counts) = N
  BY <1>2, ReviewsCounted
<1>4. /\ percents' \in [Stars -> Nat] /\ Total(percents') = 100
      /\ \A s \in Stars : LET miss == percents'[s] * N - 100 * counts[s]
                          IN -N < miss /\ miss < N
  BY <1>1, <1>2, <1>3, BarsAddUp
<1>5. ReviewsTyped'
  BY <1>2, <1>4 DEF ReviewsTyped
<1>6. PercentsAddUp'
  BY <1>4 DEF PercentsAddUp
<1>. QED  BY <1>5, <1>6 DEF ReviewInv

LEMMA AdStep ==
  ASSUME AdInv, productId \in Products, LoadAds
  PROVE  AdInv'
<1>1. PICK keys \in KeysOf(productId) :
         ad' = [keys |-> keys,
                list |-> getAds(Range(Sends("AdRequest", AdQuery(keys))[1].contextKeys))]
  BY DEF LoadAds
<1>2. keys \subseteq DOMAIN AdsOf /\ ad'.keys = keys /\ ad'.list = getAds(keys)
  BY <1>1, CategoriesAsked
<1>3. getAds(keys) \subseteq UNION Range(AdsOf)
  BY <1>2 DEF getAds, Range
<1>4. AdTyped'
  BY <1>2, <1>3 DEF AdTyped
<1>5. AdsAreOnTopic'
  BY <1>2 DEF AdsAreOnTopic, getAds
<1>. QED  BY <1>4, <1>5 DEF AdInv

\* A row that is filled from the catalogue, or from the cache with the flag on.
LEMMA AnswerStep ==
  ASSUME RowInv, row.phase # "none", NEW product_ids \in SUBSET Products,
         product_ids = Products \/ (row.flag /\ first_run' = FALSE /\ cached_ids' = {}),
         Answer(product_ids), first_run' \in BOOLEAN, cached_ids' \in {{}, Products}
  PROVE  RowInv'
<1>. DEFINE filtered == product_ids \ Range(row.ids)
            others == Products \ Range(row.ids)
            n == Cardinality(filtered)
<1>1. request_product_ids(row.ids) = Range(row.ids)
  BY ProductsAsked DEF RowInv, AskedWithCart
<1>2. PICK chosen \in SUBSET filtered :
         /\ \E k \in {RowSize, MaxResponses, n} : 
               /\ Cardinality(chosen) = k 
               /\ k = n \/ k \in {RowSize, MaxResponses}
         /\ row' = [phase |-> "shown", ids |-> row.ids, flag |-> row.flag, shown |-> chosen]
  BY <1>1 DEF Answer
<1>3. IsFiniteSet(filtered)
  BY PageAssumption, FS_Subset
<1>4. Cardinality(chosen) = n => chosen = filtered
  BY <1>3, FS_Subset
<1>5. \/ row'.shown = others \/ Cardinality(row'.shown) \in {RowSize, MaxResponses}
      \/ row'.flag /\ first_run' = FALSE /\ cached_ids' = {}
  BY <1>2, <1>4
<1>6. AskedWithCart' /\ RowTyped'
  BY <1>2 DEF RowInv, AskedWithCart, RowTyped
<1>7. RowIsWellChosen'
  BY <1>2, <1>5 DEF RowIsWellChosen
<1>. QED  BY <1>6, <1>7 DEF RowInv

LEMMA RowStep ==
  ASSUME RowInv, productId \in Products, RowNext
  PROVE  RowInv'
<1>1. CASE AskForRow
  <2>1. PICK list \in CartLists, flag \in BOOLEAN :
           row' = [phase |-> "asked", ids |-> <<productId>> \o list, flag |-> flag]
    BY <1>1 DEF AskForRow
  <2>2. UNCHANGED <<first_run, cached_ids>>
    BY <1>1 DEF AskForRow
  <2>. QED  BY <2>1, <2>2 DEF RowInv, RowTyped, AskedWithCart, RowIsWellChosen
<1>2. CASE CacheHit
  BY <1>2, AnswerStep DEF CacheHit, RowInv, RowTyped
<1>3. CASE CacheMiss
  <2>1. /\ row.phase = "asked" /\ row' = [row EXCEPT !.phase = "listing"]
        /\ first_run' \in BOOLEAN /\ cached_ids' = cached_ids
    BY <1>3 DEF CacheMiss, RowInv, RowTyped
  <2>2. {"phase", "ids", "flag"} \subseteq DOMAIN row
    BY <2>1 DEF RowInv, AskedWithCart
  <2>3. row'.phase = "listing" /\ row'.ids = row.ids /\ row'.flag = row.flag /\ DOMAIN row' = DOMAIN row
    BY <2>1, <2>2
  <2>. QED  BY <2>1, <2>2, <2>3 DEF RowInv, RowTyped, AskedWithCart, RowIsWellChosen
<1>4. CASE CatalogListed(Products)
  <2>1. /\ row.phase = "listing" /\ row.flag \in BOOLEAN /\ UNCHANGED first_run
        /\ cached_ids' = IF row.flag THEN cached_ids \cup Products ELSE cached_ids
        /\ Answer(IF row.flag THEN cached_ids' ELSE Products)
    BY <1>4 DEF CatalogListed, RowInv, AskedWithCart
  <2>2. cached_ids' \in {{}, Products} /\ first_run' \in BOOLEAN
        /\ (row.flag => cached_ids' = Products)
    BY <2>1 DEF RowInv, RowTyped
  <2>. QED  BY <2>1, <2>2, AnswerStep
<1>5. CASE ListProductsFails
  BY <1>5 DEF ListProductsFails, NoRow, RowInv, RowTyped, AskedWithCart, RowIsWellChosen
<1>. QED  BY <1>1, <1>2, <1>3, <1>4, <1>5 DEF RowNext

LEMMA AskStep ==
  ASSUME AskInv, AssistantNext
  PROVE  AskInv'
<1>1. ASSUME NEW typed \in BOOLEAN, Ask(typed) PROVE AskInv'
  <2>1. /\ asks' = Append(asks, [product |-> productId, status |-> "pending"])
        /\ current' = Len(asks) + 1 /\ UNCHANGED productId
        /\ asks \in Seq([product : Products, status : AskStates]) /\ productId \in Products
    BY <1>1 DEF Ask, AskInv, LastAsked
  <2>2. [product |-> productId, status |-> "pending"] \in [product : Products, status : AskStates]
    BY <2>1 DEF AskStates
  <2>. QED  BY <2>1, <2>2 DEF AskInv, LastAsked
<1>2. ASSUME NEW i \in DOMAIN asks, NEW status \in {"answered", "failed"}, AskAnswered(i, status)
      PROVE  AskInv'
  <2>1. /\ asks' = [asks EXCEPT ![i].status = status]
        /\ UNCHANGED <<current, productId>>
        /\ asks \in Seq([product : Products, status : AskStates]) /\ productId \in Products
        /\ current \in 0..Len(asks)
    BY <1>2 DEF AskAnswered, AskInv, LastAsked
  <2>2. /\ asks' \in Seq([product : Products, status : AskStates]) /\ Len(asks') = Len(asks)
        /\ \A j \in 1..Len(asks) : asks'[j].product = asks[j].product
    <3>. DEFINE Mutation == [product : Products, status : AskStates]
    <3>1. i \in 1..Len(asks) /\ asks[i] \in Mutation /\ status \in AskStates
      BY <2>1, ElementType DEF AskStates
    <3>2. /\ [asks[i] EXCEPT !.status = status] \in Mutation
          /\ [asks[i] EXCEPT !.status = status].product = asks[i].product
      BY <3>1
    <3>. HIDE DEF Mutation
    <3>3. \A j \in 1..Len(asks) :
             asks'[j] = IF j = i THEN [asks[i] EXCEPT !.status = status] ELSE asks[j]
      BY <2>1, <3>1
    <3>4. asks' \in Seq(Mutation) /\ Len(asks') = Len(asks)
      BY <2>1, <3>1, <3>2 DEF Mutation
    <3>. QED  BY <3>2, <3>3, <3>4 DEF Mutation
  <2>. QED  BY <2>1, <2>2 DEF AskInv, LastAsked
<1>. QED  BY <1>1, <1>2 DEF AssistantNext

--------------------------------------------------------------------------------
(* The whole page *)

LEMMA InitPage ==
  ASSUME PageInit
  PROVE  PageInv
<1>1. AskInv
  BY DEF PageInit, AskInv, LastAsked
<1>2. RowInv
  BY DEF PageInit, RowInv, RowTyped, AskedWithCart, RowIsWellChosen, NoRow
<1>3. AdInv
  BY DEF PageInit, AdInv, AdTyped, AdsAreOnTopic, NoAd
<1>4. ReviewInv
  BY ReviewAssumption DEF PageInit, ReviewInv, ReviewsTyped, PercentsAddUp
<1>5. PriceInv
  BY DEF PageInit, CurrencyInit, PriceInv, PriceTyped, RatesKept, PricesAreTrue, NoPrice
<1>. QED  BY <1>1, <1>2, <1>3, <1>4, <1>5 DEF PageInv

LEMMA NextPage ==
  ASSUME PageInv, [PageNext]_<<pageVars, currencyVars>>
  PROVE  PageInv'
<1>. USE DEF PageInv
<1>0. productId \in Products
  BY DEF AskInv
<1>1. CASE PriceNext
  <2>1. UNCHANGED <<productId, asks, current, first_run, cached_ids, row, ad, reviewVars>>
    BY <1>1 DEF PriceNext, LoadPrice, OtherConversion, SelectCurrency, UNCHANGEDbutPrice,
                UNCHANGEDbutPage, pageVars
  <2>. QED  BY <1>0, <1>1, <2>1, PriceStep, AskUnchanged, RowUnchanged, AdUnchanged, ReviewsUnchanged
<1>2. CASE RowNext
  <2>1. UNCHANGED <<productId, asks, current, selectedCurrency, price, ad, reviewVars, currency_conversion>>
    BY <1>2 DEF RowNext, AskForRow, CacheHit, CacheMiss, CatalogListed, ListProductsFails,
                UNCHANGEDbutRow, currencyVars
  <2>. QED  BY <1>0, <1>2, <2>1, RowStep, AskUnchanged, PriceUnchanged, AdUnchanged, ReviewsUnchanged
<1>3. CASE AssistantNext
  <2>1. UNCHANGED <<selectedCurrency, price, currency_conversion, first_run, cached_ids, row, ad, reviewVars>>
    BY <1>3 DEF AssistantNext, Ask, AskAnswered, UNCHANGEDbutPage, currencyVars
  <2>. QED  BY <1>3, <2>1, AskStep, PriceUnchanged, RowUnchanged, AdUnchanged, ReviewsUnchanged
<1>4. CASE LoadAds
  <2>1. UNCHANGED <<productId, asks, current, selectedCurrency, price, currency_conversion,
                    first_run, cached_ids, row, reviewVars>>
    BY <1>4 DEF LoadAds, UNCHANGEDbutSide, currencyVars
  <2>. QED  BY <1>0, <1>4, <2>1, AdStep, AskUnchanged, PriceUnchanged, RowUnchanged, ReviewsUnchanged
<1>5. CASE PageReviews
  <2>1. UNCHANGED <<productId, asks, current, selectedCurrency, price, currency_conversion,
                    first_run, cached_ids, row, ad>>
    BY <1>5 DEF PageReviews, UNCHANGEDbutSide, currencyVars
  <2>. QED  BY <1>5, <2>1, ReviewStep, AskUnchanged, PriceUnchanged, RowUnchanged, AdUnchanged DEF PageReviews
<1>6. ASSUME NEW p \in Products, Open(p) PROVE PageInv'
  <2>1. /\ UNCHANGED <<selectedCurrency, price, currency_conversion, first_run, cached_ids, row, asks>>
        /\ productId' = p /\ current' = 0 /\ ad' = NoAd
        /\ productReviews' = <<>> /\ percents' = <<>>
    BY <1>6 DEF Open, OpenOthers, UNCHANGEDbutPage, currencyVars
  <2>2. AskInv'
    BY <2>1 DEF AskInv, LastAsked
  <2>3. AdInv'
    BY <2>1 DEF AdInv, AdTyped, AdsAreOnTopic, NoAd
  <2>4. ReviewInv'
    BY <2>1, ReviewAssumption DEF ReviewInv, ReviewsTyped, PercentsAddUp
  <2>. QED  BY <2>1, <2>2, <2>3, <2>4, PriceUnchanged, RowUnchanged
<1>7. CASE UNCHANGED <<pageVars, currencyVars>>
  BY <1>7, AskUnchanged, PriceUnchanged, RowUnchanged, AdUnchanged, ReviewsUnchanged
  DEF pageVars, currencyVars
<1>. QED  BY <1>1, <1>2, <1>3, <1>4, <1>5, <1>6, <1>7 DEF PageNext

(***************************************************************************)
(* Every state of the page satisfies the invariant.                        *)
(***************************************************************************)
THEOREM PageInvariant == PageSpec => []PageInv
<1>1. PageInit => PageInv
  BY InitPage
<1>2. PageInv /\ [PageNext]_<<pageVars, currencyVars>> => PageInv'
  BY NextPage
<1>. QED  BY <1>1, <1>2, PTL DEF PageSpec

--------------------------------------------------------------------------------

(***************************************************************************)
(* The variables of the page have their types, on whatever page and after  *)
(* whatever answers: the observer of the assistant follows a question that *)
(* was asked, and no bar above the reviews is negative.                    *)
(***************************************************************************)
THEOREM PageTypeCorrect == PageSpec => []PageTypeOK
<1>1. ASSUME PageInv PROVE PageTypeOK
  <2>. USE <1>1 DEF PageInv
  <2>1. ASSUME NEW i \in DOMAIN asks
        PROVE  asks[i].product \in Products /\ asks[i].status \in AskStates
    <3>1. asks[i] \in [product : Products, status : AskStates]
      BY ElementType DEF AskInv, LastAsked
    <3>. QED  BY <3>1
  <2>2. \A a \in Range(asks) : a.product \in Products /\ a.status \in AskStates
    BY <2>1 DEF Range
  <2>. QED  BY <2>2 DEF PageTypeOK, AskStates, AskInv, RowInv, RowTyped, AdInv, AdTyped,
                        ReviewInv, ReviewsTyped, PriceInv, PriceTyped
<1>. QED  BY <1>1, PageInvariant, PTL

(***************************************************************************)
(* Whatever the catalogue, the rates, the currencies of the switcher and   *)
(* what other clients ask the currency service, unlisted codes included: a *)
(* price on the page is the catalogue's price of its product at the rates  *)
(* of the table (LoadPrice, Convert), but for a leading zero in the        *)
(* decimals, which getDouble drops.                                        *)
(***************************************************************************)
THEOREM PricesAreTrueHolds == PageSpec => []PricesAreTrue
<1>1. PageInv => PricesAreTrue
  BY DEF PageInv, PriceInv
<1>. QED  BY <1>1, PageInvariant, PTL

(***************************************************************************)
(* For any catalogue, any lists in the cart and any sizes of the row, with *)
(* the catalogue failing at any moment and the flag on or off: the server  *)
(* takes out of its answer what the page and the cart already show, and    *)
(* fills the row unless the flag is on and nothing was listed since it is  *)
(* (AskForRow to CatalogListed).                                           *)
(***************************************************************************)
THEOREM RowIsWellChosenHolds == PageSpec => []RowIsWellChosen
<1>1. PageInv => RowIsWellChosen
  BY DEF PageInv, RowInv
<1>. QED  BY <1>1, PageInvariant, PTL

(***************************************************************************)
(* For any categories of any products, the ad service answers with ads of  *)
(* the categories that the page asked for, joined, split and sent as they  *)
(* are on the way (LoadAds), and with any ad only for want of others.      *)
(***************************************************************************)
THEOREM AdsAreOnTopicHolds == PageSpec => []AdsAreOnTopic
<1>1. PageInv => AdsAreOnTopic
  BY DEF PageInv, AdInv
<1>. QED  BY <1>1, PageInvariant, PTL

(***************************************************************************)
(* However many questions are pending, whichever of them is answered and   *)
(* whatever page was opened in between (Ask, AskAnswered, Open): an answer *)
(* that is shown is the one to the last question, about this product.      *)
(***************************************************************************)
THEOREM AnswerIsForThisPageHolds == PageSpec => []AnswerIsForThisPage
<1>1. PageInv => AnswerIsForThisPage
  BY DEF PageInv, AskInv, LastAsked, AnswerIsForThisPage
<1>. QED  BY <1>1, PageInvariant, PTL

(***************************************************************************)
(* For any number of reviews and any scores, and whichever of the whole    *)
(* percentages a JavaScript number puts a hair too low (ReviewListed): the *)
(* bars add up to a hundred, each less than one percent off.               *)
(***************************************************************************)
THEOREM PercentsAddUpHolds == PageSpec => []PercentsAddUp
<1>1. PageInv => PercentsAddUp
  BY DEF PageInv, ReviewInv
<1>. QED  BY <1>1, PageInvariant, PTL
================================================================================
