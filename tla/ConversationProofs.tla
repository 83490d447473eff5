------------------------- MODULE ConversationProofs -------------------------
(***************************************************************************)
(* Proofs about the ranking and the conversation over it, for any messages *)
(* and patches, any answers of the LLM and any number of rankings, intent  *)
(* versions, quotes and days.                                              *)
(***************************************************************************)
EXTENDS Conversation, FiniteSetTheorems, SequenceTheorems, TLAPS

---------------------------------------------------------------------------
(* The three best *)

Above(score, p, q) == score[p] > score[q] \/ (score[p] = score[q] /\ p < q)
Better(score, p) == {q \in DOMAIN score : Above(score, q, p)}
Place(score, p) == 1 + Cardinality(Better(score, p))

AtPlace(score, k) == CHOOSE p \in DOMAIN score : Place(score, p) = k

\* The operator in these terms.
LEMMA TopThreeByPlace ==
  ASSUME NEW score
  PROVE  TopThree(score) = [k \in {k \in 1..3 : k <= Cardinality(DOMAIN score)} |->
                               AtPlace(score, k)]
  BY DEF TopThree, AtPlace, Place, Better, Above

\* Three different things are three.
LEMMA ThreeElements ==
  ASSUME NEW a, NEW b, NEW c, a # b, a # c, b # c
  PROVE  Cardinality({a, b, c}) = 3
<1>1. IsFiniteSet({a}) /\ Cardinality({a}) = 1
  BY FS_Singleton
<1>2. IsFiniteSet({a} \cup {b}) /\ Cardinality({a} \cup {b}) = Cardinality({a}) + 1
  BY <1>1, FS_AddElement, b \notin {a}
<1>3. Cardinality(({a} \cup {b}) \cup {c}) = Cardinality({a} \cup {b}) + 1
  BY <1>2, FS_AddElement, c \notin {a} \cup {b}
<1>4. ({a} \cup {b}) \cup {c} = {a, b, c}
  OBVIOUS
<1> QED
  BY <1>1, <1>2, <1>3, <1>4

\* Each product has a place among those that have a score.
LEMMA PlaceType ==
  ASSUME NEW S \in SUBSET Nat, IsFiniteSet(S), NEW score \in [S -> Int], NEW p \in S
  PROVE  /\ IsFiniteSet(Better(score, p)) /\ Cardinality(Better(score, p)) \in Nat
         /\ Place(score, p) \in 1..Cardinality(S)
<1>1. Better(score, p) \subseteq S \ {p}
  BY DEF Better, Above
<1>2. /\ IsFiniteSet(S \ {p}) /\ Cardinality(S \ {p}) = Cardinality(S) - 1
      /\ Cardinality(S) \in Nat
  BY FS_RemoveElement, FS_CardinalityType
<1>3. /\ IsFiniteSet(Better(score, p))
      /\ Cardinality(Better(score, p)) <= Cardinality(S \ {p})
  BY <1>1, <1>2, FS_Subset
<1>4. Cardinality(Better(score, p)) \in Nat
  BY <1>3, FS_CardinalityType
<1> QED
  BY <1>2, <1>3, <1>4 DEF Place

\* A product above another has an earlier place.
LEMMA PlaceOrder ==
  ASSUME NEW S \in SUBSET Nat, IsFiniteSet(S), NEW score \in [S -> Int],
         NEW p \in S, NEW q \in S, Above(score, p, q)
  PROVE  Place(score, p) < Place(score, q)
<1>1. Better(score, p) \subseteq Better(score, q) \ {p} /\ p \in Better(score, q)
  <2>1. p \in Better(score, q)
    BY DEF Better
  <2>2. ASSUME NEW x \in Better(score, p)
        PROVE  x \in Better(score, q) /\ x # p
    <3>1. x \in S /\ Above(score, x, p)
      BY DEF Better
    <3>2. Above(score, x, q) /\ x # p
      BY <3>1 DEF Above
    <3> QED
      BY <3>1, <3>2 DEF Better
  <2> QED
    BY <2>1, <2>2
<1>2. /\ IsFiniteSet(Better(score, q)) /\ Cardinality(Better(score, q)) \in Nat
      /\ Cardinality(Better(score, p)) \in Nat
  BY PlaceType
<1>3. /\ IsFiniteSet(Better(score, q) \ {p})
      /\ Cardinality(Better(score, q) \ {p}) = Cardinality(Better(score, q)) - 1
  BY <1>1, <1>2, FS_RemoveElement
<1>4. Cardinality(Better(score, p)) <= Cardinality(Better(score, q) \ {p})
  BY <1>1, <1>3, FS_Subset
<1> QED
  BY <1>2, <1>3, <1>4 DEF Place

\* No two products share a place.
LEMMA PlaceUnique ==
  ASSUME NEW S \in SUBSET Nat, IsFiniteSet(S), NEW score \in [S -> Int],
         NEW p \in S, NEW q \in S, Place(score, p) = Place(score, q)
  PROVE  p = q
<1> SUFFICES ASSUME p # q PROVE FALSE
  OBVIOUS
<1>1. Above(score, p, q) \/ Above(score, q, p)
  BY DEF Above
<1>2. Place(score, p) \in Int /\ Place(score, q) \in Int /\ Cardinality(S) \in Nat
  BY PlaceType, FS_CardinalityType
<1> QED
  BY <1>1, <1>2, PlaceOrder

\* Every place is taken.
LEMMA PlaceTaken ==
  ASSUME NEW S \in SUBSET Nat, IsFiniteSet(S), NEW score \in [S -> Int],
         NEW k \in 1..Cardinality(S)
  PROVE  \E p \in S : Place(score, p) = k
<1> DEFINE T == 1..Cardinality(S)
           f == [p \in S |-> Place(score, p)]
<1>1. Cardinality(S) \in Nat
  BY FS_CardinalityType
<1>2. IsFiniteSet(T) /\ Cardinality(T) = Cardinality(S)
  BY <1>1, FS_Interval
<1>3. f \in [S -> T]
  BY PlaceType
<1>4. \A p, q \in S : f[p] = f[q] => p = q
  BY PlaceUnique
<1>5. f \in Injection(S, T)
  BY <1>3, <1>4 DEF Injection, IsInjective
<1> HIDE DEF f, T
<1>6. f \in Surjection(S, T)
  BY <1>2, <1>5, FS_Injection
<1>7. \E p \in S : f[p] = k
  BY <1>6 DEF Surjection, T
<1> QED
  BY <1>7 DEF f

\* What TopThree returns: as many products as there are, up to three, the
\* k-th of them being the one in place k.
LEMMA TopThreePlaces ==
  ASSUME NEW S \in SUBSET Nat, IsFiniteSet(S), NEW score \in [S -> Int],
         NEW t, t = TopThree(score)
  PROVE  /\ DOMAIN t = {k \in 1..3 : k <= Cardinality(S)}
         /\ t \in Seq(S)
         /\ \A k \in DOMAIN t : t[k] \in S /\ Place(score, t[k]) = k
<1> DEFINE D == {k \in 1..3 : k <= Cardinality(S)}
<1>0. DOMAIN score = S
  OBVIOUS
<1>1. t = [k \in D |-> AtPlace(score, k)]
  BY <1>0, TopThreeByPlace
<1>2. Cardinality(S) \in Nat
  BY FS_CardinalityType
<1>3. ASSUME NEW k \in D
      PROVE  AtPlace(score, k) \in S /\ Place(score, AtPlace(score, k)) = k
  <2>1. \E p \in S : Place(score, p) = k
    BY <1>2, PlaceTaken
  <2> QED
    BY <1>0, <2>1 DEF AtPlace
<1>4. t \in [D -> S]
  BY <1>1, <1>3
<1>5. PICK n \in Nat : D = 1..n
  <2>1. D = 1..(IF Cardinality(S) < 3 THEN Cardinality(S) ELSE 3)
    BY <1>2
  <2> QED
    BY <1>2, <2>1
<1>6. t \in Seq(S)
  <2> HIDE DEF D
  <2>1. t \in [1..n -> S]
    BY <1>4, <1>5
  <2> QED
    BY <2>1
<1>7. ASSUME NEW k \in D
      PROVE  t[k] \in S /\ Place(score, t[k]) = k
  <2>1. t[k] = AtPlace(score, k)
    BY <1>1
  <2> QED
    BY <1>3, <2>1
<1> QED
  BY <1>1, <1>6, <1>7

\* What TopThree leaves out scores no higher than what it returns, and it
\* leaves nothing out while there is room.
LEMMA TopThreeBest ==
  ASSUME NEW S \in SUBSET Nat, IsFiniteSet(S), NEW score \in [S -> Int],
         NEW t, t = TopThree(score), NEW p \in S, p \notin {t[k] : k \in DOMAIN t}
  PROVE  /\ Cardinality({t[k] : k \in DOMAIN t}) = 3
         /\ \A q \in {t[k] : k \in DOMAIN t} : score[p] <= score[q]
<1>1. /\ DOMAIN t = {k \in 1..3 : k <= Cardinality(S)}
      /\ \A k \in DOMAIN t : t[k] \in S /\ Place(score, t[k]) = k
  <2>1. \A r : r = TopThree(score) =>
                 /\ DOMAIN r = {k \in 1..3 : k <= Cardinality(S)}
                 /\ \A k \in DOMAIN r : r[k] \in S /\ Place(score, r[k]) = k
    BY TopThreePlaces
  <2> QED
    BY <2>1
<1>2. Cardinality(S) \in Nat /\ Place(score, p) \in 1..Cardinality(S)
  BY PlaceType, FS_CardinalityType
<1>3. ASSUME Place(score, p) \in DOMAIN t
      PROVE  FALSE
  <2>1. t[Place(score, p)] \in S /\ Place(score, t[Place(score, p)]) = Place(score, p)
    BY <1>1, <1>3
  <2>2. t[Place(score, p)] = p
    BY <2>1, PlaceUnique
  <2> QED
    BY <1>3, <2>2
<1>4. Place(score, p) > 3 /\ DOMAIN t = 1..3
  BY <1>1, <1>2, <1>3
<1>5. {t[k] : k \in DOMAIN t} = {t[1], t[2], t[3]}
  BY <1>4
<1>6. Place(score, t[1]) = 1 /\ Place(score, t[2]) = 2 /\ Place(score, t[3]) = 3
  BY <1>1, <1>4
<1>7. t[1] # t[2] /\ t[1] # t[3] /\ t[2] # t[3]
  BY <1>6
<1>8. Cardinality({t[1], t[2], t[3]}) = 3
  BY ZenonT(60), <1>7, ThreeElements
<1>9. ASSUME NEW k \in DOMAIN t
      PROVE  score[p] <= score[t[k]]
  <2>1. t[k] \in S /\ Place(score, t[k]) = k /\ k \in 1..3
    BY <1>1, <1>4
  <2>2. ~Above(score, p, t[k])
    <3> SUFFICES ASSUME Above(score, p, t[k]) PROVE FALSE
      OBVIOUS
    <3>1. Place(score, p) < Place(score, t[k])
      BY <2>1, PlaceOrder
    <3> QED
      BY <1>2, <1>4, <2>1, <3>1
  <2>3. score[p] \in Int /\ score[t[k]] \in Int
    BY <2>1
  <2>4. ~(score[p] > score[t[k]])
    BY <2>2 DEF Above
  <2> QED
    BY <2>3, <2>4
<1> QED
  BY <1>5, <1>8, <1>9

---------------------------------------------------------------------------
(* The ranking *)

\* The catalogue has six shoes, with a rating each.
LEMMA CatalogType ==
  /\ Products = 1..6 /\ Products \in SUBSET Nat /\ IsFiniteSet(Products)
  /\ \A p \in Products : SHOE_CATALOG[p].rating \in Nat
<1>1. Products = 1..6
  BY DEF Products, SHOE_CATALOG
<1>2. IsFiniteSet(1..6)
  BY FS_Interval, 1 \in Int, 6 \in Int
<1>3. \A a, b, c, e, f, g, h, r, j, k : Shoe(a, b, c, e, f, g, h, r, j, k).rating = r
  BY DEF Shoe
<1>4. /\ SHOE_CATALOG[1].rating = 46 /\ SHOE_CATALOG[2].rating = 47
      /\ SHOE_CATALOG[3].rating = 43 /\ SHOE_CATALOG[4].rating = 45
      /\ SHOE_CATALOG[5].rating = 44 /\ SHOE_CATALOG[6].rating = 42
  BY <1>3 DEF SHOE_CATALOG
<1>5. ASSUME NEW p \in 1..6
      PROVE  SHOE_CATALOG[p].rating \in Nat
  BY <1>4
<1> QED
  BY <1>1, <1>2, <1>5

\* Rounding to a natural number of units.
LEMMA RoundedType ==
  ASSUME NEW n \in Nat, NEW d \in Nat, d > 0
  PROVE  Rounded(n, d) \in Nat
  BY DEF Rounded

\* A score is a number, whatever the intent holds.
LEMMA ScoreType ==
  ASSUME NEW p \in Products, NEW i, NEW d
  PROVE  Score(p, i, d) \in Int
<1> DEFINE shoe == SHOE_CATALOG[p]
<1>1. \A c : /\ Points(c, SCORE_WEIGHTS.useCase) \in Nat /\ Points(c, 12) \in Nat
            /\ Points(c, SCORE_WEIGHTS.fit) \in Nat /\ Points(c, SCORE_WEIGHTS.cushioning) \in Nat
            /\ Points(c, SCORE_WEIGHTS.distance) \in Nat /\ Points(c, SCORE_WEIGHTS.colour) \in Nat
            /\ Points(c, SCORE_WEIGHTS.budget) \in Nat /\ Points(c, SCORE_WEIGHTS.delivery) \in Nat
            /\ Points(c, SCORE_WEIGHTS.returnable) \in Nat
  BY DEF Points, SCORE_WEIGHTS
<1>2. shoe.rating * SCORE_WEIGHTS.rating \in Nat
  BY CatalogType DEF SCORE_WEIGHTS
<1>3. Rounded(shoe.rating * SCORE_WEIGHTS.rating, 50) \in Nat
  BY <1>2, RoundedType
<1> DEFINE w == SCORE_WEIGHTS
           b1 == Points(shoe.useCase = i.useCase, w.useCase)
           b2 == Points(shoe.useCase # i.useCase, 12)
           b3 == Points(i.fit \in {None, shoe.fit}, w.fit)
           b4 == Points(i.cushioning \in {None, shoe.cushioning}, w.cushioning)
           b5 == IF i.distanceKm = None THEN 0 ELSE Points(Distance(p, i) \in -2..2, w.distance)
           b6 == Points(ColourMatched(p, i), w.colour)
           b7 == Points(WithinBudget(p, i), w.budget)
           b8 == Points(DeliveryMet(p, i, d), w.delivery)
           b9 == Points(Returnable(p, i), w.returnable)
           b10 == Rounded(shoe.rating * w.rating, 50)
           raw == b1 + b2 + b3 + b4 + b5 + b6 + b7 + b8 + b9 + b10
<1>5. Score(p, i, d) = Rounded(raw * 100, SCORE_MAXIMUM)
  BY DEF Score
<1>6. /\ b1 \in Nat /\ b2 \in Nat /\ b3 \in Nat /\ b4 \in Nat /\ b6 \in Nat
      /\ b7 \in Nat /\ b8 \in Nat /\ b9 \in Nat /\ b10 \in Nat
  <2>1. b1 \in Nat /\ b2 \in Nat /\ b3 \in Nat /\ b4 \in Nat
    BY <1>1, Zenon
  <2>2. b6 \in Nat /\ b7 \in Nat /\ b8 \in Nat /\ b9 \in Nat
    BY <1>1, Zenon
  <2> QED
    BY <1>3, <2>1, <2>2
<1>7. Points(Distance(p, i) \in -2..2, w.distance) \in Nat
  BY <1>1, Zenon
<1>8. b5 \in Nat
  BY <1>7
<1> HIDE DEF b1, b2, b3, b4, b5, b6, b7, b8, b9, b10, shoe, w
<1>9. raw \in Nat
  BY <1>6, <1>8
<1> HIDE DEF raw
<1> QED
  BY <1>5, <1>9, RoundedType DEF SCORE_MAXIMUM

\* The products that rankProducts keeps, with their scores.
EligibleAt(i, d) == {p \in Products : Eligible(p, i, d)}

\* A complete intent is ranked by the scores of the eligible products, an
\* incomplete one has no matches.
LEMMA RankByScore ==
  ASSUME NEW i, NEW d
  PROVE  /\ rankProducts(i, d) = [ranked |-> rankProducts(i, d).ranked,
                                   matches |-> rankProducts(i, d).matches]
         /\ rankProducts(i, d).ranked = (missingHardConstraints(i) = {})
         /\ missingHardConstraints(i) # {} => rankProducts(i, d).matches = <<>>
         /\ missingHardConstraints(i) = {} =>
               rankProducts(i, d).matches = TopThree(Scores(EligibleAt(i, d), i, d))
<1> DEFINE ss == Scores(EligibleAt(i, d), i, d)
           T == {TopThree(score) : score \in {ss}}
<1>1. T = {TopThree(ss)}
  OBVIOUS
<1>2. TheOnly({TopThree(ss)}) = TopThree(ss)
  BY DEF TheOnly
<1>3. TheOnly(T) = TopThree(ss)
  BY <1>1, <1>2
<1>4. rankProducts(i, d) = [ranked |-> missingHardConstraints(i) = {},
                            matches |-> IF missingHardConstraints(i) # {} THEN <<>> ELSE TheOnly(T)]
  BY DEF rankProducts, EligibleAt
<1> HIDE DEF T, ss
<1>5. missingHardConstraints(i) = {} => rankProducts(i, d).matches = TopThree(ss)
  BY <1>3, <1>4
<1> QED
  BY <1>4, <1>5 DEF ss

\* The scores that rankProducts sorts.
LEMMA EligibleScores ==
  ASSUME NEW i, NEW d
  PROVE  /\ EligibleAt(i, d) \in SUBSET Nat /\ IsFiniteSet(EligibleAt(i, d))
         /\ Scores(EligibleAt(i, d), i, d) \in [EligibleAt(i, d) -> Int]
<1>1. EligibleAt(i, d) \subseteq Products
  BY DEF EligibleAt
<1>2. IsFiniteSet(EligibleAt(i, d))
  BY <1>1, CatalogType, FS_Subset
<1> QED
  BY <1>1, <1>2, CatalogType, ScoreType DEF Scores

\* A sequence over a set is one over any larger set.
LEMMA SeqOfMore ==
  ASSUME NEW A, NEW B, A \subseteq B, NEW q \in Seq(A)
  PROVE  q \in Seq(B)
<1>1. Len(q) \in Nat /\ q \in [1..Len(q) -> A]
  OBVIOUS
<1>2. q \in [1..Len(q) -> B]
  BY <1>1
<1> QED
  BY <1>1, <1>2

\* A ranking is one, and its matches are products.
LEMMA RankType ==
  ASSUME NEW i, NEW d
  PROVE  rankProducts(i, d) \in RankingResult
<1>1. TopThree(Scores(EligibleAt(i, d), i, d)) \in Seq(EligibleAt(i, d))
  BY EligibleScores, TopThreePlaces
<1>2. EligibleAt(i, d) \subseteq Products
  BY DEF EligibleAt
<1>3. TopThree(Scores(EligibleAt(i, d), i, d)) \in Seq(Products)
  BY <1>1, <1>2, SeqOfMore
<1>4. rankProducts(i, d).matches \in Seq(Products)
  <2>1. CASE missingHardConstraints(i) = {}
    BY <1>3, <2>1, RankByScore
  <2>2. CASE missingHardConstraints(i) # {}
    <3>1. rankProducts(i, d).matches = <<>>
      BY <2>2, RankByScore
    <3> QED
      BY <3>1
  <2> QED
    BY <2>1, <2>2
<1>5. rankProducts(i, d).ranked \in BOOLEAN
  BY RankByScore
<1> QED
  BY <1>4, <1>5, RankByScore DEF RankingResult

\* The products of a ranking.
MatchSet(ranking) == {ranking.matches[k] : k \in DOMAIN ranking.matches}

\* An eligible product that a ranking leaves out scores no higher than the
\* three that are in it.
LEMMA RankBest ==
  ASSUME NEW i, NEW d, rankProducts(i, d).ranked,
         NEW p \in Products, Eligible(p, i, d), p \notin MatchSet(rankProducts(i, d))
  PROVE  /\ Cardinality(MatchSet(rankProducts(i, d))) = 3
         /\ \A q \in MatchSet(rankProducts(i, d)) : Score(p, i, d) <= Score(q, i, d)
<1> DEFINE S == EligibleAt(i, d)
           score == Scores(S, i, d)
           t == rankProducts(i, d).matches
<1>1. t = TopThree(score)
  BY RankByScore
<1>2. S \in SUBSET Nat /\ IsFiniteSet(S) /\ score \in [S -> Int] /\ p \in S
  BY EligibleScores DEF EligibleAt
<1>3. MatchSet(rankProducts(i, d)) = {t[k] : k \in DOMAIN t}
  BY DEF MatchSet
<1>4. \A q \in S : score[q] = Score(q, i, d)
  BY DEF Scores
<1> HIDE DEF S, score, t
<1>5. /\ Cardinality({t[k] : k \in DOMAIN t}) = 3
      /\ \A q \in {t[k] : k \in DOMAIN t} : score[p] <= score[q]
  <2>1. \A r : r = TopThree(score) /\ p \notin {r[k] : k \in DOMAIN r} =>
                 /\ Cardinality({r[k] : k \in DOMAIN r}) = 3
                 /\ \A q \in {r[k] : k \in DOMAIN r} : score[p] <= score[q]
    BY <1>2, TopThreeBest
  <2> QED
    BY <1>1, <1>3, <2>1
<1>6. \A k \in DOMAIN t : t[k] \in S
  BY <1>1, <1>2, TopThreePlaces
<1> QED
  BY <1>2, <1>3, <1>4, <1>5, <1>6

---------------------------------------------------------------------------
(* The inductive invariant *)

SessionFields ==
    {"state", "intent", "intentVersion", "recommendationVersion", "recommendationIntentVersion",
     "token", "lastRanking", "shownProductIds", "quoteValid", "envelope", "approved"}

\* Something is stored for each field of an intent.
IsIntent(i) == i = [f \in Fields |-> i[f]]

\* The types of a session that refers to n recommendations.
Typed(s, n) ==
    /\ DOMAIN s = SessionFields
    /\ s.state \in OrderStates /\ IsIntent(s.intent)
    /\ s.intentVersion \in Nat /\ s.recommendationVersion \in 0..n
    /\ s.recommendationIntentVersion \in 0..s.intentVersion \cup {None}
    /\ s.token \in {n, None} /\ (s.token # None => n > 0)
    /\ s.lastRanking \in RankingResult \cup {None}
    /\ s.shownProductIds \subseteq Products
    /\ s.quoteValid \in BOOLEAN
    /\ s.approved \in 1..quotes \cup {None}

\* The envelope is of the intent of the session, and was fit to be approved
\* on the day it was made.
EnvelopeFits(s, n) ==
    LET e == s.envelope IN
    e # None =>
        /\ e = [digest |-> e.digest, product |-> e.product, token |-> e.token,
                intentVersion |-> e.intentVersion, recommendationVersion |-> e.recommendationVersion,
                intent |-> e.intent, day |-> e.day, presented |-> e.presented]
        /\ e.digest \in 1..MaxQuotes /\ e.product \in Products
        /\ e.token \in 1..n /\ e.recommendationVersion \in 1..n
        /\ e.intentVersion \in 0..s.intentVersion /\ e.day \in 0..LastDay
        /\ e.intent = s.intent
        /\ Eligible(e.product, e.intent, e.day) /\ ColourMatched(e.product, e.intent)

\* The binding it was asked for with was given out, and is of a shortlist
\* that showed the product for the same intent.
EnvelopeShown(s) ==
    LET e == s.envelope IN
    e # None /\ e.presented # None =>
        /\ e.presented \in 1..Len(issued)
        /\ issued[e.presented].intent = e.intent
        /\ \E k \in DOMAIN issued[e.presented].matches : issued[e.presented].matches[k] = e.product

\* The session holds the last recommendation that was recorded, or none: it
\* is the ranking of the intent the session has, and all of it is shown.
Held(s) ==
    /\ Typed(s, Len(issued)) /\ EnvelopeFits(s, Len(issued)) /\ EnvelopeShown(s)
    /\ s.token = None => s.shownProductIds = {}
    /\ s.token # None =>
          /\ issued[s.token].intent = s.intent
          /\ issued[s.token].matches = s.lastRanking.matches
          /\ s.lastRanking = rankProducts(s.intent, issued[s.token].day)
          /\ s.shownProductIds = MatchSet(s.lastRanking)

\* Within an operation: the session has a recommendation that is not yet
\* among the issued ones, and need not show it yet.
Recorded(s) ==
    /\ Typed(s, Len(issued) + 1) /\ EnvelopeFits(s, Len(issued) + 1) /\ EnvelopeShown(s)
    /\ s.token = Len(issued) + 1 /\ s.recommendationVersion > 0
    /\ s.lastRanking = rankProducts(s.intent, day)

Fresh(s) == Recorded(s) /\ s.shownProductIds = MatchSet(s.lastRanking)

IsSeq(q) == \E S : q \in Seq(S)

HistoryOK ==
    /\ IsSeq(issued) /\ Len(issued) <= MaxRecommendations
    /\ given \subseteq 1..Len(issued)
    /\ quotes \in 0..MaxQuotes /\ day \in 0..LastDay
    /\ session.intentVersion <= MaxVersion

ConversationInv == Held(session) /\ HistoryOK

---------------------------------------------------------------------------
(* Sequences and records *)

\* What Append does to the history of recommendations.
LEMMA AppendFacts ==
  ASSUME NEW q, IsSeq(q), NEW r
  PROVE  /\ IsSeq(Append(q, r)) /\ Len(q) \in Nat /\ Len(Append(q, r)) = Len(q) + 1
         /\ Append(q, r)[Len(q) + 1] = r
         /\ \A k \in 1..Len(q) : Append(q, r)[k] = q[k]
<1>1. PICK S : q \in Seq(S)
  BY DEF IsSeq
<1>2. q \in Seq(S \cup {r})
  BY <1>1, SeqOfMore, S \subseteq S \cup {r}
<1>3. Append(q, r) \in Seq(S \cup {r})
  BY <1>2
<1> QED
  BY <1>2, <1>3 DEF IsSeq

\* What a ranking shows are products.
LEMMA MatchProducts ==
  ASSUME NEW i, NEW d
  PROVE  MatchSet(rankProducts(i, d)) \subseteq Products
<1>1. rankProducts(i, d).matches \in Seq(Products)
  BY RankType DEF RankingResult
<1> QED
  BY <1>1 DEF MatchSet

\* An intent that lacks a hard constraint has nothing to show.
LEMMA MissingShowsNothing ==
  ASSUME NEW s, Held(s), missingHardConstraints(s.intent) # {}
  PROVE  s.shownProductIds = {}
<1>1. CASE s.token = None
  BY <1>1 DEF Held
<1>2. CASE s.token # None
  <2>1. /\ s.lastRanking = rankProducts(s.intent, issued[s.token].day)
        /\ s.shownProductIds = MatchSet(s.lastRanking)
    BY <1>2 DEF Held
  <2>2. s.lastRanking.matches = <<>>
    BY <2>1, RankByScore
  <2> QED
    BY <2>1, <2>2 DEF MatchSet
<1> QED
  BY <1>1, <1>2

\* A move of the order disturbs nothing of the conversation.
LEMMA StateChange ==
  ASSUME NEW s, NEW x \in OrderStates, NEW t, t = [s EXCEPT !.state = x],
         DOMAIN s = SessionFields
  PROVE  /\ Held(s) => Held(t)
         /\ Recorded(s) => Recorded(t)
         /\ Fresh(s) => Fresh(t)
         /\ t.token = s.token /\ t.intent = s.intent /\ t.lastRanking = s.lastRanking
         /\ t.state = x /\ DOMAIN t = SessionFields
<1>1. /\ DOMAIN t = SessionFields /\ t.state = x
      /\ t.intent = s.intent /\ t.intentVersion = s.intentVersion
      /\ t.recommendationVersion = s.recommendationVersion
      /\ t.recommendationIntentVersion = s.recommendationIntentVersion
      /\ t.token = s.token /\ t.lastRanking = s.lastRanking
      /\ t.shownProductIds = s.shownProductIds /\ t.quoteValid = s.quoteValid
      /\ t.envelope = s.envelope /\ t.approved = s.approved
  BY DEF SessionFields
<1>2. \A n : Typed(s, n) => Typed(t, n)
  BY <1>1, Zenon DEF Typed
<1>3. \A n : EnvelopeFits(s, n) => EnvelopeFits(t, n)
  BY <1>1 DEF EnvelopeFits
<1>4. EnvelopeShown(s) => EnvelopeShown(t)
  BY <1>1 DEF EnvelopeShown
<1>5. Held(s) => Held(t)
  BY <1>1, <1>2, <1>3, <1>4, Zenon DEF Held
<1>6. Recorded(s) => Recorded(t)
  BY <1>1, <1>2, <1>3, <1>4, Zenon DEF Recorded
<1> QED
  BY <1>1, <1>5, <1>6 DEF Fresh

\* setState leads to a state.
LEMMA MoveType ==
  ASSUME NEW x \in OrderStates, NEW y \in OrderStates
  PROVE  StateAfter(x, y) \in OrderStates
  BY DEF StateAfter

\* The states the conversation names.
LEMMA NamedStates ==
  {"DRAFT", "CLARIFYING", "QUOTED", "AWAITING_APPROVAL", "APPROVED"} \subseteq OrderStates
  BY DEF OrderStates

\* The same for a move by setState.
LEMMA MoveKeeps ==
  ASSUME NEW s, NEW y \in OrderStates, NEW t, t = Move(s, y),
         DOMAIN s = SessionFields, s.state \in OrderStates
  PROVE  /\ Held(s) => Held(t)
         /\ Recorded(s) => Recorded(t)
         /\ Fresh(s) => Fresh(t)
         /\ t.token = s.token /\ t.intent = s.intent /\ t.lastRanking = s.lastRanking
<1>1. StateAfter(s.state, y) \in OrderStates
  BY MoveType
<1>2. t = [s EXCEPT !.state = StateAfter(s.state, y)]
  BY DEF Move
<1> QED
  BY <1>1, <1>2, StateChange

\* The fields every session in an operation has.
LEMMA SessionShape ==
  ASSUME NEW s, Held(s) \/ Recorded(s) \/ Fresh(s)
  PROVE  DOMAIN s = SessionFields /\ s.state \in OrderStates
  BY DEF Held, Recorded, Fresh, Typed

\* A session without a recommendation and a quote holds nothing.
LEMMA EmptyHeld ==
  ASSUME NEW t, IsSeq(issued), DOMAIN t = SessionFields, t.state \in OrderStates,
         t.intent = NoIntent, t.intentVersion = 0, t.recommendationVersion = 0,
         t.recommendationIntentVersion = None, t.token = None, t.lastRanking = None,
         t.shownProductIds = {}, t.quoteValid = FALSE, t.envelope = None, t.approved = None
  PROVE  Held(t)
<1>1. IsIntent(NoIntent)
  BY DEF IsIntent, NoIntent, Fields
<1>2. Len(issued) \in Nat
  BY AppendFacts
<1>3. 0 \in Nat /\ 0 \in 0..Len(issued)
  BY <1>2
<1>4. Typed(t, Len(issued))
  BY <1>1, <1>3, Zenon DEF Typed
<1> QED
  BY <1>4 DEF Held, EnvelopeFits, EnvelopeShown

\* So is the one that createSession makes, and the one after a restart.
LEMMA RestartHeld ==
  ASSUME IsSeq(issued)
  PROVE  /\ Held(NewSession)
         /\ \A x \in OrderStates : /\ Held([NewSession EXCEPT !.state = x])
                                   /\ [NewSession EXCEPT !.state = x].intent = NoIntent
<1>1. Held(NewSession)
  BY EmptyHeld, NamedStates DEF SessionFields, NewSession
<1>2. ASSUME NEW x \in OrderStates
      PROVE  /\ Held([NewSession EXCEPT !.state = x])
             /\ [NewSession EXCEPT !.state = x].intent = NoIntent
  <2> DEFINE t == [NewSession EXCEPT !.state = x]
  <2>1. /\ DOMAIN t = SessionFields /\ t.state = x
        /\ t.intent = NoIntent /\ t.intentVersion = 0
        /\ t.recommendationVersion = 0 /\ t.recommendationIntentVersion = None
        /\ t.token = None /\ t.lastRanking = None
        /\ t.shownProductIds = {} /\ t.quoteValid = FALSE
        /\ t.envelope = None /\ t.approved = None
    BY DEF SessionFields, NewSession
  <2> HIDE DEF t
  <2>2. Held(t)
    BY <2>1, EmptyHeld
  <2> QED
    BY <2>1, <2>2 DEF t
<1> QED
  BY <1>1, <1>2

\* A new intent is held without the recommendation and the quote of another.
LEMMA WithIntentHeld ==
  ASSUME NEW s, Held(s), NEW i, IsIntent(i), NEW t, t = WithIntent(s, i)
  PROVE  Held(t) /\ t.intent = i /\ t.state = s.state
<1>1. Typed(s, Len(issued)) /\ DOMAIN s = SessionFields
  BY DEF Held, Typed
<1>2. CASE hasIntentChanged(s.intent, i)
  <2> DEFINE u == Withdrawn(s)
  <2>1. /\ DOMAIN u = SessionFields /\ u.state = s.state
        /\ u.intentVersion = s.intentVersion
        /\ u.recommendationVersion = s.recommendationVersion
        /\ u.recommendationIntentVersion = None
        /\ u.token = None /\ u.lastRanking = None
        /\ u.shownProductIds = {} /\ u.quoteValid = FALSE
        /\ u.envelope = None /\ u.approved = None
    BY <1>1 DEF SessionFields, Withdrawn
  <2>2. t = [u EXCEPT !.intent = i, !.intentVersion = u.intentVersion + 1]
    BY <1>2 DEF WithIntent
  <2> HIDE DEF u
  <2>3. /\ DOMAIN t = SessionFields /\ t.state = s.state
        /\ t.intent = i /\ t.intentVersion = s.intentVersion + 1
        /\ t.recommendationVersion = s.recommendationVersion
        /\ t.recommendationIntentVersion = None
        /\ t.token = None /\ t.lastRanking = None
        /\ t.shownProductIds = {} /\ t.quoteValid = FALSE
        /\ t.envelope = None /\ t.approved = None
    BY <2>1, <2>2 DEF SessionFields
  <2>4. s.intentVersion + 1 \in Nat
    BY <1>1 DEF Typed
  <2>5. Typed(t, Len(issued))
    BY <1>1, <2>3, <2>4, Zenon DEF Typed
  <2> QED
    BY <2>3, <2>5 DEF Held, EnvelopeFits, EnvelopeShown
<1>3. CASE ~hasIntentChanged(s.intent, i)
  <2>1. s.intent = i
    BY <1>1, <1>3 DEF Typed, IsIntent, hasIntentChanged
  <2>2. t = [s EXCEPT !.intent = i]
    BY <1>3 DEF WithIntent
  <2>3. t.intent = i
    BY <1>1, <2>2 DEF SessionFields
  <2>4. /\ DOMAIN t = SessionFields /\ t.state = s.state
        /\ t.intent = s.intent /\ t.intentVersion = s.intentVersion
        /\ t.recommendationVersion = s.recommendationVersion
        /\ t.recommendationIntentVersion = s.recommendationIntentVersion
        /\ t.token = s.token /\ t.lastRanking = s.lastRanking
        /\ t.shownProductIds = s.shownProductIds /\ t.quoteValid = s.quoteValid
        /\ t.envelope = s.envelope /\ t.approved = s.approved
    BY <1>1, <2>1, <2>2 DEF SessionFields
  <2>5. Typed(t, Len(issued))
    BY <1>1, <2>4, Zenon DEF Typed
  <2>6. EnvelopeFits(t, Len(issued)) /\ EnvelopeShown(t)
    BY <2>4 DEF Held, EnvelopeFits, EnvelopeShown
  <2> QED
    BY <2>3, <2>4, <2>5, <2>6, Zenon DEF Held
<1> QED
  BY <1>2, <1>3

\* What fits among n recommendations fits among n + 1.
LEMMA EnvelopeFitsMore ==
  ASSUME NEW s, NEW n \in Nat, EnvelopeFits(s, n)
  PROVE  EnvelopeFits(s, n + 1)
<1> SUFFICES ASSUME s.envelope # None
             PROVE  s.envelope.token \in 1..(n + 1) /\ s.envelope.recommendationVersion \in 1..(n + 1)
  BY DEF EnvelopeFits
<1>1. s.envelope.token \in 1..n /\ s.envelope.recommendationVersion \in 1..n
  BY DEF EnvelopeFits
<1> QED
  BY <1>1

\* recordRecommendation ranks for the intent and the day.
LEMMA RecordRecorded ==
  ASSUME NEW s, Held(s), IsSeq(issued), NEW t, t = recordRecommendation(s)
  PROVE  /\ Recorded(t) /\ t.state = s.state /\ t.intent = s.intent
         /\ ~t.lastRanking.ranked => Fresh(t)
<1>1. Typed(s, Len(issued)) /\ DOMAIN s = SessionFields
  BY DEF Held, Typed
<1>2. Len(issued) \in Nat
  BY AppendFacts
<1>3. /\ DOMAIN t = SessionFields /\ t.state = s.state
      /\ t.intent = s.intent /\ t.intentVersion = s.intentVersion
      /\ t.recommendationVersion = s.recommendationVersion + 1
      /\ t.recommendationIntentVersion = s.intentVersion
      /\ t.token = Len(issued) + 1 /\ t.lastRanking = rankProducts(s.intent, day)
      /\ t.shownProductIds = s.shownProductIds /\ t.quoteValid = s.quoteValid
      /\ t.envelope = s.envelope /\ t.approved = s.approved
  BY <1>1 DEF SessionFields, recordRecommendation
<1>4. Typed(t, Len(issued) + 1)
  <2>1. s.intentVersion \in Nat /\ s.recommendationVersion \in 0..Len(issued)
    BY <1>1 DEF Typed
  <2>2. /\ s.recommendationVersion + 1 \in 0..(Len(issued) + 1)
        /\ s.intentVersion \in 0..s.intentVersion /\ Len(issued) + 1 > 0
    BY <1>2, <2>1
  <2>3. rankProducts(s.intent, day) \in RankingResult
    BY RankType
  <2> QED
    BY <1>1, <1>3, <2>2, <2>3, Zenon DEF Typed
<1>5. EnvelopeFits(t, Len(issued) + 1)
  <2>1. EnvelopeFits(s, Len(issued) + 1)
    BY <1>2, EnvelopeFitsMore DEF Held
  <2> QED
    BY <1>3, <2>1 DEF EnvelopeFits
<1>6. EnvelopeShown(t)
  BY <1>3 DEF Held, EnvelopeShown
<1>7. t.recommendationVersion > 0
  BY <1>1, <1>2, <1>3 DEF Typed
<1>8. Recorded(t)
  BY <1>3, <1>4, <1>5, <1>6, <1>7, Zenon DEF Recorded
<1>9. ASSUME ~t.lastRanking.ranked
      PROVE  Fresh(t)
  <2>0. missingHardConstraints(s.intent) # {}
    <3>1. rankProducts(s.intent, day).ranked = (missingHardConstraints(s.intent) = {})
      BY RankByScore
    <3> QED
      BY <1>3, <1>9, <3>1, Zenon
  <2>1. missingHardConstraints(s.intent) # {} /\ t.lastRanking.matches = <<>>
    BY <1>3, <2>0, RankByScore
  <2>2. t.shownProductIds = {}
    BY <1>3, <2>1, MissingShowsNothing
  <2>3. MatchSet(t.lastRanking) = {}
    BY <2>1 DEF MatchSet
  <2> QED
    BY <1>8, <2>2, <2>3 DEF Fresh
<1> QED
  BY <1>3, <1>8, <1>9

\* syncMemory after a new ranking.
LEMMA ShownFresh ==
  ASSUME NEW s, Recorded(s), NEW t, t = Shown(s)
  PROVE  /\ Fresh(t) /\ t.state = s.state /\ t.intent = s.intent
         /\ t.token = s.token /\ t.lastRanking = s.lastRanking
<1>1. Typed(s, Len(issued) + 1) /\ DOMAIN s = SessionFields
  BY DEF Recorded, Typed
<1>2. t = [s EXCEPT !.shownProductIds = MatchSet(s.lastRanking)]
  BY DEF Shown, MatchSet
<1>3. /\ DOMAIN t = SessionFields /\ t.state = s.state
      /\ t.intent = s.intent /\ t.intentVersion = s.intentVersion
      /\ t.recommendationVersion = s.recommendationVersion
      /\ t.recommendationIntentVersion = s.recommendationIntentVersion
      /\ t.token = s.token /\ t.lastRanking = s.lastRanking
      /\ t.shownProductIds = MatchSet(s.lastRanking) /\ t.quoteValid = s.quoteValid
      /\ t.envelope = s.envelope /\ t.approved = s.approved
  BY <1>1, <1>2 DEF SessionFields
<1>4. MatchSet(s.lastRanking) \subseteq Products
  BY MatchProducts DEF Recorded
<1>5. Typed(t, Len(issued) + 1)
  BY <1>1, <1>3, <1>4, Zenon DEF Typed
<1>6. EnvelopeFits(t, Len(issued) + 1) /\ EnvelopeShown(t)
  BY <1>3 DEF Recorded, EnvelopeFits, EnvelopeShown
<1>7. Recorded(t)
  BY <1>3, <1>5, <1>6, Zenon DEF Recorded
<1> QED
  BY <1>3, <1>7 DEF Fresh

\* syncMemory over the recommendation the session holds changes nothing.
LEMMA ShownHeld ==
  ASSUME NEW s, Held(s), s.token # None, NEW t, t = Shown(s)
  PROVE  Held(t) /\ t.token = s.token /\ t.intent = s.intent
<1>1. Typed(s, Len(issued)) /\ DOMAIN s = SessionFields
  BY DEF Held, Typed
<1>2. s.shownProductIds = MatchSet(s.lastRanking)
  BY DEF Held
<1>3. t = [s EXCEPT !.shownProductIds = s.shownProductIds]
  BY <1>2 DEF Shown, MatchSet
<1>4. /\ DOMAIN t = SessionFields /\ t.state = s.state
      /\ t.intent = s.intent /\ t.intentVersion = s.intentVersion
      /\ t.recommendationVersion = s.recommendationVersion
      /\ t.recommendationIntentVersion = s.recommendationIntentVersion
      /\ t.token = s.token /\ t.lastRanking = s.lastRanking
      /\ t.shownProductIds = s.shownProductIds /\ t.quoteValid = s.quoteValid
      /\ t.envelope = s.envelope /\ t.approved = s.approved
  BY <1>1, <1>3 DEF SessionFields
<1>5. Typed(t, Len(issued))
  BY <1>1, <1>4, Zenon DEF Typed
<1>6. EnvelopeFits(t, Len(issued)) /\ EnvelopeShown(t)
  BY <1>4 DEF Held, EnvelopeFits, EnvelopeShown
<1> QED
  BY <1>4, <1>5, <1>6, Zenon DEF Held

\* currentRecommendation keeps the recommendation held or makes a new one.
LEMMA CurrentKept ==
  ASSUME NEW s, Held(s), IsSeq(issued), NEW t, t = currentRecommendation(s)
  PROVE  /\ (t = s /\ s.token # None) \/ Fresh(t)
         /\ t.recommendationVersion > 0 /\ t.token # None
         /\ t.intent = s.intent
<1>1. CASE isCurrentRecommendation(s)
  BY <1>1 DEF currentRecommendation, isCurrentRecommendation
<1>2. CASE ~isCurrentRecommendation(s)
  <2>1. t = Shown(recordRecommendation(s))
    BY <1>2 DEF currentRecommendation
  <2>2. Recorded(recordRecommendation(s)) /\ recordRecommendation(s).intent = s.intent
    BY RecordRecorded
  <2>3. Fresh(t) /\ t.intent = s.intent
    BY <2>1, <2>2, ShownFresh
  <2>4. t.recommendationVersion > 0 /\ t.token = Len(issued) + 1
    BY <2>3 DEF Fresh, Recorded
  <2>5. Len(issued) + 1 \in Nat
    BY AppendFacts
  <2> QED
    BY <2>3, <2>4, <2>5, NoneAssumption
<1> QED
  BY <1>1, <1>2

\* The session with the quote stored, before the move.
Quoted(c, p, b) == [c EXCEPT !.quoteValid = TRUE, !.envelope = Quote(c, p, b)]

\* The quote of a selectable product is fit for approval, and of the
\* shortlist that was presented.
LEMMA QuoteKeeps ==
  ASSUME ConversationInv, NEW p \in Products, NEW b \in Presentable,
         NEW c, NEW n \in {Len(issued), Len(issued) + 1},
         Typed(c, n), EnvelopeShown(c), c.recommendationVersion > 0, c.token # None,
         Held(c) \/ Fresh(c),
         Selectable(c, p, b), quotes < MaxQuotes,
         NEW t, t = Quoted(c, p, b)
  PROVE  /\ Held(c) => Held(t)
         /\ Fresh(c) => Fresh(t)
         /\ t.token = c.token /\ t.state = c.state /\ DOMAIN t = SessionFields
         /\ t.intent = c.intent
<1> DEFINE e == Quote(c, p, b)
<1>1. /\ DOMAIN t = SessionFields /\ t.state = c.state
      /\ t.intent = c.intent /\ t.intentVersion = c.intentVersion
      /\ t.recommendationVersion = c.recommendationVersion
      /\ t.recommendationIntentVersion = c.recommendationIntentVersion
      /\ t.token = c.token /\ t.lastRanking = c.lastRanking
      /\ t.shownProductIds = c.shownProductIds /\ t.quoteValid = TRUE
      /\ t.envelope = e /\ t.approved = c.approved
  BY DEF Typed, SessionFields, Quoted
<1>2. /\ IsSeq(issued) /\ given \subseteq 1..Len(issued) /\ quotes \in 0..MaxQuotes
      /\ day \in 0..LastDay /\ Len(issued) \in Nat /\ MaxQuotes \in Nat
  BY BoundAssumption, AppendFacts DEF ConversationInv, HistoryOK
<1>3. \A m : Typed(c, m) => Typed(t, m)
  BY <1>1, Zenon DEF Typed
<1>4. /\ e.digest = quotes + 1 /\ e.product = p /\ e.token = c.token
      /\ e.intentVersion = c.intentVersion /\ e.recommendationVersion = c.recommendationVersion
      /\ e.intent = c.intent /\ e.day = day /\ e.presented = b
      /\ e = [digest |-> e.digest, product |-> e.product, token |-> e.token,
              intentVersion |-> e.intentVersion, recommendationVersion |-> e.recommendationVersion,
              intent |-> e.intent, day |-> e.day, presented |-> e.presented]
  BY DEF Quote
<1>5. Eligible(p, c.intent, day) /\ ColourMatched(p, c.intent)
  BY DEF Selectable, Eligible
<1> HIDE DEF e
<1>6. n \in Nat
  BY <1>2
<1>7. EnvelopeFits(t, n)
  <2>1. e.digest \in 1..MaxQuotes
    BY <1>2, <1>4
  <2>2. /\ c.token = n /\ n > 0 /\ c.recommendationVersion \in 1..n
        /\ c.intentVersion \in 0..c.intentVersion
    BY <1>6 DEF Typed
  <2>3. n \in 1..n
    BY <1>6, <2>2
  <2> QED
    BY <1>1, <1>2, <1>4, <1>5, <2>1, <2>2, <2>3, Zenon DEF EnvelopeFits
<1>8. EnvelopeShown(t)
  <2> SUFFICES ASSUME b # None
               PROVE  /\ b \in 1..Len(issued) /\ issued[b].intent = c.intent
                      /\ \E k \in DOMAIN issued[b].matches : issued[b].matches[k] = p
    BY <1>1, <1>4 DEF EnvelopeShown
  <2>1. b \in 1..Len(issued) /\ b = c.token
    BY <1>2 DEF Presentable, Selectable, BindingMatches
  <2>2. c.token # Len(issued) + 1
    BY <1>2, <2>1
  <2>3. Held(c)
    BY <2>2 DEF Fresh, Recorded
  <2>4. issued[b].intent = c.intent /\ issued[b].matches = c.lastRanking.matches
    BY <2>1, <2>3 DEF Held
  <2> QED
    BY <2>1, <2>4 DEF Selectable
<1>9. ASSUME Held(c)
      PROVE  Held(t)
  <2>1. n = Len(issued)
    <3>1. c.token \in {Len(issued), None} /\ c.token = n
      BY <1>9 DEF Held, Typed
    <3> QED
      BY <3>1
  <2> QED
    BY <1>1, <1>3, <1>7, <1>8, <1>9, <2>1, Zenon DEF Held
<1>10. ASSUME Fresh(c)
       PROVE  Fresh(t)
  <2>1. c.token = Len(issued) + 1
    BY <1>10 DEF Fresh, Recorded
  <2>2. n = Len(issued) + 1
    BY <2>1 DEF Typed
  <2> QED
    BY <1>1, <1>3, <1>7, <1>8, <1>10, <2>2, Zenon DEF Fresh, Recorded
<1> QED
  BY <1>1, <1>9, <1>10

\* An operation that ends in a session of these kinds keeps the invariant.
LEMMA BecomeKeeps ==
  ASSUME ConversationInv, NEW s, Held(s) \/ Fresh(s), NEW replied,
         replied => s.token # None, Become(s, replied),
         day' \in 0..LastDay, quotes' \in quotes..MaxQuotes
  PROVE  ConversationInv' /\ session'.intent = s.intent
<1>1. /\ IsSeq(issued) /\ given \subseteq 1..Len(issued) /\ quotes \in 0..MaxQuotes
      /\ Len(issued) \in Nat /\ Len(issued) <= MaxRecommendations /\ MaxQuotes \in Nat
  BY BoundAssumption, AppendFacts DEF ConversationInv, HistoryOK
<1> DEFINE r == [intent |-> s.intent, matches |-> s.lastRanking.matches, day |-> day,
                 intentVersion |-> s.intentVersion,
                 recommendationVersion |-> s.recommendationVersion]
<1>2. /\ session' = s /\ s.intentVersion <= MaxVersion
      /\ s.token # None => s.token <= MaxRecommendations
      /\ issued' = IF s.token # Len(issued) + 1 THEN issued ELSE Append(issued, r)
      /\ given' = IF replied THEN given \cup {s.token} ELSE given
  BY DEF Become
<1>3. 1..quotes \subseteq 1..quotes' /\ quotes' \in 0..MaxQuotes
  BY <1>1
<1>4. CASE Held(s)
  <2>1. Typed(s, Len(issued)) /\ issued' = issued
    BY <1>1, <1>2, <1>4, NoneAssumption DEF Held, Typed
  <2>2. Typed(session, Len(issued))'
    BY <1>2, <1>3, <2>1 DEF Typed
  <2>3. EnvelopeFits(session, Len(issued))' /\ EnvelopeShown(session)'
    BY <1>2, <1>4, <2>1 DEF Held, EnvelopeFits, EnvelopeShown
  <2>4. Held(session)'
    BY <1>2, <1>4, <2>1, <2>2, <2>3 DEF Held
  <2>5. given' \subseteq 1..Len(issued)
    <3>1. s.token # None => s.token \in 1..Len(issued)
      BY <1>1, <2>1 DEF Typed
    <3> QED
      BY <1>1, <1>2, <3>1
  <2> QED
    BY <1>1, <1>2, <1>3, <2>1, <2>4, <2>5 DEF ConversationInv, HistoryOK
<1>5. CASE Fresh(s)
  <2>1. s.token = Len(issued) + 1 /\ s.token # None /\ Typed(s, Len(issued) + 1)
    BY <1>1, <1>5, NoneAssumption DEF Fresh, Recorded
  <2>2. issued' = Append(issued, r)
    BY <1>2, <2>1
  <2>3. /\ IsSeq(issued') /\ Len(issued') = Len(issued) + 1 /\ issued'[Len(issued) + 1] = r
        /\ \A k \in 1..Len(issued) : issued'[k] = issued[k]
    BY <1>1, <2>2, AppendFacts
  <2>4. Typed(session, Len(issued))'
    BY <1>2, <1>3, <2>1, <2>3 DEF Typed
  <2>5. EnvelopeFits(session, Len(issued))'
    BY <1>2, <1>5, <2>3 DEF Fresh, Recorded, EnvelopeFits
  <2>6. EnvelopeShown(session)'
    <3> SUFFICES ASSUME s.envelope # None, s.envelope.presented # None
                 PROVE  /\ s.envelope.presented \in 1..Len(issued')
                        /\ issued'[s.envelope.presented] = issued[s.envelope.presented]
      BY <1>2, <1>5 DEF Fresh, Recorded, EnvelopeShown
    <3>1. s.envelope.presented \in 1..Len(issued)
      BY <1>5 DEF Fresh, Recorded, EnvelopeShown
    <3> QED
      BY <1>1, <2>3, <3>1
  <2>7. /\ r.intent = s.intent /\ r.matches = s.lastRanking.matches /\ r.day = day
        /\ s.lastRanking = rankProducts(s.intent, day)
        /\ s.shownProductIds = MatchSet(s.lastRanking)
    BY <1>5 DEF Fresh, Recorded
  <2> HIDE DEF r
  <2>8. Held(session)'
    BY <1>2, <2>1, <2>3, <2>4, <2>5, <2>6, <2>7 DEF Held
  <2>9. given' \subseteq 1..Len(issued') /\ Len(issued') <= MaxRecommendations
    <3>1. 1..Len(issued) \subseteq 1..Len(issued') /\ s.token \in 1..Len(issued')
      BY <1>1, <2>1, <2>3
    <3>2. given' \subseteq 1..Len(issued')
      BY <1>1, <1>2, <3>1
    <3> QED
      BY <1>2, <2>1, <2>3, <3>2
  <2> QED
    BY <1>2, <1>3, <2>3, <2>8, <2>9 DEF ConversationInv, HistoryOK
<1> QED
  BY <1>4, <1>5

---------------------------------------------------------------------------
(* The actions *)

\* handleCheaper and the search record at most one recommendation.
LEMMA SearchKeeps ==
  ASSUME ConversationInv, NEW s, Held(s), NEW invalidated, Search(s, invalidated),
         UNCHANGED <<quotes, day>>
  PROVE  ConversationInv' /\ session'.intent = s.intent
<1>1. /\ IsSeq(issued) /\ day' \in 0..LastDay /\ quotes' \in quotes..MaxQuotes
      /\ Len(issued) + 1 \in Nat
  BY BoundAssumption, AppendFacts DEF ConversationInv, HistoryOK
<1> DEFINE r == recordRecommendation(s)
           stays == s.state = "REAPPROVAL_REQUIRED" \/ (s.state = "AWAITING_APPROVAL" /\ ~invalidated)
           c == IF Moves(s.state, "CLARIFYING") THEN Shown(Move(r, "CLARIFYING")) ELSE r
           q == IF stays THEN r ELSE Move(r, "QUOTED")
<1>2. /\ Recorded(r) /\ DOMAIN r = SessionFields /\ r.state \in OrderStates
      /\ r.intent = s.intent
      /\ ~r.lastRanking.ranked => Fresh(r)
  BY <1>1, RecordRecorded, SessionShape
<1>3. \/ ~r.lastRanking.ranked /\ Become(c, FALSE)
      \/ r.lastRanking.ranked /\ Become(Shown(q), TRUE)
  BY DEF Search
<1> HIDE DEF r
<1>4. /\ Recorded(Move(r, "CLARIFYING")) /\ Recorded(Move(r, "QUOTED"))
      /\ Move(r, "CLARIFYING").intent = s.intent /\ Move(r, "QUOTED").intent = s.intent
  BY <1>2, MoveKeeps, NamedStates
<1>5. CASE ~r.lastRanking.ranked /\ Become(c, FALSE)
  <2>1. Fresh(Shown(Move(r, "CLARIFYING"))) /\ Shown(Move(r, "CLARIFYING")).intent = s.intent
    BY <1>4, ShownFresh
  <2>2. Fresh(c) /\ c.intent = s.intent
    BY <1>2, <1>5, <2>1
  <2> HIDE DEF c
  <2> QED
    BY <1>1, <1>5, <2>2, BecomeKeeps
<1>6. CASE r.lastRanking.ranked /\ Become(Shown(q), TRUE)
  <2>1. Recorded(q) /\ q.intent = s.intent
    BY <1>2, <1>4
  <2> HIDE DEF q
  <2>2. Fresh(Shown(q)) /\ Shown(q).intent = s.intent
    BY <2>1, ShownFresh
  <2>3. Shown(q).token # None
    BY <1>1, <2>2, NoneAssumption DEF Fresh, Recorded
  <2> QED
    BY <1>1, <1>6, <2>2, <2>3, BecomeKeeps
<1> QED
  BY <1>3, <1>5, <1>6

\* Whatever respond does once the intent is updated.
LEMMA RouteKeeps ==
  ASSUME ConversationInv, NEW s, Held(s), NEW action, NEW products, NEW cheaper,
         Route(s, action, products, cheaper), UNCHANGED <<quotes, day>>
  PROVE  ConversationInv' /\ session'.intent \in {s.intent, NoIntent}
<1>1. /\ IsSeq(issued) /\ day' \in 0..LastDay /\ quotes' \in quotes..MaxQuotes
      /\ DOMAIN s = SessionFields /\ s.state \in OrderStates
  BY BoundAssumption, SessionShape DEF ConversationInv, HistoryOK
<1> DEFINE change == hasIntentChanged(session.intent, s.intent)
           invalidated == change /\ session.envelope # None
<1>2. \/ Become([NewSession EXCEPT !.state = s.state], FALSE)
      \/ Become(s, FALSE)
      \/ Become(currentRecommendation(s), TRUE)
      \/ handleCheaper(s, invalidated)
      \/ isCurrentRecommendation(s) /\ Become(Shown(s), TRUE)
      \/ Search(s, invalidated)
  BY DEF Route
<1> HIDE DEF change, invalidated
<1>3. CASE Become([NewSession EXCEPT !.state = s.state], FALSE)
  <2>1. /\ Held([NewSession EXCEPT !.state = s.state])
        /\ [NewSession EXCEPT !.state = s.state].intent = NoIntent
    BY <1>1, RestartHeld
  <2> QED
    BY <1>1, <1>3, <2>1, BecomeKeeps
<1>4. CASE Become(s, FALSE)
  BY <1>1, <1>4, BecomeKeeps
<1>5. CASE Become(currentRecommendation(s), TRUE)
  <2>1. /\ Held(currentRecommendation(s)) \/ Fresh(currentRecommendation(s))
        /\ currentRecommendation(s).token # None /\ currentRecommendation(s).intent = s.intent
    BY <1>1, CurrentKept
  <2> QED
    BY <1>1, <1>5, <2>1, BecomeKeeps
<1>6. CASE handleCheaper(s, invalidated)
  <2> DEFINE u == IF invalidated /\ s.state = "AWAITING_APPROVAL" THEN Move(s, "QUOTED") ELSE s
  <2>1. Become(currentRecommendation(u), FALSE)
    BY <1>6 DEF handleCheaper
  <2>2. Held(Move(s, "QUOTED")) /\ Move(s, "QUOTED").intent = s.intent
    BY <1>1, MoveKeeps, NamedStates
  <2>3. Held(u) /\ u.intent = s.intent
    BY <2>2
  <2> HIDE DEF u
  <2>4. /\ Held(currentRecommendation(u)) \/ Fresh(currentRecommendation(u))
        /\ currentRecommendation(u).intent = s.intent
    BY <1>1, <2>3, CurrentKept
  <2> QED
    BY <1>1, <2>1, <2>4, BecomeKeeps
<1>7. CASE isCurrentRecommendation(s) /\ Become(Shown(s), TRUE)
  <2>1. s.token # None
    BY <1>7 DEF isCurrentRecommendation
  <2>2. Held(Shown(s)) /\ Shown(s).token # None /\ Shown(s).intent = s.intent
    BY <2>1, ShownHeld
  <2> QED
    BY <1>1, <1>7, <2>2, BecomeKeeps
<1>8. CASE Search(s, invalidated)
  BY <1>8, SearchKeeps
<1> QED
  BY <1>2, <1>3, <1>4, <1>5, <1>6, <1>7, <1>8

\* The interpretation that respond applies.
Merged(m, proposal) ==
    LET d == deterministicInterpretation(m, session.intent)
    IN mergeInterpretation(d, IF FromLlm(proposal) THEN proposal ELSE d)

\* respond keeps the invariant, and the intent becomes the one interpreted or,
\* after a restart, none.
LEMMA RespondKeeps ==
  ASSUME ConversationInv, NEW m, NEW proposal, NEW soft, Respond(m, proposal, soft)
  PROVE  /\ ConversationInv'
         /\ \E merged, i : /\ merged = Merged(m, proposal)
                           /\ i = applyInterpretation(session.intent, merged)
                           /\ session'.intent \in
                                {IF FromLlm(proposal) THEN i ELSE Enriched(i, soft), NoIntent}
<1> DEFINE used == FromLlm(proposal)
<1>1. PICK merged, applied, s :
         /\ merged = Merged(m, proposal)
         /\ applied = applyInterpretation(session.intent, merged)
         /\ s = WithIntent(session, IF used THEN applied ELSE Enriched(applied, soft))
         /\ Route(s, merged.action, merged.products, m.cheaper)
  BY DEF Respond, Merged
<1>2. IsIntent(applied) /\ IsIntent(Enriched(applied, soft))
  BY <1>1 DEF IsIntent, applyInterpretation, Enriched
<1>3. IsIntent(IF used THEN applied ELSE Enriched(applied, soft))
  BY <1>2
<1>4. Held(s) /\ s.intent = IF used THEN applied ELSE Enriched(applied, soft)
  BY <1>1, <1>3, WithIntentHeld DEF ConversationInv
<1>5. UNCHANGED <<quotes, day>>
  BY DEF Respond
<1> QED
  BY <1>1, <1>4, <1>5, RouteKeeps

\* The states that intentPatch goes to.
LEMMA PatchTargetType ==
  ASSUME NEW x \in OrderStates, NEW change
  PROVE  PatchTarget(x, change) \in OrderStates
  BY DEF PatchTarget, OrderStates

\* intentPatch keeps the invariant.
LEMMA PatchKeeps ==
  ASSUME ConversationInv, NEW patch, NEW expected, IntentPatch(patch, expected)
  PROVE  ConversationInv' /\ session'.intent = Patched(session.intent, patch)
<1>1. /\ IsSeq(issued) /\ day' \in 0..LastDay /\ quotes' \in quotes..MaxQuotes
      /\ Len(issued) + 1 \in Nat
  BY BoundAssumption, AppendFacts DEF ConversationInv, HistoryOK, IntentPatch
<1> DEFINE s == WithIntent(session, Patched(session.intent, patch))
           u == [s EXCEPT !.state = PatchTarget(s.state, hasIntentChanged(session.intent, s.intent))]
           r == recordRecommendation(u)
           w == Shown(r)
           x == IF ~r.lastRanking.ranked THEN "CLARIFYING"
                ELSE IF w.state = "CLARIFYING" THEN "QUOTED" ELSE w.state
           v == [w EXCEPT !.state = x]
<1>2. Become(v, TRUE)
  BY DEF IntentPatch
<1>3. IsIntent(Patched(session.intent, patch))
  BY DEF IsIntent, Patched
<1>4. Held(s) /\ s.intent = Patched(session.intent, patch)
  BY <1>3, WithIntentHeld DEF ConversationInv
<1> HIDE DEF s
<1>5. DOMAIN s = SessionFields /\ s.state \in OrderStates
  BY <1>4, SessionShape
<1>6. Held(u) /\ u.intent = s.intent
  BY <1>4, <1>5, PatchTargetType, StateChange
<1> HIDE DEF u
<1>7. Recorded(r) /\ r.intent = s.intent
  BY <1>1, <1>6, RecordRecorded
<1>8. Fresh(w) /\ w.intent = s.intent
  BY <1>7, ShownFresh
<1> HIDE DEF w
<1>9. DOMAIN w = SessionFields /\ w.state \in OrderStates
  BY <1>8, SessionShape
<1>10. x \in OrderStates
  BY <1>9, NamedStates
<1> HIDE DEF x
<1>11. Fresh(v) /\ v.intent = w.intent
  BY <1>8, <1>9, <1>10, StateChange
<1> HIDE DEF v
<1>12. v.token # None
  BY <1>1, <1>11, NoneAssumption DEF Fresh, Recorded
<1> QED
  BY <1>1, <1>2, <1>4, <1>8, <1>11, <1>12, BecomeKeeps

\* buildQuote keeps the invariant.
LEMMA BuildQuoteKeeps ==
  ASSUME ConversationInv, NEW p \in Products, NEW b \in Presentable, BuildQuote(p, b)
  PROVE  ConversationInv' /\ session'.intent = session.intent
<1>1. /\ IsSeq(issued) /\ day \in 0..LastDay /\ quotes \in 0..MaxQuotes /\ MaxQuotes \in Nat
      /\ Len(issued) + 1 \in Nat
  BY BoundAssumption, AppendFacts DEF ConversationInv, HistoryOK
<1> DEFINE c == currentRecommendation(session)
           t == Quoted(c, p, b)
           v == Move(t, "AWAITING_APPROVAL")
<1>2. /\ c = session \/ Fresh(c)
      /\ c.recommendationVersion > 0 /\ c.token # None /\ c.intent = session.intent
  BY <1>1, CurrentKept DEF ConversationInv
<1>3. Held(c) \/ Fresh(c)
  BY <1>2 DEF ConversationInv
<1>4. \/ /\ ~Selectable(c, p, b)
         /\ Become(c, TRUE)
         /\ UNCHANGED <<quotes, day>>
      \/ /\ Selectable(c, p, b) /\ quotes < MaxQuotes
         /\ Become(v, Moves(c.state, "AWAITING_APPROVAL"))
         /\ quotes' = quotes + 1
         /\ UNCHANGED day
  BY DEF BuildQuote, Quoted
<1> HIDE DEF c
<1>5. CASE Become(c, TRUE) /\ UNCHANGED <<quotes, day>>
  <2>1. day' \in 0..LastDay /\ quotes' \in quotes..MaxQuotes
    BY <1>1, <1>5
  <2> QED
    BY <1>2, <1>3, <1>5, <2>1, BecomeKeeps
<1>6. CASE /\ Selectable(c, p, b) /\ quotes < MaxQuotes
           /\ Become(v, Moves(c.state, "AWAITING_APPROVAL"))
           /\ quotes' = quotes + 1
           /\ UNCHANGED day
  <2>1. DOMAIN c = SessionFields /\ c.state \in OrderStates
    BY <1>3, SessionShape
  <2>2. /\ Held(c) => Held(t)
        /\ Fresh(c) => Fresh(t)
        /\ t.token = c.token /\ t.state = c.state /\ DOMAIN t = SessionFields
        /\ t.intent = c.intent
    <3>1. ASSUME Held(c)
          PROVE  Typed(c, Len(issued)) /\ EnvelopeShown(c)
      BY <3>1 DEF Held
    <3>2. ASSUME Fresh(c)
          PROVE  Typed(c, Len(issued) + 1) /\ EnvelopeShown(c)
      BY <3>2 DEF Fresh, Recorded
    <3>3. PICK n \in {Len(issued), Len(issued) + 1} : Typed(c, n) /\ EnvelopeShown(c)
      BY <1>3, <3>1, <3>2
    <3>4. \A x : x = Quoted(c, p, b) =>
             /\ Held(c) => Held(x)
             /\ Fresh(c) => Fresh(x)
             /\ x.token = c.token /\ x.state = c.state /\ DOMAIN x = SessionFields
             /\ x.intent = c.intent
      BY <1>2, <1>3, <1>6, <3>3, QuoteKeeps
    <3> QED
      BY <3>4
  <2> HIDE DEF t
  <2>3. (Held(v) \/ Fresh(v)) /\ v.token = c.token /\ v.intent = c.intent
    BY <1>3, <2>1, <2>2, MoveKeeps, NamedStates
  <2> HIDE DEF v
  <2>4. day' \in 0..LastDay /\ quotes' \in quotes..MaxQuotes
    BY <1>1, <1>6
  <2> QED
    BY <1>2, <1>6, <2>3, <2>4, BecomeKeeps
<1> QED
  BY <1>4, <1>5, <1>6

\* approve keeps the invariant.
LEMMA ApproveKeeps ==
  ASSUME ConversationInv, NEW d \in 1..quotes, Approve(d)
  PROVE  ConversationInv' /\ session'.intent = session.intent
<1> DEFINE t == [session EXCEPT !.approved = d]
<1>1. /\ session' = Move(t, "APPROVED")
      /\ UNCHANGED <<issued, given, quotes, day>>
  BY DEF Approve
<1>2. Held(session) /\ Typed(session, Len(issued)) /\ DOMAIN session = SessionFields
  BY DEF ConversationInv, Held, Typed
<1>3. /\ DOMAIN t = SessionFields /\ t.state = session.state
      /\ t.intent = session.intent /\ t.intentVersion = session.intentVersion
      /\ t.recommendationVersion = session.recommendationVersion
      /\ t.recommendationIntentVersion = session.recommendationIntentVersion
      /\ t.token = session.token /\ t.lastRanking = session.lastRanking
      /\ t.shownProductIds = session.shownProductIds /\ t.quoteValid = session.quoteValid
      /\ t.envelope = session.envelope /\ t.approved = d
  BY <1>2 DEF SessionFields
<1> HIDE DEF t
<1>4. Typed(t, Len(issued))
  BY <1>2, <1>3, Zenon DEF Typed
<1>5. EnvelopeFits(t, Len(issued)) /\ EnvelopeShown(t)
  BY <1>2, <1>3 DEF Held, EnvelopeFits, EnvelopeShown
<1>6. Held(t) /\ t.state \in OrderStates
  BY <1>2, <1>3, <1>4, <1>5, Zenon DEF Held, Typed
<1>7. StateAfter(t.state, "APPROVED") \in OrderStates
  BY <1>6, MoveType, NamedStates
<1>8. Held(Move(t, "APPROVED"))
  BY <1>3, <1>6, MoveKeeps, NamedStates
<1>9. /\ Move(t, "APPROVED").intentVersion = session.intentVersion
      /\ Move(t, "APPROVED").intent = session.intent
  BY <1>3 DEF Move, SessionFields
<1>10. Held(session)'
  BY <1>1, <1>8 DEF Held, Typed, EnvelopeFits, EnvelopeShown
<1> QED
  BY <1>1, <1>9, <1>10 DEF ConversationInv, HistoryOK

---------------------------------------------------------------------------
(* Theorems *)

\* The invariant holds throughout, whatever is said, proposed or patched.
THEOREM ConversationInvariant == Spec => []ConversationInv
<1>1. Init => ConversationInv
  <2> SUFFICES ASSUME Init PROVE ConversationInv
    OBVIOUS
  <2>1. session = NewSession /\ issued = <<>> /\ given = {} /\ quotes = 0 /\ day = 0
    BY DEF Init
  <2>2. IsSeq(issued) /\ Len(issued) = 0
    <3>1. <<>> \in Seq({}) /\ Len(<<>>) = 0
      OBVIOUS
    <3> QED
      BY <2>1, <3>1 DEF IsSeq
  <2>4. Held(session)
    BY <2>1, <2>2, RestartHeld
  <2>5. session.intentVersion = 0
    BY <2>1 DEF NewSession
  <2> QED
    BY <2>1, <2>2, <2>4, <2>5, BoundAssumption DEF ConversationInv, HistoryOK
<1>2. ConversationInv /\ [Next]_vars => ConversationInv'
  <2> SUFFICES ASSUME ConversationInv, [Next]_vars
               PROVE  ConversationInv'
    OBVIOUS
  <2>1. ASSUME NEW m \in Messages, NEW proposal \in Proposals, Respond(m, proposal, <<>>)
        PROVE  ConversationInv'
    BY <2>1, RespondKeeps
  <2>2. ASSUME NEW m \in Messages, NEW soft \in Enrichments, Respond(m, None, soft)
        PROVE  ConversationInv'
    BY <2>2, RespondKeeps
  <2>3. ASSUME NEW patch \in Patches, NEW expected \in 0..MaxVersion, IntentPatch(patch, expected)
        PROVE  ConversationInv'
    BY <2>3, PatchKeeps
  <2>4. ASSUME NEW p \in Products, NEW b \in Presentable, BuildQuote(p, b)
        PROVE  ConversationInv'
    BY <2>4, BuildQuoteKeeps
  <2>5. ASSUME NEW d \in 1..quotes, Approve(d)
        PROVE  ConversationInv'
    BY <2>5, ApproveKeeps
  <2>6. CASE NextDay
    <3>1. UNCHANGED <<session, issued, given, quotes>> /\ day' \in 0..LastDay
      BY <2>6, BoundAssumption DEF NextDay, ConversationInv, HistoryOK
    <3>2. Held(session)'
      BY <3>1 DEF ConversationInv, Held, Typed, EnvelopeFits, EnvelopeShown
    <3> QED
      BY <3>1, <3>2 DEF ConversationInv, HistoryOK
  <2>7. CASE UNCHANGED vars
    <3>1. UNCHANGED <<session, issued, given, quotes, day>>
      BY <2>7 DEF vars
    <3>2. Held(session)'
      BY <3>1 DEF ConversationInv, Held, Typed, EnvelopeFits, EnvelopeShown
    <3> QED
      BY <3>1, <3>2 DEF ConversationInv, HistoryOK
  <2> QED
    BY <2>1, <2>2, <2>3, <2>4, <2>5, <2>6, <2>7 DEF Next
<1> QED
  BY <1>1, <1>2, PTL DEF Spec

\* The recommendation that bindings, quotes and approvals are checked against
\* is for the intent of the session, and what can be selected is what it
\* showed: for every conversation.
THEOREM RecommendationIsCurrent == Spec => []CurrentIsOfIntent
<1>1. ConversationInv => CurrentIsOfIntent
  BY DEF ConversationInv, Held, CurrentIsOfIntent, isCurrentRecommendation, MatchSet
<1> QED
  BY <1>1, ConversationInvariant, PTL

\* A quote names a product of the shortlist the client answered to, made for
\* the intent that the quote is for, however late the answer came.
THEOREM QuotesAreAsShown == Spec => []QuotedAsShown
<1>1. ConversationInv => QuotedAsShown
  BY DEF ConversationInv, Held, EnvelopeShown, QuotedAsShown
<1> QED
  BY <1>1, ConversationInvariant, PTL

\* What is or can be approved satisfies the hard constraints of the intent
\* that the session has at that moment.
THEOREM ApprovalFitsIntent == Spec => []ApprovableFitsIntent
<1>1. ConversationInv => ApprovableFitsIntent
  <2> SUFFICES ASSUME ConversationInv, session.envelope # None
               PROVE  /\ session.envelope.intent = session.intent
                      /\ Eligible(session.envelope.product, session.intent, session.envelope.day)
                      /\ ColourMatched(session.envelope.product, session.intent)
    BY DEF ApprovableFitsIntent, Bound
  <2> QED
    BY DEF ConversationInv, Held, EnvelopeFits
<1> QED
  BY <1>1, ConversationInvariant, PTL

\* The shortlist leaves out no eligible product that scores higher than one
\* of its three, and none at all while it has fewer.
THEOREM ShortlistIsOfTheBest == Spec => []ShortlistIsBest
<1>1. ConversationInv => ShortlistIsBest
  <2> SUFFICES ASSUME ConversationInv, isCurrentRecommendation(session), session.lastRanking.ranked,
                      NEW p \in Products \ session.shownProductIds,
                      Eligible(p, issued[session.token].intent, issued[session.token].day)
               PROVE  /\ Cardinality(session.shownProductIds) = 3
                      /\ \A q \in session.shownProductIds :
                            Score(p, issued[session.token].intent, issued[session.token].day)
                              <= Score(q, issued[session.token].intent, issued[session.token].day)
    BY DEF ShortlistIsBest
  <2>1. /\ issued[session.token].intent = session.intent
        /\ session.lastRanking = rankProducts(session.intent, issued[session.token].day)
        /\ session.shownProductIds = MatchSet(session.lastRanking)
    BY DEF ConversationInv, Held, isCurrentRecommendation
  <2> QED
    BY <2>1, RankBest
<1> QED
  BY <1>1, ConversationInvariant, PTL

---------------------------------------------------------------------------
(* Types *)

\* What a field of an intent may hold.
FieldValues ==
    [size |-> SIZES \cup {None}, colour |-> COLOURS \cup {None}, useCase |-> USE_CASES \cup {None},
     maxAmountMinor |-> Nat \cup {None}, mustBeReturnable |-> BOOLEAN \cup {None},
     deliverBy |-> Nat \cup {None}, distanceKm |-> Nat \cup {None},
     fit |-> {"wide", "narrow", "standard", None}, cushioning |-> {"max", "balanced", "minimal", None}]

\* What the parser and the extraction find are values of their fields, and so
\* are the values of the four fields whose range intentPatch does not check.
InputsTyped ==
    /\ \A m \in Messages : \A f \in Fields \cap DOMAIN m.values : m.values[f] \in FieldValues[f]
    /\ \A soft \in Enrichments : \A f \in Fields \cap DOMAIN soft : soft[f] \in FieldValues[f]
    /\ \A patch \in Patches :
         \A f \in {"mustBeReturnable", "distanceKm", "fit", "cushioning"} \cap DOMAIN patch :
            patch[f] \in FieldValues[f] \cup {Clear}

\* The fields, by name.
LEMMA FieldNames ==
  Fields = {"size", "colour", "useCase", "maxAmountMinor", "mustBeReturnable", "deliverBy",
            "distanceKm", "fit", "cushioning"}
  BY DEF Fields, NoIntent

\* An intent is one by its fields.
LEMMA IntentByField ==
  ASSUME NEW i, IsIntent(i), \A f \in Fields : i[f] \in FieldValues[f]
  PROVE  i \in Intent
<1>1. /\ i.size \in SIZES \cup {None} /\ i.colour \in COLOURS \cup {None}
      /\ i.useCase \in USE_CASES \cup {None} /\ i.maxAmountMinor \in Nat \cup {None}
      /\ i.mustBeReturnable \in BOOLEAN \cup {None} /\ i.deliverBy \in Nat \cup {None}
      /\ i.distanceKm \in Nat \cup {None} /\ i.fit \in {"wide", "narrow", "standard", None}
      /\ i.cushioning \in {"max", "balanced", "minimal", None}
  BY FieldNames DEF FieldValues
<1>2. i = [size |-> i.size, colour |-> i.colour, useCase |-> i.useCase,
           maxAmountMinor |-> i.maxAmountMinor, mustBeReturnable |-> i.mustBeReturnable,
           deliverBy |-> i.deliverBy, distanceKm |-> i.distanceKm, fit |-> i.fit,
           cushioning |-> i.cushioning]
  BY FieldNames DEF IsIntent
<1> QED
  BY <1>1, <1>2 DEF Intent

\* And its fields hold values of theirs.
LEMMA FieldsOfIntent ==
  ASSUME NEW i \in Intent, NEW f \in Fields
  PROVE  i[f] \in FieldValues[f]
  BY FieldNames DEF Intent, FieldValues

\* The highest budget is a number.
LEMMA HighestBudgetType == HighestBudget \in Nat
  BY SMT DEF HighestBudget

\* An unset field is allowed, and so is what an LLM may propose.
LEMMA ProposableValues ==
  ASSUME NEW f \in Fields
  PROVE  None \in FieldValues[f] /\ Proposable[f] \subseteq FieldValues[f]
<1>1. None \in FieldValues[f]
  BY FieldNames DEF FieldValues
<1>2. /\ \A v \in Proposable.maxAmountMinor : v \in Nat
      /\ \A v \in Proposable.distanceKm : v \in Nat
  BY HighestBudgetType DEF Proposable
<1>3. /\ Proposable.size = SIZES /\ Proposable.colour = COLOURS /\ Proposable.useCase = USE_CASES
      /\ Proposable.mustBeReturnable = BOOLEAN /\ Proposable.deliverBy = Nat
      /\ Proposable.fit = {"wide", "narrow", "standard"}
      /\ Proposable.cushioning = {"max", "balanced", "minimal"}
  BY DEF Proposable
<1>4. ASSUME NEW v \in Proposable[f]
      PROVE  v \in FieldValues[f]
  BY <1>2, <1>3, FieldNames DEF FieldValues
<1> QED
  BY <1>1, <1>4

\* The empty intent is one.
LEMMA NoIntentType == NoIntent \in Intent
  BY DEF NoIntent, Intent

\* A lowered budget is a budget.
LEMMA ReducedType ==
  ASSUME NEW budget \in Nat
  PROVE  Reduced(budget) \in Nat
<1>1. Rounded(budget * 8, 10) \in Nat
  BY RoundedType, budget * 8 \in Nat, 10 \in Nat
<1> QED
  BY <1>1, SMT DEF Reduced

\* What the parser finds and, if it is used, what the LLM adds are values of
\* their fields.
LEMMA MergedValues ==
  ASSUME InputsTyped, session.intent \in Intent, NEW m \in Messages, NEW proposal,
         NEW f \in Fields, f \in DOMAIN Merged(m, proposal).values
  PROVE  Merged(m, proposal).values[f] \in FieldValues[f]
<1> DEFINE d == deterministicInterpretation(m, session.intent)
           lowers == m.cheaper /\ "maxAmountMinor" \notin m.corrections
           budget == IF session.intent.maxAmountMinor = None THEN 500000 ELSE session.intent.maxAmountMinor
           llm == IF FromLlm(proposal) THEN proposal ELSE d
           D == DOMAIN m.values \cup (IF lowers THEN {"maxAmountMinor"} ELSE {})
<1>1. d.values = [g \in D |-> IF lowers /\ g = "maxAmountMinor" THEN Reduced(budget) ELSE m.values[g]]
  BY SMT DEF deterministicInterpretation
<1>2. Reduced(budget) \in FieldValues["maxAmountMinor"]
  <2>1. budget \in Nat
    BY SMT DEF Intent
  <2> QED
    BY <2>1, ReducedType, SMT DEF FieldValues
<1> HIDE DEF budget
<1>3. ASSUME f \in DOMAIN d.values
      PROVE  d.values[f] \in FieldValues[f]
  <2>1. CASE lowers /\ f = "maxAmountMinor"
    BY <1>1, <1>2, <1>3, <2>1
  <2>2. CASE ~(lowers /\ f = "maxAmountMinor")
    <3>1. f \in DOMAIN m.values /\ d.values[f] = m.values[f]
      BY <1>1, <1>3, <2>2
    <3> QED
      BY <3>1 DEF InputsTyped
  <2> QED
    BY <2>1, <2>2
<1>4. /\ DOMAIN Merged(m, proposal).values = DOMAIN d.values \cup DOMAIN llm.values
      /\ Merged(m, proposal).values[f] = IF f \in DOMAIN d.values THEN d.values[f] ELSE llm.values[f]
  BY DEF Merged, mergeInterpretation
<1> HIDE DEF d
<1>5. CASE f \in DOMAIN d.values
  BY <1>3, <1>4, <1>5
<1>6. CASE f \notin DOMAIN d.values
  <2>1. f \in DOMAIN llm.values /\ llm # d
    BY <1>4, <1>6
  <2>2. FromLlm(proposal) /\ llm = proposal
    BY <2>1
  <2>3. proposal.values[f] \in Proposable[f]
    BY <2>1, <2>2 DEF FromLlm, Valid
  <2> QED
    BY <1>4, <1>6, <2>2, <2>3, ProposableValues
<1> QED
  BY <1>5, <1>6

\* The intent stays one, given typed inputs.
LEMMA IntentStays ==
  ASSUME InputsTyped, ConversationInv, session.intent \in Intent, [Next]_vars
  PROVE  session'.intent \in Intent
<1>1. ASSUME NEW m \in Messages, NEW proposal, NEW soft, soft \in Enrichments \/ soft = <<>>,
             Respond(m, proposal, soft)
      PROVE  session'.intent \in Intent
  <2>1. PICK merged, i : /\ merged = Merged(m, proposal)
                         /\ i = applyInterpretation(session.intent, merged)
                         /\ session'.intent \in
                              {IF FromLlm(proposal) THEN i ELSE Enriched(i, soft), NoIntent}
    BY <1>1, RespondKeeps
  <2>2. ASSUME NEW f \in Fields
        PROVE  i[f] \in FieldValues[f]
    <3>1. /\ i[f] = None \/ i[f] = session.intent[f]
             \/ (f \in DOMAIN merged.values /\ i[f] = merged.values[f])
      BY <2>1 DEF applyInterpretation
    <3> QED
      BY <2>1, <3>1, MergedValues, ProposableValues, FieldsOfIntent
  <2>3. ASSUME NEW f \in Fields
        PROVE  Enriched(i, soft)[f] \in FieldValues[f]
    <3>1. f \in DOMAIN soft => soft[f] \in FieldValues[f]
      BY <1>1 DEF InputsTyped
    <3> QED
      BY <2>2, <3>1 DEF Enriched
  <2>4. IsIntent(i) /\ IsIntent(Enriched(i, soft))
    BY <2>1 DEF IsIntent, applyInterpretation, Enriched
  <2>5. i \in Intent /\ Enriched(i, soft) \in Intent
    BY <2>2, <2>3, <2>4, IntentByField
  <2> QED
    BY <2>1, <2>5, NoIntentType
<1>2. ASSUME NEW patch \in Patches, NEW expected, IntentPatch(patch, expected)
      PROVE  session'.intent \in Intent
  <2> DEFINE i == Patched(session.intent, patch)
  <2>1. session'.intent = i /\ ValidPatch(patch)
    BY <1>2, PatchKeeps DEF IntentPatch
  <2>2. ASSUME NEW f \in Fields
        PROVE  i[f] \in FieldValues[f]
    <3>1. \/ i[f] = None \/ i[f] = session.intent[f]
          \/ (f \in DOMAIN patch /\ patch[f] # Clear /\ i[f] = patch[f])
      BY DEF Patched
    <3>2. ASSUME f \in DOMAIN patch, patch[f] # Clear
          PROVE  patch[f] \in FieldValues[f]
      <4>1. CASE f \in {"mustBeReturnable", "distanceKm", "fit", "cushioning"}
        BY <3>2, <4>1 DEF InputsTyped
      <4>2. CASE f \in {"size", "colour", "useCase", "maxAmountMinor", "deliverBy"}
        <5> DEFINE v == patch[f]
        <5>1. CASE f = "maxAmountMinor"
          <6>1. v \in 1000..HighestBudget
            BY <2>1, <3>2, <5>1 DEF ValidPatch
          <6>2. v \in Nat
            BY <6>1, HighestBudgetType
          <6> QED
            BY <5>1, <6>2 DEF FieldValues
        <5>2. CASE f \in {"size", "colour", "useCase"}
          <6>1. /\ f = "size" => v \in SIZES \cup {Clear}
                /\ f = "colour" => v \in COLOURS
                /\ f = "useCase" => v \in USE_CASES
            BY <2>1, <3>2 DEF ValidPatch
          <6> QED
            BY <3>2, <5>2, <6>1 DEF FieldValues
        <5>3. CASE f = "deliverBy"
          BY <2>1, <3>2, <5>3 DEF ValidPatch
        <5> QED
          BY <4>2, <5>1, <5>2, <5>3
      <4> QED
        BY <4>1, <4>2, FieldNames
    <3> QED
      BY <3>1, <3>2, ProposableValues, FieldsOfIntent
  <2>3. IsIntent(i)
    BY DEF IsIntent, Patched
  <2> HIDE DEF i
  <2> QED
    BY <2>1, <2>2, <2>3, IntentByField
<1>3. ASSUME NEW p \in Products, NEW b \in Presentable, BuildQuote(p, b)
      PROVE  session'.intent \in Intent
  BY <1>3, BuildQuoteKeeps
<1>4. ASSUME NEW d \in 1..quotes, Approve(d)
      PROVE  session'.intent \in Intent
  BY <1>4, ApproveKeeps
<1>5. CASE NextDay
  BY <1>5 DEF NextDay
<1>6. CASE UNCHANGED vars
  BY <1>6 DEF vars
<1> QED
  BY <1>1, <1>2, <1>3, <1>4, <1>5, <1>6 DEF Next

\* Type correctness, when the inputs are typed: intentPatch accepts any string
\* as a fit or a cushioning and any number as a distance, so this is a
\* condition on the client for those.
THEOREM ConversationTypeCorrect ==
  ASSUME InputsTyped
  PROVE  Spec => []ConversationTypeOK
<1> DEFINE Inv == ConversationInv /\ session.intent \in Intent
<1>1. Init => session.intent \in Intent
  BY NoIntentType DEF Init, NewSession
<1>2. Inv /\ [Next]_vars => (session.intent \in Intent)'
  BY IntentStays
<1>3. Inv => ConversationTypeOK
  <2> SUFFICES ASSUME ConversationInv, session.intent \in Intent
               PROVE  ConversationTypeOK
    OBVIOUS
  <2>1. /\ Typed(session, Len(issued)) /\ EnvelopeFits(session, Len(issued)) /\ EnvelopeShown(session)
        /\ IsSeq(issued) /\ Len(issued) <= MaxRecommendations /\ given \subseteq 1..Len(issued)
        /\ day \in 0..LastDay /\ session.intentVersion <= MaxVersion
        /\ Len(issued) \in Nat
    BY AppendFacts DEF ConversationInv, Held, HistoryOK
  <2>2. DOMAIN session = DOMAIN NewSession
    BY <2>1 DEF Typed, SessionFields, NewSession
  <2>3. /\ session.intentVersion \in 0..MaxVersion
        /\ session.recommendationVersion \in 0..MaxRecommendations
        /\ session.recommendationIntentVersion \in 0..MaxVersion \cup {None}
    BY <2>1, BoundAssumption DEF Typed
  <2>4. session.envelope \in Envelope \cup {None}
    <3> SUFFICES ASSUME session.envelope # None PROVE session.envelope \in Envelope
      OBVIOUS
    <3> DEFINE e == session.envelope
    <3>1. /\ e = [digest |-> e.digest, product |-> e.product, token |-> e.token,
                  intentVersion |-> e.intentVersion, recommendationVersion |-> e.recommendationVersion,
                  intent |-> e.intent, day |-> e.day, presented |-> e.presented]
          /\ e.digest \in 1..MaxQuotes /\ e.product \in Products
          /\ e.token \in 1..Len(issued) /\ e.recommendationVersion \in 1..Len(issued)
          /\ e.intentVersion \in 0..session.intentVersion /\ e.day \in 0..LastDay
          /\ e.intent \in Intent
      BY <2>1 DEF EnvelopeFits
    <3>2. e.presented \in 1..Len(issued) \cup {None}
      BY <2>1 DEF EnvelopeShown
    <3> HIDE DEF e
    <3>3. 1..Len(issued) \subseteq Tokens
      BY <2>1, BoundAssumption DEF Tokens
    <3>4. e.intentVersion \in 0..MaxVersion
      BY <2>3, <3>1, BoundAssumption
    <3> QED
      BY <3>1, <3>2, <3>3, <3>4 DEF Envelope, e
  <2> QED
    BY <2>1, <2>2, <2>3, <2>4, Zenon DEF ConversationTypeOK, Typed
<1> QED
  BY <1>1, <1>2, <1>3, ConversationInvariant, PTL DEF Spec
=============================================================================
