------------------------------ MODULE Ranking ------------------------------
(***************************************************************************)
(* The catalogue and the deterministic ranking of its products for an      *)
(* intent.  Amounts are in paise, ratings in tenths, and days count from   *)
(* the start of the conversation.  A product stands for its position in    *)
(* SHOE_CATALOG; None stands for an unset field.                           *)
(***************************************************************************)
EXTENDS Integers, Sequences, FiniteSets

CONSTANT None

Shoe(useCase, fit, cushioning, colour, price, km, lead, rating, stock9, stock10) ==
    [useCase |-> useCase, fit |-> fit, cushioning |-> cushioning, colour |-> colour,
     priceMinor |-> price, typicalDistanceKm |-> km, returnable |-> TRUE,
     deliveryLeadDays |-> lead, rating |-> rating,
     inStock |-> [size \in {"UK 9", "UK 10"} |-> IF size = "UK 9" THEN stock9 ELSE stock10]]

SHOE_CATALOG ==
    << Shoe("road", "standard", "balanced", {"black"}, 429900, 10, 3, 46, 6, 2),
       Shoe("road", "wide", "max", {"black", "grey"}, 489900, 12, 3, 47, 4, 0),
       Shoe("road", "narrow", "minimal", {"black", "navy"}, 349900, 8, 5, 43, 9, 5),
       Shoe("trail", "standard", "balanced", {"black"}, 459900, 10, 4, 45, 3, 7),
       Shoe("gym", "standard", "balanced", {"black"}, 379900, 5, 3, 44, 5, 8),
       Shoe("casual", "wide", "balanced", {"black", "white"}, 299900, 3, 2, 42, 10, 4) >>

Products == DOMAIN SHOE_CATALOG

---------------------------------------------------------------------------

SIZES == {"UK 6", "UK 7", "UK 8", "UK 9", "UK 10", "UK 11"}
COLOURS == {"black", "white", "grey", "navy", "blue", "red"}
USE_CASES == {"road", "trail", "gym", "casual"}

Intent ==
    [size : SIZES \cup {None}, colour : COLOURS \cup {None}, useCase : USE_CASES \cup {None},
     maxAmountMinor : Nat \cup {None}, mustBeReturnable : BOOLEAN \cup {None},
     deliverBy : Nat \cup {None}, distanceKm : Nat \cup {None},
     fit : {"wide", "narrow", "standard", None}, cushioning : {"max", "balanced", "minimal", None}]

NoIntent ==
    [size |-> None, colour |-> None, useCase |-> None, maxAmountMinor |-> None,
     mustBeReturnable |-> None, deliverBy |-> None, distanceKm |-> None,
     fit |-> None, cushioning |-> None]

Fields == DOMAIN NoIntent

\* The highest budget a chip can set, and the ceiling when none is set.
HighestBudget == 1000000

\* buildPurchaseIntent's ceiling.
Budget(i) == IF i.maxAmountMinor = None THEN HighestBudget ELSE i.maxAmountMinor

missingHardConstraints(i) == {f \in {"size", "useCase"} : i[f] = None}

WithinBudget(p, i) == SHOE_CATALOG[p].priceMinor <= Budget(i)
SizeAvailable(p, i) == i.size \in DOMAIN SHOE_CATALOG[p].inStock
InStock(p, i) == SizeAvailable(p, i) /\ SHOE_CATALOG[p].inStock[i.size] > 0
ColourMatched(p, i) == i.colour \in SHOE_CATALOG[p].colour \cup {None}
Returnable(p, i) == i.mustBeReturnable = TRUE => SHOE_CATALOG[p].returnable
DeliveryMet(p, i, day) == i.deliverBy # None => day + SHOE_CATALOG[p].deliveryLeadDays <= i.deliverBy

\* Another colour is a compromise and no reason for rejection.
Eligible(p, i, day) ==
    WithinBudget(p, i) /\ InStock(p, i) /\ Returnable(p, i) /\ DeliveryMet(p, i, day)

SCORE_WEIGHTS ==
    [useCase |-> 28, fit |-> 14, cushioning |-> 14, distance |-> 10, colour |-> 5, budget |-> 8,
     delivery |-> 7, returnable |-> 5, rating |-> 10]

SCORE_MAXIMUM == 101

Points(cond, weight) == IF cond THEN weight ELSE 0
Rounded(n, d) == (2 * n + d) \div (2 * d)

Distance(p, i) == SHOE_CATALOG[p].typicalDistanceKm - i.distanceKm

\* The raw score of evaluate, normalised to 0..100.
Score(p, i, day) ==
    LET shoe == SHOE_CATALOG[p]
        w == SCORE_WEIGHTS
        raw == Points(shoe.useCase = i.useCase, w.useCase) + Points(shoe.useCase # i.useCase, 12)
             + Points(i.fit \in {None, shoe.fit}, w.fit)
             + Points(i.cushioning \in {None, shoe.cushioning}, w.cushioning)
             + (IF i.distanceKm = None THEN 0 ELSE Points(Distance(p, i) \in -2..2, w.distance))
             + Points(ColourMatched(p, i), w.colour)
             + Points(WithinBudget(p, i), w.budget)
             + Points(DeliveryMet(p, i, day), w.delivery)
             + Points(Returnable(p, i), w.returnable)
             + Rounded(shoe.rating * w.rating, 50)
    IN Rounded(raw * 100, SCORE_MAXIMUM)

\* The three best of the products that have a score, equal scores in
\* catalogue order: the sort is stable.
TopThree(score) ==
    LET Above(p, q) == score[p] > score[q] \/ (score[p] = score[q] /\ p < q)
        place(p) == 1 + Cardinality({q \in DOMAIN score : Above(q, p)}) IN
    [k \in {k \in 1..3 : k <= Cardinality(DOMAIN score)} |->
        CHOOSE p \in DOMAIN score : place(p) = k]

Scores(P, i, day) == [p \in P |-> Score(p, i, day)]
TheOnly(S) == CHOOSE x \in S : TRUE

\* Mutant: ineligible products are dropped from the three best only.
rankThenFilter(i, day) ==
    LET affordable(top) == SelectSeq(top, LAMBDA p : Eligible(p, i, day)) IN
    [ranked |-> missingHardConstraints(i) = {},
     matches |-> IF missingHardConstraints(i) # {} THEN <<>>
                 ELSE TheOnly({affordable(TopThree(score)) : score \in {Scores(Products, i, day)}})]

\* rankProducts evaluates all, keeps the eligible, sorts them and cuts.
rankProducts(i, day) ==
    LET eligible == {p \in Products : Eligible(p, i, day)} IN
    [ranked |-> missingHardConstraints(i) = {},
     matches |-> IF missingHardConstraints(i) # {} THEN <<>>
                 ELSE TheOnly({TopThree(score) : score \in {Scores(eligible, i, day)}})]
=============================================================================
