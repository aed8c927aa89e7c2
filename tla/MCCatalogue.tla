---------------------------- MODULE MCCatalogue -----------------------------
(* Catalogue and Search with one seeded device and room for more.           *)
EXTENDS Search

CONSTANTS r1, r2, phone, laptop, blank, m1, m2

MCTexts == {phone, laptop}
OneModel == {m1}
TwoModels == {m1, m2}
OneDimension == {512}
TwoDimensions == {512, 1536}
(* The query phone is the text of one device; blank has no direction, and   *)
(* in Featureless neither has the text laptop.                              *)
Nearest == [q \in {phone, laptop} |-> [t \in MCTexts |-> IF t = q THEN 2 ELSE 1]]
PhoneOrBlank == {phone, blank}
Featureless ==
  [q \in PhoneOrBlank |-> [t \in MCTexts |->
     IF q = phone /\ t = phone THEN 2 ELSE NaN]]
MCShelf == [h \in Ids |-> IF h = 1 THEN phone ELSE None]
OneRequest == {r1}
TwoRequests == {r1, r2}
=============================================================================
