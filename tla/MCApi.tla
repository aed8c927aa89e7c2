------------------------------- MODULE MCApi --------------------------------
(* Api with one seeded device and one admin, for a few requests at a time.  *)
EXTENDS Api, TLC

CONSTANTS root, ann, r1, r2, r3

MCEmails == {root, ann}
OneAdmin == <<root>>
MCSeed == [h \in HardwareIds |-> IF h = 1 THEN "available" ELSE None]
TwoRequests == {r1, r2}
Interchangeable == Permutations(TwoRequests)
ThreeRequests == {r1, r2, r3}

AllButList == Ops \ {"list"}
Lending == {"log_in", "rent", "return", "mark_repair", "mark_available",
            "list"}
=============================================================================
