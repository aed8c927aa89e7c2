---------------------------- MODULE MCInventory -----------------------------
(* Inventory with one seeded device, a second to be added, and one admin.   *)
EXTENDS Inventory

CONSTANTS root, ann, bob

MCEmails == {root, ann, bob}
MCAdmins == <<root>>
MCSeed == [h \in HardwareIds |-> IF h = 1 THEN "available" ELSE None]
=============================================================================
