------------------------------- MODULE Schema -------------------------------
(***************************************************************************)
(* The SQLite schema (migrations/001_schema.sql) and the SQL statements    *)
(* of the stores, as operators on a database value.                        *)
(*                                                                         *)
(* Only the columns the properties tell apart are kept: the status of a    *)
(* device, the email and role of an account, and of a rental its two       *)
(* foreign keys and whether returned_at is set.                            *)
(***************************************************************************)
EXTENDS Rowids, FiniteSets

CONSTANTS
  MaxHardware,   \* bound on hardware.id
  MaxProfiles,   \* bound on profiles.id
  MaxRentals,    \* bound on rentals.id
  Emails         \* email addresses an account may have

HardwareIds == 1 .. MaxHardware
ProfileIds  == 1 .. MaxProfiles
RentalIds   == 1 .. MaxRentals

Statuses == {"available", "in_use", "repair"}
Roles    == {"employee", "admin"}

Profile == [email : Emails, role : Roles]
Rental  == [hardware_id : HardwareIds, user_id : ProfileIds, returned : BOOLEAN]

Database ==
  [hardware : [HardwareIds -> Statuses \cup {None}],
   profiles : [ProfileIds -> Profile \cup {None}],
   rentals  : [RentalIds -> Rental \cup {None}]]

ASSUME BoundsAreNaturals ==
  MaxHardware \in Nat /\ MaxProfiles \in Nat /\ MaxRentals \in Nat

ASSUME NoneIsNoRow == None \notin Statuses \cup Profile \cup Rental

-----------------------------------------------------------------------------
IsOpen(db, k) == db.rentals[k] # None /\ ~db.rentals[k].returned

OpenRentals(db, h) ==
  {k \in RentalIds : IsOpen(db, k) /\ db.rentals[k].hardware_id = h}

-----------------------------------------------------------------------------
(* hardware *)

InsertHardware(db, h) == [db EXCEPT !.hardware[h] = "available"]

SetStatus(db, h, status) == [db EXCEPT !.hardware[h] = status]

(* Mutant: the swap without the compare. *)
ClaimIgnoringStatus(db, h) == db.hardware[h] # None

(* The WHERE clause of claimHardwareQuery, the compare-and-swap. *)
ClaimMatches(db, h) == db.hardware[h] = "available"

(* The WHERE clause of releaseHardwareQuery. *)
ReleaseMatches(db, h) == db.hardware[h] = "in_use"

(* Mutant: a WHERE clause copied from releaseHardwareQuery. *)
MarkFromInUse(op) == IF op = "mark_repair" THEN "in_use" ELSE "repair"

(* The status a repair transition starts from: the check in Go and the      *)
(* WHERE clause of the query ask for the same.                              *)
MarkFrom(op) == IF op = "mark_repair" THEN "available" ELSE "repair"

(* Mutant: a status outside the CHECK of the column. *)
MarkToUnknown(op) == IF op = "mark_repair" THEN "repairing" ELSE "available"

(* The status it ends in. *)
MarkTo(op) == IF op = "mark_repair" THEN "repair" ELSE "available"

(* rentals.hardware_id REFERENCES hardware ON DELETE CASCADE *)
DeleteHardwareRow(db, h) ==
  [db EXCEPT
     !.hardware[h] = None,
     !.rentals = [k \in RentalIds |->
        IF db.rentals[k] # None /\ db.rentals[k].hardware_id = h
          THEN None ELSE db.rentals[k]]]

-----------------------------------------------------------------------------
(* rentals *)

(* Mutant: an upsert, ON CONFLICT (hardware_id) DO UPDATE. *)
InsertOrReopenRental(db, k, h, u) ==
  LET earlier == {j \in Rows(db.rentals) : db.rentals[j].hardware_id = h}
      written == IF earlier = {} THEN {k} ELSE earlier IN
  [db EXCEPT !.rentals =
     [j \in RentalIds |->
        IF j \in written THEN [hardware_id |-> h, user_id |-> u, returned |-> FALSE]
                         ELSE db.rentals[j]]]

InsertRental(db, k, h, u) ==
  [db EXCEPT !.rentals[k] =
     [hardware_id |-> h, user_id |-> u, returned |-> FALSE]]

(* What the INSERT is refused for: a foreign key without its row, or the    *)
(* partial unique index rentals_one_active_per_hardware_idx.                *)
RentalViolatesForeignKey(db, h, u) ==
  db.hardware[h] = None \/ db.profiles[u] = None

RentalViolatesUniqueIndex(db, h) == OpenRentals(db, h) # {}

CloseRentalRow(db, k) ==
  [db EXCEPT !.rentals[k] =
     [hardware_id |-> @.hardware_id, user_id |-> @.user_id, returned |-> TRUE]]

-----------------------------------------------------------------------------
(* profiles *)

EmailTaken(db, email) ==
  \E p \in ProfileIds : db.profiles[p] # None /\ db.profiles[p].email = email

InsertProfile(db, p, profile) == [db EXCEPT !.profiles[p] = profile]

(* Mutant: the role is not asked for. *)
RemoveAnyRole(db, p) == db.profiles[p] # None

(* The WHERE clause of deleteQuery. *)
RemoveMatches(db, p) ==
  db.profiles[p] # None /\ db.profiles[p].role = "employee"

(* Mutant: foreign keys are off, as they are by default in SQLite. *)
DeleteProfileOnly(db, p) == [db EXCEPT !.profiles[p] = None]

(* rentals.user_id REFERENCES profiles ON DELETE CASCADE *)
DeleteProfileRow(db, p) ==
  [db EXCEPT
     !.profiles[p] = None,
     !.rentals = [k \in RentalIds |->
        IF db.rentals[k] # None /\ db.rentals[k].user_id = p
          THEN None ELSE db.rentals[k]]]
=============================================================================
