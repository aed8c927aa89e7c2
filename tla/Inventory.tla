----------------------------- MODULE Inventory ------------------------------
(***************************************************************************)
(* What the API promises: every operation on the inventory takes effect at *)
(* one instant, or not at all.  Api.tla is the same system statement by    *)
(* statement, and implements this specification.                           *)
(*                                                                         *)
(* A token is the identity the bearer middleware reads from a JWT: the     *)
(* account it was issued for and the role the account then had.  Nothing   *)
(* is looked up again when a token is used, so it outlives its account.    *)
(***************************************************************************)
EXTENDS Schema, Sequences

CONSTANTS
  Seed,   \* the devices of migrations/002_seed.sql: a status or None per id
  Admins  \* the accounts that exist before the first request (ADMINS)

VARIABLES
  db,     \* the committed database
  tokens  \* the tokens issued and not yet expired

vars == <<db, tokens>>

Token == [id : ProfileIds, email : Emails, role : Roles]

ASSUME SeedIsIdle == Seed \in [HardwareIds -> {"available", "repair", None}]

ASSUME AdminsAreDistinct ==
  /\ Admins \in Seq(Emails)
  /\ Len(Admins) <= MaxProfiles
  /\ \A i, j \in 1 .. Len(Admins) : Admins[i] = Admins[j] => i = j

-----------------------------------------------------------------------------
(* When an operation may succeed. *)

Live(d, p) == d.profiles[p] # None

CanRent(d, u, h) == ClaimMatches(d, h) /\ Live(d, u)

CanReturn(d, u, k) == IsOpen(d, k) /\ d.rentals[k].user_id = u

CanMark(d, op, h) == d.hardware[h] = MarkFrom(op)

CanRemoveAccount(d, u, p) == p # u /\ RemoveMatches(d, p)

TokenOf(d, p) ==
  [id |-> p, email |-> d.profiles[p].email, role |-> d.profiles[p].role]

(* Mutant: the release is forgotten. *)
ReturnedOnlyRow(d, k) == CloseRentalRow(d, k)

(* What returning rental k makes of the database: the row is closed and its *)
(* device released.                                                         *)
Returned(d, k) ==
  SetStatus(CloseRentalRow(d, k), d.rentals[k].hardware_id, "available")

Rented(d, n, h, u) == InsertRental(SetStatus(d, h, "in_use"), n, h, u)

-----------------------------------------------------------------------------
AdminRole == "admin"

(* The seeded devices, the bootstrapped admins, no rentals. *)
InitialDatabase ==
  [hardware |-> Seed,
   profiles |-> [p \in ProfileIds |->
     IF p <= Len(Admins)
       THEN [email |-> Admins[p], role |-> AdminRole] ELSE None],
   rentals  |-> [k \in RentalIds |-> None]]

Init == db = InitialDatabase /\ tokens = {}

(* POST /auth/token *)
LogIn(p) ==
  /\ Live(db, p)
  /\ tokens' = tokens \cup {TokenOf(db, p)}
  /\ UNCHANGED db

(* The expiry a token carries passes, or its holder loses it. *)
Expire(T) ==
  /\ tokens' = tokens \ T
  /\ UNCHANGED db

(* POST /rentals *)
Rent(t, h) ==
  /\ CanRent(db, t.id, h)
  /\ \E n \in RentalIds :
       /\ IsNewRowid(db.rentals, n)
       /\ db' = Rented(db, n, h, t.id)
  /\ UNCHANGED tokens

(* PATCH /rentals/:id/return *)
GiveBack(t, k) ==
  /\ CanReturn(db, t.id, k)
  /\ db' = Returned(db, k)
  /\ UNCHANGED tokens

(* POST /hardware *)
AddDevice(t) ==
  /\ t.role = AdminRole
  /\ \E n \in HardwareIds :
       /\ IsNewRowid(db.hardware, n)
       /\ db' = InsertHardware(db, n)
  /\ UNCHANGED tokens

(* DELETE /hardware/:id *)
RemoveDevice(t, h) ==
  /\ t.role = AdminRole
  /\ db.hardware[h] # None
  /\ db' = DeleteHardwareRow(db, h)
  /\ UNCHANGED tokens

(* PATCH /hardware/:id/repair (mark_repair) and /available (mark_available) *)
Mark(t, op, h) ==
  /\ t.role = AdminRole
  /\ CanMark(db, op, h)
  /\ db' = SetStatus(db, h, MarkTo(op))
  /\ UNCHANGED tokens

NewAccount(email, role) ==
  /\ ~EmailTaken(db, email)
  /\ \E n \in ProfileIds :
       /\ IsNewRowid(db.profiles, n)
       /\ db' = InsertProfile(db, n, [email |-> email, role |-> role])
  /\ UNCHANGED tokens

(* EnsureAdmins, when the process starts with an ADMINS that names an email *)
(* without an account (createAdminIfAbsentQuery).                           *)
EnsureAdmin(email) == NewAccount(email, AdminRole)

(* POST /profiles *)
AddAccount(t, email, role) ==
  /\ t.role = AdminRole
  /\ NewAccount(email, role)

(* DELETE /profiles/:id *)
RemoveAccount(t, p) ==
  /\ t.role = AdminRole
  /\ CanRemoveAccount(db, t.id, p)
  /\ db' = DeleteProfileRow(db, p)
  /\ UNCHANGED tokens

Next ==
  \/ \E email \in Emails : EnsureAdmin(email)
  \/ \E p \in ProfileIds : LogIn(p)
  \/ \E T \in SUBSET tokens : Expire(T)
  \/ \E t \in tokens, h \in HardwareIds : Rent(t, h)
  \/ \E t \in tokens, k \in RentalIds : GiveBack(t, k)
  \/ \E t \in tokens : AddDevice(t)
  \/ \E t \in tokens, h \in HardwareIds : RemoveDevice(t, h)
  \/ \E t \in tokens, op \in {"mark_repair", "mark_available"}, h \in HardwareIds :
       Mark(t, op, h)
  \/ \E t \in tokens, email \in Emails, role \in Roles : AddAccount(t, email, role)
  \/ \E t \in tokens, p \in ProfileIds : RemoveAccount(t, p)

Spec == Init /\ [][Next]_vars

-----------------------------------------------------------------------------
(* Every table holds rows of its schema, and every token names an id. *)
TypeOK ==
  /\ db \in Database
  /\ tokens \in SUBSET Token

(* Every rental, open or returned, has its device and its account: the      *)
(* cascades of both DELETEs leave no orphan.                                *)
ReferentialIntegrity ==
  \A k \in Rows(db.rentals) :
    /\ db.hardware[db.rentals[k].hardware_id] # None
    /\ db.profiles[db.rentals[k].user_id] # None

(* The device of an open rental is in_use, so it can neither be rented to   *)
(* somebody else nor sent to repair, and its return always finds it.        *)
OpenRentalHoldsItsDevice ==
  \A k \in RentalIds :
    IsOpen(db, k) => db.hardware[db.rentals[k].hardware_id] = "in_use"

(* rentals_one_active_per_hardware_idx never has anything to refuse. *)
OneOpenRentalPerDevice ==
  \A j, k \in RentalIds :
    IsOpen(db, j) /\ IsOpen(db, k)
      /\ db.rentals[j].hardware_id = db.rentals[k].hardware_id => j = k

(* An admin token speaks for the admin account it was issued for, although  *)
(* the middleware never looks it up and row ids are given out again.        *)
AdminTokensNameTheirAccount ==
  \A t \in tokens :
    t.role = AdminRole => Live(db, t.id) /\ TokenOf(db, t.id) = t

-----------------------------------------------------------------------------
RemovesAccount == \E p \in ProfileIds : Live(db, p) /\ db'.profiles[p] = None

Held(d, h) == d.hardware[h] = "in_use"

Opened(h) == OpenRentals(db', h) \ OpenRentals(db, h)

Closed(h) == {k \in OpenRentals(db, h) : db'.rentals[k] # None /\ ~IsOpen(db', k)}

(* A device that stays in the inventory becomes in_use in the very step     *)
(* that opens a rental of it, and stops being in_use in the very step that  *)
(* closes it: status and rental never move apart.                           *)
CustodyStep ==
  \A h \in HardwareIds :
    db.hardware[h] # None /\ db'.hardware[h] # None =>
      /\ ~Held(db, h) /\ Held(db', h) <=> Opened(h) # {}
      /\ Held(db, h) /\ ~Held(db', h) <=> Closed(h) # {}

CustodyMovesTogether == [][CustodyStep]_vars

Stranded(d, h) == Held(d, h) /\ OpenRentals(d, h) = {}

(* The one way to a device that is in_use without an open rental is the     *)
(* removal of its renter's account, and the one way out is its own removal. *)
StrandingStep ==
  \A h \in HardwareIds :
    /\ ~Stranded(db, h) /\ Stranded(db', h) => RemovesAccount
    /\ Stranded(db, h) /\ ~Stranded(db', h) => db'.hardware[h] = None

StrandedByAccountRemovalOnly == [][StrandingStep]_vars

(* A returned rental is history: renting the device again, by whomever,     *)
(* never reopens or rewrites it.  It disappears with its device or with its *)
(* account and in no other way; that it does disappear with its account is  *)
(* what the code does and not what its documents say, which is for          *)
(* HistoryBlocksAccountRemoval to show.                                     *)
HistoryStep ==
  \A k \in Rows(db.rentals) :
    db.rentals[k].returned /\ db'.rentals[k] # db.rentals[k] =>
      /\ db'.rentals[k] = None
      /\ \/ db'.hardware[db.rentals[k].hardware_id] = None
         \/ db'.profiles[db.rentals[k].user_id] = None

HistoryIsKept == [][HistoryStep]_vars

(* Status and rental "can never disagree" (README): an in_use device has    *)
(* its open rental.  The code breaks it: removing an account cascades over  *)
(* its open rental and leaves the status behind.                            *)
InUseHasOpenRental ==
  \A h \in HardwareIds : Held(db, h) => OpenRentals(db, h) # {}

(* An account with rental history cannot be removed, says the conflict of   *)
(* profiles.Store.Delete and its test.  The schema cascades instead.        *)
HistoryBlocksAccountRemoval ==
  [][\A k \in Rows(db.rentals) : db'.profiles[db.rentals[k].user_id] # None]_vars
=============================================================================
