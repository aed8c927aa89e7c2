-------------------------- MODULE InventoryProofs ---------------------------
(***************************************************************************)
(* The safety of Inventory for every size of the tables, every seed and    *)
(* every list of admins.                                                   *)
(***************************************************************************)
EXTENDS Inventory, SchemaProofs

-----------------------------------------------------------------------------
(* The inductive invariant.  An admin token must be tied to a live account  *)
(* for the removal of an account to be seen to spare it; the exclusion of a *)
(* second open rental needs the device of the first to be in_use.           *)
IInv ==
  /\ TypeOK
  /\ ReferentialIntegrity
  /\ OpenRentalHoldsItsDevice
  /\ OneOpenRentalPerDevice
  /\ AdminTokensNameTheirAccount

(* The seeded database with its bootstrapped admins is sound. *)
LEMMA InitSound == Init => IInv
<1> SUFFICES ASSUME Init PROVE IInv
  OBVIOUS
<1>1. InitialDatabase \in Database
  <2>1. \A p \in ProfileIds : p <= Len(Admins) => Admins[p] \in Emails
    BY AdminsAreDistinct, BoundsAreNaturals DEF ProfileIds
  <2>2. Seed \in [HardwareIds -> Statuses \cup {None}]
    BY SeedIsIdle DEF Statuses
  <2> QED
    BY <2>1, <2>2 DEF InitialDatabase, Database, Profile, Roles, AdminRole
<1>2. \A k \in RentalIds : db.rentals[k] = None
  BY DEF Init, InitialDatabase
<1>3. DOMAIN db.rentals = RentalIds
  BY DEF Init, InitialDatabase
<1> QED
  BY <1>1, <1>2, <1>3
     DEF Init, IInv, TypeOK, ReferentialIntegrity, OpenRentalHoldsItsDevice,
         OneOpenRentalPerDevice, AdminTokensNameTheirAccount, IsOpen, Rows

(* A login hands out a token of a live account. *)
LEMMA LogInSound ==
  ASSUME IInv, NEW p \in ProfileIds, LogIn(p)
  PROVE  IInv'
<1>1. TokenOf(db, p) \in Token
  BY DEF IInv, TypeOK, Database, LogIn, Live, TokenOf, Token, Profile
<1>2. TokenOf(db, p).id = p
  BY DEF TokenOf
<1> QED
  BY <1>1, <1>2
     DEF IInv, TypeOK, ReferentialIntegrity, OpenRentalHoldsItsDevice,
         OneOpenRentalPerDevice, AdminTokensNameTheirAccount, LogIn, Live,
         TokenOf, IsOpen, Rows

(* A step that leaves the database alone and adds no token. *)
LEMMA ExpireSound ==
  ASSUME IInv, NEW T \in SUBSET tokens, Expire(T) \/ UNCHANGED vars
  PROVE  IInv'
BY DEF IInv, TypeOK, ReferentialIntegrity, OpenRentalHoldsItsDevice,
       OneOpenRentalPerDevice, AdminTokensNameTheirAccount, Expire, vars,
       Live, TokenOf, IsOpen, Rows

(* The tables and the tokens after each operation that changes the database. *)

LEMMA RentEffect ==
  ASSUME IInv, NEW t \in tokens, NEW h \in HardwareIds, Rent(t, h)
  PROVE  \E n \in RentalIds :
           /\ db.rentals[n] = None
           /\ db' \in Database
           /\ db'.hardware = [db.hardware EXCEPT ![h] = "in_use"]
           /\ db'.profiles = db.profiles
           /\ db'.rentals = [db.rentals EXCEPT ![n] =
                [hardware_id |-> h, user_id |-> t.id, returned |-> FALSE]]
           /\ UNCHANGED tokens
<1> DEFINE d == SetStatus(db, h, "in_use")
<1>1. PICK n \in RentalIds : IsNewRowid(db.rentals, n) /\ db' = Rented(db, n, h, t.id)
  BY DEF Rent
<1>2. t.id \in ProfileIds /\ db \in Database /\ "in_use" \in Statuses
  BY DEF IInv, TypeOK, Token, Statuses
<1>3. /\ d \in Database
      /\ d.hardware = [db.hardware EXCEPT ![h] = "in_use"]
      /\ d.profiles = db.profiles
      /\ d.rentals = db.rentals
  BY <1>2, SetStatusEffect
<1>4. /\ db' \in Database
      /\ db'.hardware = [db.hardware EXCEPT ![h] = "in_use"]
      /\ db'.profiles = db.profiles
      /\ db'.rentals = [db.rentals EXCEPT ![n] =
           [hardware_id |-> h, user_id |-> t.id, returned |-> FALSE]]
  BY <1>1, <1>2, <1>3, InsertRentalEffect DEF Rented
<1>5. db.rentals[n] = None
  BY <1>1, <1>2, NewRowidIsFree
<1> QED
  BY <1>4, <1>5 DEF Rent

LEMMA GiveBackEffect ==
  ASSUME IInv, NEW t \in tokens, NEW k \in RentalIds, GiveBack(t, k)
  PROVE  /\ IsOpen(db, k)
         /\ db.rentals[k] \in Rental
         /\ db' \in Database
         /\ db'.hardware =
              [db.hardware EXCEPT ![db.rentals[k].hardware_id] = "available"]
         /\ db'.profiles = db.profiles
         /\ db'.rentals = [db.rentals EXCEPT ![k] =
              [hardware_id |-> db.rentals[k].hardware_id,
               user_id |-> db.rentals[k].user_id, returned |-> TRUE]]
         /\ UNCHANGED tokens
<1> DEFINE h == db.rentals[k].hardware_id
           d == CloseRentalRow(db, k)
<1>1. db \in Database /\ IsOpen(db, k) /\ db.rentals[k] # None
  BY DEF IInv, TypeOK, GiveBack, CanReturn, IsOpen
<1>2. db.rentals[k] \in Rental /\ h \in HardwareIds /\ "available" \in Statuses
  BY <1>1 DEF Database, Rental, Statuses
<1>3. /\ d \in Database
      /\ d.hardware = db.hardware
      /\ d.profiles = db.profiles
      /\ d.rentals = [db.rentals EXCEPT ![k] =
           [hardware_id |-> h, user_id |-> db.rentals[k].user_id, returned |-> TRUE]]
  BY <1>1, CloseRentalRowEffect
<1>4. /\ db' \in Database
      /\ db'.hardware = [db.hardware EXCEPT ![h] = "available"]
      /\ db'.profiles = db.profiles
      /\ db'.rentals = [db.rentals EXCEPT ![k] =
           [hardware_id |-> h, user_id |-> db.rentals[k].user_id, returned |-> TRUE]]
  BY <1>2, <1>3, SetStatusEffect DEF GiveBack, Returned
<1> QED
  BY <1>1, <1>2, <1>4 DEF GiveBack

LEMMA AddDeviceEffect ==
  ASSUME IInv, NEW t \in tokens, AddDevice(t)
  PROVE  \E n \in HardwareIds :
           /\ db.hardware[n] = None
           /\ db' \in Database
           /\ db'.hardware = [db.hardware EXCEPT ![n] = "available"]
           /\ db'.profiles = db.profiles
           /\ db'.rentals = db.rentals
           /\ UNCHANGED tokens
<1>1. PICK n \in HardwareIds : IsNewRowid(db.hardware, n) /\ db' = InsertHardware(db, n)
  BY DEF AddDevice
<1>2. db \in Database /\ "available" \in Statuses
  BY DEF IInv, TypeOK, Statuses
<1>3. InsertHardware(db, n) = SetStatus(db, n, "available")
  BY DEF InsertHardware, SetStatus
<1> QED
  BY <1>1, <1>2, <1>3, SetStatusEffect, NewRowidIsFree DEF AddDevice

LEMMA RemoveDeviceEffect ==
  ASSUME IInv, NEW t \in tokens, NEW h \in HardwareIds, RemoveDevice(t, h)
  PROVE  /\ db' \in Database
         /\ db'.hardware = [db.hardware EXCEPT ![h] = None]
         /\ db'.profiles = db.profiles
         /\ \A k \in RentalIds :
              IF db.rentals[k] # None /\ db.rentals[k].hardware_id = h
                THEN db'.rentals[k] = None ELSE db'.rentals[k] = db.rentals[k]
         /\ UNCHANGED tokens
<1>1. db \in Database /\ db' = DeleteHardwareRow(db, h) /\ UNCHANGED tokens
  BY DEF IInv, TypeOK, RemoveDevice
<1>2. db'.rentals = [k \in RentalIds |->
        IF db.rentals[k] # None /\ db.rentals[k].hardware_id = h
          THEN None ELSE db.rentals[k]]
  BY <1>1, DeleteHardwareRowEffect
<1>3. \A k \in RentalIds :
        IF db.rentals[k] # None /\ db.rentals[k].hardware_id = h
          THEN db'.rentals[k] = None ELSE db'.rentals[k] = db.rentals[k]
  BY <1>2
<1> QED
  BY <1>1, <1>3, DeleteHardwareRowEffect

LEMMA MarkEffect ==
  ASSUME IInv, NEW t \in tokens, NEW op \in {"mark_repair", "mark_available"},
         NEW h \in HardwareIds, Mark(t, op, h)
  PROVE  /\ db.hardware[h] \in {"available", "repair"}
         /\ MarkTo(op) \in {"available", "repair"}
         /\ db' \in Database
         /\ db'.hardware = [db.hardware EXCEPT ![h] = MarkTo(op)]
         /\ db'.profiles = db.profiles
         /\ db'.rentals = db.rentals
         /\ UNCHANGED tokens
<1>1. db \in Database /\ MarkTo(op) \in Statuses
  BY DEF IInv, TypeOK, MarkTo, Statuses
<1> QED
  BY <1>1, SetStatusEffect DEF Mark, CanMark, MarkFrom, MarkTo

LEMMA NewAccountEffect ==
  ASSUME IInv, NEW email \in Emails, NEW role \in Roles, NewAccount(email, role)
  PROVE  \E n \in ProfileIds, profile \in Profile :
           /\ db.profiles[n] = None
           /\ profile # None /\ profile.email = email /\ profile.role = role
           /\ db' \in Database
           /\ db'.hardware = db.hardware
           /\ db'.profiles = [db.profiles EXCEPT ![n] = profile]
           /\ db'.rentals = db.rentals
           /\ UNCHANGED tokens
<1> DEFINE profile == [email |-> email, role |-> role]
<1>1. PICK n \in ProfileIds :
        IsNewRowid(db.profiles, n) /\ db' = InsertProfile(db, n, profile)
  BY DEF NewAccount
<1>2. /\ db \in Database /\ profile \in Profile /\ profile # None
      /\ profile.email = email /\ profile.role = role
  BY NoneIsNoRow DEF IInv, TypeOK, Profile
<1> HIDE DEF profile
<1>3. /\ db.profiles[n] = None /\ db' \in Database /\ db'.hardware = db.hardware
      /\ db'.profiles = [db.profiles EXCEPT ![n] = profile]
      /\ db'.rentals = db.rentals /\ UNCHANGED tokens
  BY <1>1, <1>2, InsertProfileEffect, NewRowidIsFree DEF NewAccount
<1> QED
  BY <1>2, <1>3

LEMMA RemoveAccountEffect ==
  ASSUME IInv, NEW t \in tokens, NEW p \in ProfileIds, RemoveAccount(t, p)
  PROVE  /\ db.profiles[p] # None
         /\ db.profiles[p].role = "employee"
         /\ db' \in Database
         /\ db'.hardware = db.hardware
         /\ db'.profiles = [db.profiles EXCEPT ![p] = None]
         /\ \A k \in RentalIds :
              IF db.rentals[k] # None /\ db.rentals[k].user_id = p
                THEN db'.rentals[k] = None ELSE db'.rentals[k] = db.rentals[k]
         /\ UNCHANGED tokens
<1>1. /\ db \in Database /\ db' = DeleteProfileRow(db, p) /\ UNCHANGED tokens
      /\ db.profiles[p] # None /\ db.profiles[p].role = "employee"
  BY DEF IInv, TypeOK, RemoveAccount, CanRemoveAccount, RemoveMatches
<1>2. db'.rentals = [k \in RentalIds |->
        IF db.rentals[k] # None /\ db.rentals[k].user_id = p
          THEN None ELSE db.rentals[k]]
  BY <1>1, DeleteProfileRowEffect
<1>3. \A k \in RentalIds :
        IF db.rentals[k] # None /\ db.rentals[k].user_id = p
          THEN db'.rentals[k] = None ELSE db'.rentals[k] = db.rentals[k]
  BY <1>2
<1> QED
  BY <1>1, <1>3, DeleteProfileRowEffect

-----------------------------------------------------------------------------
(* Every operation keeps the invariant. *)

(* A rental opens on a device that was available, so on one without an open *)
(* rental.                                                                  *)
LEMMA RentSound ==
  ASSUME IInv, NEW t \in tokens, NEW h \in HardwareIds, Rent(t, h)
  PROVE  IInv'
<1>1. PICK n \in RentalIds :
        /\ db.rentals[n] = None
        /\ db' \in Database
        /\ db'.hardware = [db.hardware EXCEPT ![h] = "in_use"]
        /\ db'.profiles = db.profiles
        /\ db'.rentals = [db.rentals EXCEPT ![n] =
             [hardware_id |-> h, user_id |-> t.id, returned |-> FALSE]]
        /\ UNCHANGED tokens
  BY RentEffect
<1>2. t.id \in ProfileIds /\ db \in Database
  BY DEF IInv, TypeOK, Token
<1>3. \A k \in RentalIds : IsOpen(db, k) => db.rentals[k].hardware_id # h
  BY DEF IInv, OpenRentalHoldsItsDevice, Rent, CanRent, ClaimMatches
<1>4. TypeOK'
  BY <1>1 DEF IInv, TypeOK
<1>5. ReferentialIntegrity'
  BY <1>1, <1>2, NoneIsNoRow
     DEF IInv, ReferentialIntegrity, Database, Rows, Rent, CanRent, Live, Statuses
<1>6. OpenRentalHoldsItsDevice'
  BY <1>1, <1>2 DEF IInv, OpenRentalHoldsItsDevice, Database, IsOpen, Rental
<1>7. OneOpenRentalPerDevice'
  BY <1>1, <1>2, <1>3 DEF IInv, OneOpenRentalPerDevice, Database, IsOpen
<1>8. AdminTokensNameTheirAccount'
  BY <1>1 DEF IInv, AdminTokensNameTheirAccount, Live, TokenOf
<1> QED
  BY <1>4, <1>5, <1>6, <1>7, <1>8 DEF IInv

(* Closing a rental releases its own device, and no other open rental has   *)
(* that device.                                                             *)
LEMMA GiveBackSound ==
  ASSUME IInv, NEW t \in tokens, NEW k \in RentalIds, GiveBack(t, k)
  PROVE  IInv'
<1> DEFINE h == db.rentals[k].hardware_id
<1>1. /\ IsOpen(db, k)
      /\ db' \in Database
      /\ db'.hardware = [db.hardware EXCEPT ![h] = "available"]
      /\ db'.profiles = db.profiles
      /\ db'.rentals = [db.rentals EXCEPT ![k] =
           [hardware_id |-> h, user_id |-> db.rentals[k].user_id, returned |-> TRUE]]
      /\ UNCHANGED tokens
  BY GiveBackEffect
<1>2. db \in Database /\ h \in HardwareIds /\ db.rentals[k] # None
  BY GiveBackEffect DEF IInv, TypeOK, Rental, IsOpen
<1>3. \A j \in RentalIds :
        IsOpen(db, j) /\ j # k => db.rentals[j].hardware_id # h
  BY <1>1 DEF IInv, OneOpenRentalPerDevice
<1>4. db.hardware[h] # None /\ db.profiles[db.rentals[k].user_id] # None
  BY <1>2 DEF IInv, ReferentialIntegrity, Rows, Database
<1> HIDE DEF h
<1>5. TypeOK'
  BY <1>1 DEF IInv, TypeOK
<1>6. ReferentialIntegrity'
  BY <1>1, <1>2, <1>4, NoneIsNoRow
     DEF IInv, ReferentialIntegrity, Database, Rows, Statuses
<1>7. OpenRentalHoldsItsDevice'
  BY <1>1, <1>2, <1>3 DEF IInv, OpenRentalHoldsItsDevice, Database, IsOpen, Rental
<1>8. OneOpenRentalPerDevice'
  BY <1>1, <1>2 DEF IInv, OneOpenRentalPerDevice, Database, IsOpen
<1>9. AdminTokensNameTheirAccount'
  BY <1>1 DEF IInv, AdminTokensNameTheirAccount, Live, TokenOf
<1> QED
  BY <1>5, <1>6, <1>7, <1>8, <1>9 DEF IInv

(* A new device is idle and has no rentals. *)
LEMMA AddDeviceSound ==
  ASSUME IInv, NEW t \in tokens, AddDevice(t)
  PROVE  IInv'
<1>1. PICK n \in HardwareIds :
        /\ db.hardware[n] = None
        /\ db' \in Database
        /\ db'.hardware = [db.hardware EXCEPT ![n] = "available"]
        /\ db'.profiles = db.profiles
        /\ db'.rentals = db.rentals
        /\ UNCHANGED tokens
  BY AddDeviceEffect
<1>2. db \in Database
  BY DEF IInv, TypeOK
<1>3. \A k \in Rows(db.rentals) : db.rentals[k].hardware_id # n
  BY <1>1 DEF IInv, ReferentialIntegrity
<1>4. TypeOK'
  BY <1>1 DEF IInv, TypeOK
<1>5. ReferentialIntegrity'
  BY <1>1, <1>2, <1>3 DEF IInv, ReferentialIntegrity, Database, Rows
<1>6. OpenRentalHoldsItsDevice'
  BY <1>1, <1>2, <1>3 DEF IInv, OpenRentalHoldsItsDevice, Database, Rows, IsOpen
<1>7. OneOpenRentalPerDevice'
  BY <1>1 DEF IInv, OneOpenRentalPerDevice, IsOpen
<1>8. AdminTokensNameTheirAccount'
  BY <1>1 DEF IInv, AdminTokensNameTheirAccount, Live, TokenOf
<1> QED
  BY <1>4, <1>5, <1>6, <1>7, <1>8 DEF IInv

(* The cascade takes every rental of a removed device with it. *)
LEMMA RemoveDeviceSound ==
  ASSUME IInv, NEW t \in tokens, NEW h \in HardwareIds, RemoveDevice(t, h)
  PROVE  IInv'
<1>1. /\ db \in Database /\ db' \in Database
      /\ db'.hardware = [db.hardware EXCEPT ![h] = None]
      /\ db'.profiles = db.profiles
      /\ UNCHANGED tokens
  BY RemoveDeviceEffect DEF IInv, TypeOK
<1>2. \A k \in RentalIds : db'.rentals[k] # None =>
        db'.rentals[k] = db.rentals[k] /\ db.rentals[k].hardware_id # h
  BY RemoveDeviceEffect
<1>3. TypeOK'
  BY <1>1 DEF IInv, TypeOK
<1>4. ReferentialIntegrity'
  BY <1>1, <1>2 DEF IInv, ReferentialIntegrity, Database, Rows
<1>5. OpenRentalHoldsItsDevice'
  BY <1>1, <1>2 DEF IInv, OpenRentalHoldsItsDevice, Database, IsOpen
<1>6. OneOpenRentalPerDevice'
  BY <1>2 DEF IInv, OneOpenRentalPerDevice, IsOpen
<1>7. AdminTokensNameTheirAccount'
  BY <1>1 DEF IInv, AdminTokensNameTheirAccount, Live, TokenOf
<1> QED
  BY <1>3, <1>4, <1>5, <1>6, <1>7 DEF IInv

(* A repair transition starts from a device no open rental holds. *)
LEMMA MarkSound ==
  ASSUME IInv, NEW t \in tokens, NEW op \in {"mark_repair", "mark_available"},
         NEW h \in HardwareIds, Mark(t, op, h)
  PROVE  IInv'
<1>1. /\ db.hardware[h] # "in_use"
      /\ MarkTo(op) \in Statuses
      /\ db \in Database /\ db' \in Database
      /\ db'.hardware = [db.hardware EXCEPT ![h] = MarkTo(op)]
      /\ db'.profiles = db.profiles
      /\ db'.rentals = db.rentals
      /\ UNCHANGED tokens
  BY MarkEffect DEF IInv, TypeOK, Statuses
<1>2. TypeOK'
  BY <1>1 DEF IInv, TypeOK
<1>3. ReferentialIntegrity'
  BY <1>1, NoneIsNoRow DEF IInv, ReferentialIntegrity, Database, Rows
<1>4. OpenRentalHoldsItsDevice'
  BY <1>1 DEF IInv, OpenRentalHoldsItsDevice, Database, IsOpen
<1>5. OneOpenRentalPerDevice'
  BY <1>1 DEF IInv, OneOpenRentalPerDevice, IsOpen
<1>6. AdminTokensNameTheirAccount'
  BY <1>1 DEF IInv, AdminTokensNameTheirAccount, Live, TokenOf
<1> QED
  BY <1>2, <1>3, <1>4, <1>5, <1>6 DEF IInv

(* A new account takes an id without an account, so one that no admin token *)
(* names.                                                                   *)
LEMMA NewAccountSound ==
  ASSUME IInv, NEW email \in Emails, NEW role \in Roles, NewAccount(email, role)
  PROVE  IInv'
<1>1. PICK n \in ProfileIds, profile \in Profile :
        /\ db.profiles[n] = None
        /\ profile # None
        /\ db' \in Database
        /\ db'.hardware = db.hardware
        /\ db'.profiles = [db.profiles EXCEPT ![n] = profile]
        /\ db'.rentals = db.rentals
        /\ UNCHANGED tokens
  BY NewAccountEffect
<1>2. db \in Database
  BY DEF IInv, TypeOK
<1>3. TypeOK'
  BY <1>1 DEF IInv, TypeOK
<1>4. ReferentialIntegrity'
  BY <1>1, <1>2 DEF IInv, ReferentialIntegrity, Database, Rows
<1>5. OpenRentalHoldsItsDevice' /\ OneOpenRentalPerDevice'
  BY <1>1 DEF IInv, OpenRentalHoldsItsDevice, OneOpenRentalPerDevice, IsOpen
<1>6. AdminTokensNameTheirAccount'
  BY <1>1, <1>2 DEF IInv, AdminTokensNameTheirAccount, Live, TokenOf, Database
<1> QED
  BY <1>3, <1>4, <1>5, <1>6 DEF IInv

(* A removed account was an employee's, and its rentals go with it. *)
LEMMA RemoveAccountSound ==
  ASSUME IInv, NEW t \in tokens, NEW p \in ProfileIds, RemoveAccount(t, p)
  PROVE  IInv'
<1>1. /\ db \in Database /\ db' \in Database
      /\ db'.hardware = db.hardware
      /\ db'.profiles = [db.profiles EXCEPT ![p] = None]
      /\ UNCHANGED tokens
  BY RemoveAccountEffect DEF IInv, TypeOK
<1>2. \A k \in RentalIds : db'.rentals[k] # None =>
        db'.rentals[k] = db.rentals[k] /\ db.rentals[k].user_id # p
  BY RemoveAccountEffect
<1>3. TypeOK'
  BY <1>1 DEF IInv, TypeOK
<1>4. ReferentialIntegrity'
  BY <1>1, <1>2 DEF IInv, ReferentialIntegrity, Database, Rows
<1>5. OpenRentalHoldsItsDevice' /\ OneOpenRentalPerDevice'
  BY <1>1, <1>2 DEF IInv, OpenRentalHoldsItsDevice, OneOpenRentalPerDevice, IsOpen
<1>6. \A s \in tokens : s.role = AdminRole => s.id # p
  <2> SUFFICES ASSUME NEW s \in tokens, s.role = AdminRole, s.id = p PROVE FALSE
    OBVIOUS
  <2>1. TokenOf(db, p) = s
    BY DEF IInv, AdminTokensNameTheirAccount
  <2>2. TokenOf(db, p).role = "employee"
    BY RemoveAccountEffect DEF TokenOf
  <2> QED
    BY <2>1, <2>2 DEF AdminRole
<1>7. AdminTokensNameTheirAccount'
  BY <1>1, <1>6
     DEF IInv, TypeOK, Token, AdminTokensNameTheirAccount, Live, TokenOf, Database
<1> QED
  BY <1>3, <1>4, <1>5, <1>7 DEF IInv

(* No operation of the API breaks the invariant. *)
LEMMA NextSound == IInv /\ [Next]_vars => IInv'
<1> SUFFICES ASSUME IInv, [Next]_vars PROVE IInv'
  OBVIOUS
<1>1. CASE UNCHANGED vars
  <2>1. {} \in SUBSET tokens
    OBVIOUS
  <2> QED
    BY <1>1, <2>1, ExpireSound
<1>2. CASE \E p \in ProfileIds : LogIn(p)
  BY <1>2, LogInSound
<1>3. CASE \E T \in SUBSET tokens : Expire(T)
  BY <1>3, ExpireSound
<1>4. CASE \E t \in tokens, h \in HardwareIds : Rent(t, h)
  BY <1>4, RentSound
<1>5. CASE \E t \in tokens, k \in RentalIds : GiveBack(t, k)
  BY <1>5, GiveBackSound
<1>6. CASE \E t \in tokens : AddDevice(t)
  BY <1>6, AddDeviceSound
<1>7. CASE \E t \in tokens, h \in HardwareIds : RemoveDevice(t, h)
  BY <1>7, RemoveDeviceSound
<1>8. CASE \E t \in tokens, op \in {"mark_repair", "mark_available"},
             h \in HardwareIds : Mark(t, op, h)
  BY <1>8, MarkSound
<1>9. CASE \E t \in tokens, email \in Emails, role \in Roles :
             AddAccount(t, email, role)
  BY <1>9, NewAccountSound DEF AddAccount
<1>10. CASE \E t \in tokens, p \in ProfileIds : RemoveAccount(t, p)
  BY <1>10, RemoveAccountSound
<1>11. CASE \E email \in Emails : EnsureAdmin(email)
  BY <1>11, NewAccountSound DEF EnsureAdmin, AdminRole, Roles
<1> QED
  BY <1>1, <1>2, <1>3, <1>4, <1>5, <1>6, <1>7, <1>8, <1>9, <1>10, <1>11 DEF Next

-----------------------------------------------------------------------------
(* What no step does to a device and its history. *)

Orderly == CustodyStep /\ StrandingStep /\ HistoryStep

(* A device with the same open rentals before and after had none opened or  *)
(* closed.                                                                  *)
LEMMA SameOpenRentals ==
  ASSUME NEW g \in HardwareIds, OpenRentals(db', g) = OpenRentals(db, g)
  PROVE  Opened(g) = {} /\ Closed(g) = {}
<1>1. \A k \in OpenRentals(db', g) : IsOpen(db', k)
  BY DEF OpenRentals
<1> QED
  BY <1>1 DEF Opened, Closed

(* A step that touches neither devices nor rentals. *)
LEMMA BystanderOrderly ==
  ASSUME db'.hardware = db.hardware, db'.rentals = db.rentals
  PROVE  Orderly
BY DEF Orderly, CustodyStep, Opened, Closed, StrandingStep, HistoryStep, Held, Stranded,
       OpenRentals, IsOpen

LEMMA RentOrderly ==
  ASSUME IInv, NEW t \in tokens, NEW h \in HardwareIds, Rent(t, h)
  PROVE  Orderly
<1>1. PICK n \in RentalIds :
        /\ db.rentals[n] = None
        /\ db'.hardware = [db.hardware EXCEPT ![h] = "in_use"]
        /\ db'.rentals = [db.rentals EXCEPT ![n] =
             [hardware_id |-> h, user_id |-> t.id, returned |-> FALSE]]
        /\ db' \in Database
  BY RentEffect
<1>2. db \in Database /\ db.hardware[h] = "available"
  BY DEF IInv, TypeOK, Rent, CanRent, ClaimMatches
<1>3. IsOpen(db', n) /\ db'.rentals[n].hardware_id = h /\ ~IsOpen(db, n)
  <2>1. [hardware_id |-> h, user_id |-> t.id, returned |-> FALSE] # None
    BY RentalIsARow DEF IInv, TypeOK, Token
  <2> QED
    BY <1>1, <1>2, <2>1 DEF IsOpen, Database
<1>4. \A k \in RentalIds : k # n =>
        db'.rentals[k] = db.rentals[k] /\ (IsOpen(db', k) <=> IsOpen(db, k))
  BY <1>1, <1>2 DEF IsOpen, Database
<1>5. OpenRentals(db', h) \ OpenRentals(db, h) # {}
  BY <1>3 DEF OpenRentals
<1>6. \A g \in HardwareIds : g # h => OpenRentals(db', g) = OpenRentals(db, g)
  BY <1>3, <1>4 DEF OpenRentals
<1>7. \A g \in HardwareIds : g # h => db'.hardware[g] = db.hardware[g]
  BY <1>1, <1>2 DEF Database
<1>8. db'.hardware[h] = "in_use"
  BY <1>1, <1>2 DEF Database
<1>9. CustodyStep
  <2>1. \A g \in HardwareIds : g # h =>
          Opened(g) = {} /\ Closed(g) = {} /\ (Held(db', g) <=> Held(db, g))
    BY <1>6, <1>7, SameOpenRentals DEF Held
  <2>2. Opened(h) # {} /\ Closed(h) = {}
    BY <1>3, <1>4, <1>5 DEF Opened, Closed, OpenRentals
  <2>3. ~Held(db, h) /\ Held(db', h)
    BY <1>2, <1>8 DEF Held
  <2> QED
    BY <2>1, <2>2, <2>3 DEF CustodyStep
<1>10. StrandingStep
  BY <1>2, <1>5, <1>6, <1>7, <1>8 DEF StrandingStep, Stranded, Held
<1>11. HistoryStep
  BY <1>1, <1>2, <1>4 DEF HistoryStep, Rows, Database
<1> QED
  BY <1>9, <1>10, <1>11 DEF Orderly

LEMMA GiveBackOrderly ==
  ASSUME IInv, NEW t \in tokens, NEW k \in RentalIds, GiveBack(t, k)
  PROVE  Orderly
<1> DEFINE h == db.rentals[k].hardware_id
<1>1. /\ IsOpen(db, k)
      /\ h \in HardwareIds
      /\ db' \in Database
      /\ db'.hardware = [db.hardware EXCEPT ![h] = "available"]
      /\ db'.rentals = [db.rentals EXCEPT ![k] =
           [hardware_id |-> h, user_id |-> db.rentals[k].user_id, returned |-> TRUE]]
  BY GiveBackEffect DEF Rental
<1>2. db \in Database /\ db.hardware[h] = "in_use"
  BY <1>1 DEF IInv, TypeOK, OpenRentalHoldsItsDevice
<1>3. db'.rentals[k].hardware_id = h /\ db'.rentals[k].returned
  BY <1>1, <1>2 DEF Database
<1>4. db'.rentals[k] # None
  <2> DEFINE u == db.rentals[k].user_id
  <2>1. h \in HardwareIds /\ u \in ProfileIds
    BY GiveBackEffect DEF Rental
  <2> HIDE DEF h, u
  <2>2. [hardware_id |-> h, user_id |-> u, returned |-> TRUE] # None
    BY <2>1, RentalIsARow
  <2> QED
    BY <1>1, <1>2, <2>2 DEF Database, h, u
<1>5. k \in OpenRentals(db, h) /\ ~IsOpen(db', k)
  BY <1>1, <1>3 DEF OpenRentals, IsOpen
<1>6. \A j \in RentalIds : j # k => db'.rentals[j] = db.rentals[j]
  BY <1>1, <1>2 DEF Database
<1>7. \A g \in HardwareIds : OpenRentals(db', g) \subseteq OpenRentals(db, g)
  BY <1>5, <1>6 DEF OpenRentals, IsOpen
<1>8. \A g \in HardwareIds : g # h =>
        /\ OpenRentals(db', g) = OpenRentals(db, g)
        /\ db'.hardware[g] = db.hardware[g]
  BY <1>1, <1>2, <1>3, <1>5, <1>6 DEF OpenRentals, IsOpen, Database
<1>9. db'.hardware[h] = "available"
  BY <1>1, <1>2 DEF Database
<1> HIDE DEF h
<1>10. CustodyStep
  <2>1. \A g \in HardwareIds : g # h =>
          Opened(g) = {} /\ Closed(g) = {} /\ (Held(db', g) <=> Held(db, g))
    BY <1>8, SameOpenRentals DEF Held
  <2>2. Opened(h) = {} /\ Closed(h) # {}
    BY <1>1, <1>4, <1>5, <1>7 DEF Opened, Closed
  <2>3. Held(db, h) /\ ~Held(db', h)
    BY <1>2, <1>9 DEF Held
  <2> QED
    BY <2>1, <2>2, <2>3 DEF CustodyStep
<1>11. StrandingStep
  BY <1>2, <1>5, <1>8, <1>9 DEF StrandingStep, Stranded, Held
<1>12. HistoryStep
  BY <1>1, <1>6 DEF HistoryStep, Rows, IsOpen, Database
<1> QED
  BY <1>10, <1>11, <1>12 DEF Orderly

LEMMA AddDeviceOrderly ==
  ASSUME IInv, NEW t \in tokens, AddDevice(t)
  PROVE  Orderly
<1>1. PICK n \in HardwareIds :
        /\ db.hardware[n] = None
        /\ db'.hardware = [db.hardware EXCEPT ![n] = "available"]
        /\ db'.rentals = db.rentals
  BY AddDeviceEffect
<1>2. db \in Database
  BY DEF IInv, TypeOK
<1>3. \A g \in HardwareIds : OpenRentals(db', g) = OpenRentals(db, g)
  BY <1>1 DEF OpenRentals, IsOpen
<1>4. \A g \in HardwareIds : g # n => db'.hardware[g] = db.hardware[g]
  BY <1>1, <1>2 DEF Database
<1>5. db'.hardware[n] = "available" /\ db.hardware[n] # "in_use"
  BY <1>1, <1>2, NoneIsNoRow DEF Database, Statuses
<1>6. HistoryStep
  BY <1>1 DEF HistoryStep
<1> QED
  BY <1>1, <1>3, <1>4, <1>5, <1>6, SameOpenRentals
     DEF Orderly, CustodyStep, StrandingStep, Stranded, Held

LEMMA RemoveDeviceOrderly ==
  ASSUME IInv, NEW t \in tokens, NEW h \in HardwareIds, RemoveDevice(t, h)
  PROVE  Orderly
<1>1. /\ db \in Database
      /\ db'.hardware = [db.hardware EXCEPT ![h] = None]
      /\ \A k \in RentalIds :
           IF db.rentals[k] # None /\ db.rentals[k].hardware_id = h
             THEN db'.rentals[k] = None ELSE db'.rentals[k] = db.rentals[k]
  BY RemoveDeviceEffect DEF IInv, TypeOK
<1>2. db'.hardware[h] = None
  BY <1>1 DEF Database
<1>3. \A g \in HardwareIds : g # h =>
        /\ OpenRentals(db', g) = OpenRentals(db, g)
        /\ db'.hardware[g] = db.hardware[g]
  BY <1>1 DEF OpenRentals, IsOpen, Database
<1>4. ~Stranded(db', h)
  BY <1>2, NoneIsNoRow DEF Stranded, Held, Statuses
<1>5. HistoryStep
  BY <1>1, <1>2 DEF HistoryStep, Rows, Database
<1> QED
  BY <1>2, <1>3, <1>4, <1>5, SameOpenRentals
     DEF Orderly, CustodyStep, StrandingStep, Stranded, Held

LEMMA MarkOrderly ==
  ASSUME IInv, NEW t \in tokens, NEW op \in {"mark_repair", "mark_available"},
         NEW h \in HardwareIds, Mark(t, op, h)
  PROVE  Orderly
<1>1. /\ db.hardware[h] # "in_use" /\ MarkTo(op) # "in_use"
      /\ db'.hardware = [db.hardware EXCEPT ![h] = MarkTo(op)]
      /\ db'.rentals = db.rentals
      /\ db \in Database
  BY MarkEffect DEF IInv, TypeOK
<1>2. \A g \in HardwareIds : OpenRentals(db', g) = OpenRentals(db, g)
  BY <1>1 DEF OpenRentals, IsOpen
<1>3. \A g \in HardwareIds : Held(db', g) <=> Held(db, g)
  BY <1>1 DEF Held, Database
<1>4. HistoryStep
  BY <1>1 DEF HistoryStep
<1> QED
  BY <1>2, <1>3, <1>4, SameOpenRentals
     DEF Orderly, CustodyStep, StrandingStep, Stranded

LEMMA RemoveAccountOrderly ==
  ASSUME IInv, NEW t \in tokens, NEW p \in ProfileIds, RemoveAccount(t, p)
  PROVE  Orderly
<1>1. /\ db \in Database
      /\ db'.hardware = db.hardware
      /\ db'.profiles = [db.profiles EXCEPT ![p] = None]
      /\ db.profiles[p] # None
      /\ \A k \in RentalIds :
           IF db.rentals[k] # None /\ db.rentals[k].user_id = p
             THEN db'.rentals[k] = None ELSE db'.rentals[k] = db.rentals[k]
  BY RemoveAccountEffect DEF IInv, TypeOK
<1>2. db'.profiles[p] = None /\ RemovesAccount
  BY <1>1 DEF Database, RemovesAccount, Live
<1>3. \A g \in HardwareIds : OpenRentals(db', g) \subseteq OpenRentals(db, g)
  BY <1>1 DEF OpenRentals, IsOpen
<1>4. CustodyStep
  <2>1. \A g \in HardwareIds : \A k \in OpenRentals(db, g) :
          db'.rentals[k] # None => IsOpen(db', k)
    BY <1>1 DEF OpenRentals, IsOpen
  <2>2. \A g \in HardwareIds : Opened(g) = {} /\ Closed(g) = {}
    BY <1>3, <2>1 DEF Opened, Closed
  <2> QED
    BY <1>1, <2>2 DEF CustodyStep, Held
<1>5. StrandingStep
  BY <1>1, <1>2, <1>3 DEF StrandingStep, Stranded, Held
<1>6. HistoryStep
  BY <1>1, <1>2 DEF HistoryStep, Rows, Database
<1> QED
  BY <1>4, <1>5, <1>6 DEF Orderly

LEMMA NextOrderly == IInv /\ [Next]_vars => [Orderly]_vars
<1> SUFFICES ASSUME IInv, Next PROVE Orderly \/ UNCHANGED vars
  OBVIOUS
<1>1. CASE \/ \E p \in ProfileIds : LogIn(p)
           \/ \E T \in SUBSET tokens : Expire(T)
  BY <1>1, BystanderOrderly DEF LogIn, Expire
<1>2. CASE \E t \in tokens, h \in HardwareIds : Rent(t, h)
  BY <1>2, RentOrderly
<1>3. CASE \E t \in tokens, k \in RentalIds : GiveBack(t, k)
  BY <1>3, GiveBackOrderly
<1>4. CASE \E t \in tokens : AddDevice(t)
  BY <1>4, AddDeviceOrderly
<1>5. CASE \E t \in tokens, h \in HardwareIds : RemoveDevice(t, h)
  BY <1>5, RemoveDeviceOrderly
<1>6. CASE \E t \in tokens, op \in {"mark_repair", "mark_available"},
             h \in HardwareIds : Mark(t, op, h)
  BY <1>6, MarkOrderly
<1>7. CASE \E t \in tokens, email \in Emails, role \in Roles :
             AddAccount(t, email, role)
  BY <1>7, NewAccountEffect, BystanderOrderly DEF AddAccount
<1>8. CASE \E t \in tokens, p \in ProfileIds : RemoveAccount(t, p)
  BY <1>8, RemoveAccountOrderly
<1>9. CASE \E email \in Emails : EnsureAdmin(email)
  BY <1>9, NewAccountEffect, BystanderOrderly DEF EnsureAdmin, AdminRole, Roles
<1> QED
  BY <1>1, <1>2, <1>3, <1>4, <1>5, <1>6, <1>7, <1>8, <1>9 DEF Next

-----------------------------------------------------------------------------
(* The theorems. *)

(* The inductive invariant holds throughout. *)
THEOREM Invariance == Spec => []IInv
<1> QED
  BY InitSound, NextSound, PTL DEF Spec

(* The tables keep their types. *)
THEOREM TypeCorrect == Spec => []TypeOK
<1>1. IInv => TypeOK
  BY DEF IInv
<1> QED
  BY <1>1, Invariance, PTL

(* No rental is ever left without its device or its account. *)
THEOREM NoOrphans == Spec => []ReferentialIntegrity
<1>1. IInv => ReferentialIntegrity
  BY DEF IInv
<1> QED
  BY <1>1, Invariance, PTL

(* A device with an open rental is in_use, whatever the administrators do. *)
THEOREM RentedMeansInUse == Spec => []OpenRentalHoldsItsDevice
<1>1. IInv => OpenRentalHoldsItsDevice
  BY DEF IInv
<1> QED
  BY <1>1, Invariance, PTL

(* A device is never out on two rentals. *)
THEOREM NoDoubleBooking == Spec => []OneOpenRentalPerDevice
<1>1. IInv => OneOpenRentalPerDevice
  BY DEF IInv
<1> QED
  BY <1>1, Invariance, PTL

(* An admin token is never one for an account that is gone or another's. *)
THEOREM AdminIdentity == Spec => []AdminTokensNameTheirAccount
<1>1. IInv => AdminTokensNameTheirAccount
  BY DEF IInv
<1> QED
  BY <1>1, Invariance, PTL

(* Status and rental of a device that stays move in the same step. *)
THEOREM CustodyIsAtomic == Spec => CustodyMovesTogether
<1>1. IInv /\ [Next]_vars => [CustodyStep]_vars
  BY NextOrderly DEF Orderly
<1> QED
  BY <1>1, Invariance, PTL DEF Spec, CustodyMovesTogether

(* Only the removal of an account strands a device, and only the removal of *)
(* the device ends that.                                                    *)
THEOREM StrandingIsByRemoval == Spec => StrandedByAccountRemovalOnly
<1>1. IInv /\ [Next]_vars => [StrandingStep]_vars
  BY NextOrderly DEF Orderly
<1> QED
  BY <1>1, Invariance, PTL DEF Spec, StrandedByAccountRemovalOnly

(* Returned rentals go only with their device or their account. *)
THEOREM HistoryIsDurable == Spec => HistoryIsKept
<1>1. IInv /\ [Next]_vars => [HistoryStep]_vars
  BY NextOrderly DEF Orderly
<1> QED
  BY <1>1, Invariance, PTL DEF Spec, HistoryIsKept
=============================================================================
