---------------------------- MODULE SchemaProofs ----------------------------
(***************************************************************************)
(* What each statement of the stores makes of the tables, for every size   *)
(* of them; and that each write keeps a database sound in which the device *)
(* of an open rental is in_use and no other open rental has it.            *)
(***************************************************************************)
EXTENDS Schema, TLAPS

-----------------------------------------------------------------------------
(* What each write of the stores does to the three tables. *)

(* A device row written: nothing else moves. *)
LEMMA SetStatusEffect ==
  ASSUME NEW d \in Database, NEW h \in HardwareIds, NEW s \in Statuses
  PROVE  /\ SetStatus(d, h, s) \in Database
         /\ SetStatus(d, h, s).hardware = [d.hardware EXCEPT ![h] = s]
         /\ SetStatus(d, h, s).profiles = d.profiles
         /\ SetStatus(d, h, s).rentals = d.rentals
BY DEF SetStatus, Database

(* A rental row inserted: it is open and names its device and account. *)
LEMMA InsertRentalEffect ==
  ASSUME NEW d \in Database, NEW k \in RentalIds,
         NEW h \in HardwareIds, NEW u \in ProfileIds
  PROVE  /\ InsertRental(d, k, h, u) \in Database
         /\ InsertRental(d, k, h, u).hardware = d.hardware
         /\ InsertRental(d, k, h, u).profiles = d.profiles
         /\ InsertRental(d, k, h, u).rentals =
              [d.rentals EXCEPT ![k] =
                 [hardware_id |-> h, user_id |-> u, returned |-> FALSE]]
BY DEF InsertRental, Database, Rental

(* A rental row closed: the row keeps its device and account. *)
LEMMA CloseRentalRowEffect ==
  ASSUME NEW d \in Database, NEW k \in RentalIds, d.rentals[k] # None
  PROVE  /\ CloseRentalRow(d, k) \in Database
         /\ CloseRentalRow(d, k).hardware = d.hardware
         /\ CloseRentalRow(d, k).profiles = d.profiles
         /\ CloseRentalRow(d, k).rentals =
              [d.rentals EXCEPT ![k] =
                 [hardware_id |-> d.rentals[k].hardware_id,
                  user_id |-> d.rentals[k].user_id, returned |-> TRUE]]
<1>1. d.rentals[k] \in Rental
  BY DEF Database
<1> QED
  BY <1>1 DEF CloseRentalRow, Database, Rental

(* A device row deleted: exactly its rentals go with it. *)
LEMMA DeleteHardwareRowEffect ==
  ASSUME NEW d \in Database, NEW h \in HardwareIds
  PROVE  /\ DeleteHardwareRow(d, h) \in Database
         /\ DeleteHardwareRow(d, h).hardware = [d.hardware EXCEPT ![h] = None]
         /\ DeleteHardwareRow(d, h).profiles = d.profiles
         /\ DeleteHardwareRow(d, h).rentals =
              [k \in RentalIds |->
                 IF d.rentals[k] # None /\ d.rentals[k].hardware_id = h
                   THEN None ELSE d.rentals[k]]
BY DEF DeleteHardwareRow, Database

(* An account row deleted: exactly its rentals go with it. *)
LEMMA DeleteProfileRowEffect ==
  ASSUME NEW d \in Database, NEW p \in ProfileIds
  PROVE  /\ DeleteProfileRow(d, p) \in Database
         /\ DeleteProfileRow(d, p).hardware = d.hardware
         /\ DeleteProfileRow(d, p).profiles = [d.profiles EXCEPT ![p] = None]
         /\ DeleteProfileRow(d, p).rentals =
              [k \in RentalIds |->
                 IF d.rentals[k] # None /\ d.rentals[k].user_id = p
                   THEN None ELSE d.rentals[k]]
BY DEF DeleteProfileRow, Database

(* An account row inserted. *)
LEMMA InsertProfileEffect ==
  ASSUME NEW d \in Database, NEW p \in ProfileIds, NEW profile \in Profile
  PROVE  /\ InsertProfile(d, p, profile) \in Database
         /\ InsertProfile(d, p, profile).hardware = d.hardware
         /\ InsertProfile(d, p, profile).profiles =
              [d.profiles EXCEPT ![p] = profile]
         /\ InsertProfile(d, p, profile).rentals = d.rentals
BY DEF InsertProfile, Database

(* A rental row is a row. *)
LEMMA RentalIsARow ==
  ASSUME NEW h \in HardwareIds, NEW u \in ProfileIds, NEW b \in BOOLEAN
  PROVE  [hardware_id |-> h, user_id |-> u, returned |-> b] # None
<1>1. [hardware_id |-> h, user_id |-> u, returned |-> b] \in Rental
  BY DEF Rental
<1> QED
  BY <1>1, NoneIsNoRow

(* A new row id has no row. *)
LEMMA NewRowidIsFree ==
  ASSUME NEW d \in Database
  PROVE  /\ \A n \in HardwareIds : IsNewRowid(d.hardware, n) => d.hardware[n] = None
         /\ \A n \in ProfileIds : IsNewRowid(d.profiles, n) => d.profiles[n] = None
         /\ \A n \in RentalIds : IsNewRowid(d.rentals, n) => d.rentals[n] = None
BY BoundsAreNaturals
   DEF IsNewRowid, Rows, Database, HardwareIds, ProfileIds, RentalIds

-----------------------------------------------------------------------------
(* The device of an open rental is in_use, and no other open rental has it. *)
Sound(d) ==
  /\ d \in Database
  /\ \A k \in RentalIds :
       IsOpen(d, k) => d.hardware[d.rentals[k].hardware_id] = "in_use"
  /\ \A j, k \in RentalIds :
       IsOpen(d, j) /\ IsOpen(d, k)
         /\ d.rentals[j].hardware_id = d.rentals[k].hardware_id => j = k

(* Renting an available device keeps a database sound, and the row is an    *)
(* open rental of it.                                                       *)
LEMMA RentingIsSound ==
  ASSUME NEW d, Sound(d), NEW h \in HardwareIds, NEW u \in ProfileIds,
         NEW n \in RentalIds, ClaimMatches(d, h), IsNewRowid(d.rentals, n),
         NEW w, w = InsertRental(SetStatus(d, h, "in_use"), n, h, u)
  PROVE  /\ Sound(w)
         /\ w.hardware[h] = "in_use"
         /\ n \in OpenRentals(w, h) /\ w.rentals[n].user_id = u
<1>1. d \in Database /\ d.hardware[h] = "available" /\ "in_use" \in Statuses
  BY DEF Sound, ClaimMatches, Statuses
<1>2. /\ SetStatus(d, h, "in_use") \in Database
      /\ SetStatus(d, h, "in_use").hardware = [d.hardware EXCEPT ![h] = "in_use"]
      /\ SetStatus(d, h, "in_use").rentals = d.rentals
  BY <1>1, SetStatusEffect
<1>3. /\ w \in Database
      /\ w.hardware = [d.hardware EXCEPT ![h] = "in_use"]
      /\ w.rentals = [d.rentals EXCEPT ![n] =
           [hardware_id |-> h, user_id |-> u, returned |-> FALSE]]
  BY <1>2, InsertRentalEffect
<1>4. [hardware_id |-> h, user_id |-> u, returned |-> FALSE] # None
  BY RentalIsARow
<1>5. /\ IsOpen(w, n) /\ w.rentals[n].hardware_id = h /\ w.rentals[n].user_id = u
      /\ w.hardware[h] = "in_use"
  BY <1>1, <1>3, <1>4 DEF IsOpen, Database
<1>6. \A k \in RentalIds : k # n =>
        w.rentals[k] = d.rentals[k] /\ (IsOpen(w, k) <=> IsOpen(d, k))
  BY <1>1, <1>3 DEF IsOpen, Database
<1>7. \A k \in RentalIds : IsOpen(d, k) => d.rentals[k].hardware_id # h
  BY <1>1 DEF Sound
<1>8. \A k \in RentalIds : IsOpen(w, k) => w.hardware[w.rentals[k].hardware_id] = "in_use"
  <2> SUFFICES ASSUME NEW k \in RentalIds, IsOpen(w, k), k # n
               PROVE  w.hardware[w.rentals[k].hardware_id] = "in_use"
    BY <1>5
  <2>1. d.rentals[k] \in Rental /\ d.hardware[d.rentals[k].hardware_id] = "in_use"
    BY <1>1, <1>6 DEF Sound, IsOpen, Database
  <2> QED
    BY <1>1, <1>3, <1>6, <2>1 DEF Database, Rental
<1>9. \A j, k \in RentalIds :
        IsOpen(w, j) /\ IsOpen(w, k)
          /\ w.rentals[j].hardware_id = w.rentals[k].hardware_id => j = k
  BY <1>5, <1>6, <1>7 DEF Sound
<1> QED
  BY <1>3, <1>5, <1>8, <1>9 DEF Sound, OpenRentals

(* Closing an open rental and releasing its device keeps a database sound.  *)
LEMMA ReturningIsSound ==
  ASSUME NEW d, Sound(d), NEW k \in RentalIds, IsOpen(d, k),
         NEW w, w = SetStatus(CloseRentalRow(d, k), d.rentals[k].hardware_id, "available")
  PROVE  /\ Sound(w)
         /\ w.rentals[k] # None /\ ~IsOpen(w, k)
<1> DEFINE h == d.rentals[k].hardware_id
           u == d.rentals[k].user_id
           c == CloseRentalRow(d, k)
<1>1. /\ d \in Database /\ d.rentals[k] # None /\ "available" \in Statuses
  BY DEF Sound, IsOpen, Statuses
<1>2. d.rentals[k] \in Rental /\ h \in HardwareIds /\ u \in ProfileIds
  BY <1>1 DEF Database, Rental
<1>3. /\ c \in Database
      /\ c.hardware = d.hardware
      /\ c.rentals = [d.rentals EXCEPT ![k] =
           [hardware_id |-> h, user_id |-> u, returned |-> TRUE]]
  BY <1>1, CloseRentalRowEffect
<1> HIDE DEF c
<1>4. /\ w \in Database
      /\ w.hardware = [d.hardware EXCEPT ![h] = "available"]
      /\ w.rentals = [d.rentals EXCEPT ![k] =
           [hardware_id |-> h, user_id |-> u, returned |-> TRUE]]
  BY <1>1, <1>2, <1>3, SetStatusEffect DEF c
<1>5. \A j \in RentalIds : IsOpen(d, j) /\ j # k => d.rentals[j].hardware_id # h
  BY DEF Sound
<1> HIDE DEF h, u
<1>6. [hardware_id |-> h, user_id |-> u, returned |-> TRUE] # None
  BY <1>2, RentalIsARow
<1>7. w.rentals[k] # None /\ ~IsOpen(w, k)
  BY <1>1, <1>4, <1>6 DEF IsOpen, Database
<1>8. \A j \in RentalIds : j # k =>
        w.rentals[j] = d.rentals[j] /\ (IsOpen(w, j) <=> IsOpen(d, j))
  BY <1>1, <1>4 DEF IsOpen, Database
<1>9. \A j \in RentalIds : IsOpen(w, j) => w.hardware[w.rentals[j].hardware_id] = "in_use"
  <2> SUFFICES ASSUME NEW j \in RentalIds, IsOpen(w, j), j # k
               PROVE  w.hardware[w.rentals[j].hardware_id] = "in_use"
    BY <1>7
  <2>1. /\ d.rentals[j] \in Rental /\ d.rentals[j].hardware_id # h
        /\ d.hardware[d.rentals[j].hardware_id] = "in_use"
    BY <1>1, <1>5, <1>8 DEF Sound, IsOpen, Database
  <2> QED
    BY <1>1, <1>2, <1>4, <1>8, <2>1 DEF Database, Rental
<1> QED
  BY <1>4, <1>7, <1>8, <1>9 DEF Sound

(* A device that no open rental holds may change its status. *)
LEMMA MarkingIsSound ==
  ASSUME NEW d, Sound(d), NEW h \in HardwareIds, NEW s \in Statuses,
         d.hardware[h] # "in_use", NEW w, w = SetStatus(d, h, s)
  PROVE  Sound(w) /\ w.hardware[h] = s
<1>1. /\ d \in Database
      /\ w \in Database
      /\ w.hardware = [d.hardware EXCEPT ![h] = s]
      /\ w.rentals = d.rentals
  BY SetStatusEffect DEF Sound
<1>2. \A k \in RentalIds : IsOpen(w, k) =>
        IsOpen(d, k) /\ d.rentals[k] \in Rental /\ d.rentals[k].hardware_id # h
  BY <1>1 DEF Sound, IsOpen, Database
<1>3. \A k \in RentalIds : IsOpen(w, k) => w.hardware[w.rentals[k].hardware_id] = "in_use"
  BY <1>1, <1>2 DEF Sound, Database, Rental
<1> QED
  BY <1>1, <1>2, <1>3 DEF Sound, Database

(* Both cascades keep a database sound. *)
LEMMA RemovingIsSound ==
  ASSUME NEW d, Sound(d), NEW w \in Database,
         \A k \in RentalIds : w.rentals[k] # None =>
           /\ w.rentals[k] = d.rentals[k]
           /\ w.hardware[d.rentals[k].hardware_id] = d.hardware[d.rentals[k].hardware_id]
  PROVE  Sound(w)
<1>1. \A k \in RentalIds : IsOpen(w, k) =>
        /\ IsOpen(d, k) /\ w.rentals[k] = d.rentals[k]
        /\ w.hardware[w.rentals[k].hardware_id] = "in_use"
  BY DEF Sound, IsOpen
<1> QED
  BY <1>1 DEF Sound

LEMMA RemovingADeviceIsSound ==
  ASSUME NEW d, Sound(d), NEW h \in HardwareIds, NEW w, w = DeleteHardwareRow(d, h)
  PROVE  Sound(w) /\ w.hardware[h] = None
<1>1. /\ d \in Database
      /\ w \in Database
      /\ w.hardware = [d.hardware EXCEPT ![h] = None]
      /\ w.rentals = [k \in RentalIds |->
           IF d.rentals[k] # None /\ d.rentals[k].hardware_id = h
             THEN None ELSE d.rentals[k]]
  BY DeleteHardwareRowEffect DEF Sound
<1>2. \A k \in RentalIds : w.rentals[k] # None =>
        w.rentals[k] = d.rentals[k] /\ d.rentals[k].hardware_id # h
  BY <1>1
<1>3. \A k \in RentalIds : w.rentals[k] # None => d.rentals[k] \in Rental
  BY <1>1, <1>2 DEF Database
<1>4. \A k \in RentalIds : w.rentals[k] # None =>
        w.hardware[d.rentals[k].hardware_id] = d.hardware[d.rentals[k].hardware_id]
  BY <1>1, <1>2, <1>3 DEF Database, Rental
<1>5. \A k \in RentalIds : w.rentals[k] # None =>
        /\ w.rentals[k] = d.rentals[k]
        /\ w.hardware[d.rentals[k].hardware_id] = d.hardware[d.rentals[k].hardware_id]
  BY <1>2, <1>4
<1>6. w \in Database
  BY <1>1
<1>7. Sound(w)
  BY <1>5, <1>6, RemovingIsSound
<1> QED
  BY <1>1, <1>7 DEF Database

LEMMA RemovingAnAccountIsSound ==
  ASSUME NEW d, Sound(d), NEW p \in ProfileIds, NEW w, w = DeleteProfileRow(d, p)
  PROVE  Sound(w) /\ w.profiles[p] = None
<1>1. /\ d \in Database
      /\ w \in Database
      /\ w.hardware = d.hardware
      /\ w.profiles = [d.profiles EXCEPT ![p] = None]
      /\ w.rentals = [k \in RentalIds |->
           IF d.rentals[k] # None /\ d.rentals[k].user_id = p
             THEN None ELSE d.rentals[k]]
  BY DeleteProfileRowEffect DEF Sound
<1>2. \A k \in RentalIds : w.rentals[k] # None => w.rentals[k] = d.rentals[k]
  BY <1>1
<1> QED
  BY <1>1, <1>2, RemovingIsSound DEF Database

(* A new account touches no rental. *)
LEMMA AddingAnAccountIsSound ==
  ASSUME NEW d, Sound(d), NEW p \in ProfileIds, NEW profile \in Profile,
         NEW w, w = InsertProfile(d, p, profile)
  PROVE  Sound(w)
<1>1. d \in Database
  BY DEF Sound
<1>2. w \in Database /\ w.hardware = d.hardware /\ w.rentals = d.rentals
  BY <1>1, InsertProfileEffect
<1> QED
  BY <1>2, RemovingIsSound

(* A new device is none that an open rental holds. *)
LEMMA AddingADeviceIsSound ==
  ASSUME NEW d, Sound(d), NEW h \in HardwareIds, IsNewRowid(d.hardware, h),
         NEW w, w = InsertHardware(d, h)
  PROVE  Sound(w)
<1>1. d.hardware[h] # "in_use" /\ "available" \in Statuses
  BY NewRowidIsFree, NoneIsNoRow DEF Sound, Statuses
<1>2. w = SetStatus(d, h, "available")
  BY DEF InsertHardware, SetStatus
<1> QED
  BY <1>1, <1>2, MarkingIsSound
=============================================================================
