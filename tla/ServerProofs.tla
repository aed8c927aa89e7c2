---------------------------- MODULE ServerProofs ----------------------------
(***************************************************************************)
(* What the refinement is good for: the server, statement by statement,    *)
(* inherits every theorem about the atomic inventory.  The committed       *)
(* database of any number of interleaved, failing and crashing requests is *)
(* as safe as that of Inventory, and moves only as Inventory moves.        *)
(***************************************************************************)
EXTENDS ApiProofs

(* The theorems about Promise.  An instance of a module is its definitions  *)
(* anew, so Promise and Proved are two copies of Inventory.                 *)
Proved == INSTANCE InventoryProofs WITH tokens <- Circulating

-----------------------------------------------------------------------------
(* The server meets the assumptions of Inventory. *)
LEMMA AssumptionsAreMet ==
  /\ MaxHardware \in Nat /\ MaxProfiles \in Nat /\ MaxRentals \in Nat
  /\ None \notin Proved!Statuses \cup Proved!Profile \cup Proved!Rental
  /\ Seed \in [Proved!HardwareIds -> {"available", "repair", None}]
  /\ Admins \in Seq(Emails)
  /\ Len(Admins) <= MaxProfiles
  /\ \A i, j \in 1 .. Len(Admins) : Admins[i] = Admins[j] => i = j
<1>1. /\ Proved!Statuses = Statuses
      /\ Proved!Profile = Profile
      /\ Proved!Rental = Rental
  BY DEF Proved!Statuses, Statuses, Proved!Profile, Profile, Proved!Rental, Rental,
         Proved!HardwareIds, HardwareIds, Proved!ProfileIds, ProfileIds,
         Proved!Roles, Roles
<1>2. None \notin Proved!Statuses \cup Proved!Profile \cup Proved!Rental
  BY <1>1, NoneIsNoRow, Zenon
<1>3. Seed \in [Proved!HardwareIds -> {"available", "repair", None}]
  BY StartIsTyped DEF Proved!HardwareIds, HardwareIds
<1> QED
  BY <1>2, <1>3, StartIsTyped, BoundsAreNaturals

(* Expanded, the two copies are one formula. *)
LEMMA SameInit == Promise!Init <=> Proved!Init
BY Zenon
   DEF Promise!Init, Proved!Init, Promise!InitialDatabase, Proved!InitialDatabase,
       Promise!ProfileIds, Proved!ProfileIds, Promise!RentalIds, Proved!RentalIds,
       Promise!AdminRole, Proved!AdminRole

LEMMA SameNext == [Promise!Next]_(Promise!vars) <=> [Proved!Next]_(Proved!vars)
BY Zenon
   DEF Promise!Next, Proved!Next, Promise!vars, Proved!vars,
       Promise!EnsureAdmin, Proved!EnsureAdmin, Promise!LogIn, Proved!LogIn,
       Promise!Expire, Proved!Expire, Promise!Rent, Proved!Rent,
       Promise!GiveBack, Proved!GiveBack, Promise!AddDevice, Proved!AddDevice,
       Promise!RemoveDevice, Proved!RemoveDevice, Promise!Mark, Proved!Mark,
       Promise!NewAccount, Proved!NewAccount, Promise!AddAccount, Proved!AddAccount,
       Promise!RemoveAccount, Proved!RemoveAccount,
       Promise!Live, Proved!Live, Promise!TokenOf, Proved!TokenOf,
       Promise!CanRent, Proved!CanRent, Promise!CanReturn, Proved!CanReturn,
       Promise!CanMark, Proved!CanMark,
       Promise!CanRemoveAccount, Proved!CanRemoveAccount,
       Promise!Rented, Proved!Rented, Promise!Returned, Proved!Returned,
       Promise!AdminRole, Proved!AdminRole, Promise!Roles, Proved!Roles,
       Promise!HardwareIds, Proved!HardwareIds,
       Promise!ProfileIds, Proved!ProfileIds, Promise!RentalIds, Proved!RentalIds,
       Promise!Rows, Proved!Rows, Promise!IsNewRowid, Proved!IsNewRowid,
       Promise!IsOpen, Proved!IsOpen, Promise!ClaimMatches, Proved!ClaimMatches,
       Promise!EmailTaken, Proved!EmailTaken,
       Promise!RemoveMatches, Proved!RemoveMatches,
       Promise!MarkFrom, Proved!MarkFrom, Promise!MarkTo, Proved!MarkTo,
       Promise!SetStatus, Proved!SetStatus,
       Promise!InsertHardware, Proved!InsertHardware,
       Promise!DeleteHardwareRow, Proved!DeleteHardwareRow,
       Promise!InsertRental, Proved!InsertRental,
       Promise!CloseRentalRow, Proved!CloseRentalRow,
       Promise!InsertProfile, Proved!InsertProfile,
       Promise!DeleteProfileRow, Proved!DeleteProfileRow

(* So what is proved of Inventory is proved of the server. *)
LEMMA ServerIsInventory == Spec => Proved!Spec
<1>1. Promise!Spec => Proved!Spec
  BY SameInit, SameNext, PTL DEF Promise!Spec, Proved!Spec
<1> QED
  BY <1>1, ServerImplementsInventory, PTL DEF ImplementsInventory

-----------------------------------------------------------------------------
(* No commit, rollback or crash leaves a rental without its device or its   *)
(* account.                                                                 *)
THEOREM CommitsLeaveNoOrphans == Spec => []Proved!ReferentialIntegrity
BY ServerIsInventory, Proved!NoOrphans, AssumptionsAreMet, PTL

(* Whoever reads the committed database finds the device of an open rental  *)
(* in_use: claim and INSERT, close and release become visible together.     *)
THEOREM CommittedRentalsHoldTheirDevice == Spec => []Proved!OpenRentalHoldsItsDevice
BY ServerIsInventory, Proved!RentedMeansInUse, AssumptionsAreMet, PTL

(* Two clients that rent the same device at the same time never both get    *)
(* it.                                                                      *)
THEOREM ServerNeverDoubleBooks == Spec => []Proved!OneOpenRentalPerDevice
BY ServerIsInventory, Proved!NoDoubleBooking, AssumptionsAreMet, PTL

(* A token that is signed from an account read earlier, and every token     *)
(* already out, is an administrator's only if that account is still there:  *)
(* the middleware may believe its role without a lookup.                    *)
THEOREM ServerTokensNameTheirAccount == Spec => []Proved!AdminTokensNameTheirAccount
BY ServerIsInventory, Proved!AdminIdentity, AssumptionsAreMet, PTL

(* Status and rental of a device move in one commit. *)
THEOREM CommitsMoveCustody == Spec => Proved!CustodyMovesTogether
BY ServerIsInventory, Proved!CustodyIsAtomic, AssumptionsAreMet, PTL

(* No failure, deadline or crash strands a device; only the removal of its  *)
(* renter's account does.                                                   *)
THEOREM FailuresStrandNothing == Spec => Proved!StrandedByAccountRemovalOnly
BY ServerIsInventory, Proved!StrandingIsByRemoval, AssumptionsAreMet, PTL

(* A returned rental stays as it is in every later commit. *)
THEOREM CommitsKeepHistory == Spec => Proved!HistoryIsKept
BY ServerIsInventory, Proved!HistoryIsDurable, AssumptionsAreMet, PTL
=============================================================================
