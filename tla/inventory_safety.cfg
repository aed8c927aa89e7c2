CONSTANTS
  MaxHardware = 2
  MaxProfiles = 3
  MaxRentals = 2
  root = root
  ann = ann
  bob = bob
  None = None
  Emails <- MCEmails
  Admins <- MCAdmins
  Seed <- MCSeed
SPECIFICATION Spec
INVARIANTS
  TypeOK
  ReferentialIntegrity
  OpenRentalHoldsItsDevice
  OneOpenRentalPerDevice
  AdminTokensNameTheirAccount
PROPERTIES
  CustodyMovesTogether
  StrandedByAccountRemovalOnly
  HistoryIsKept
