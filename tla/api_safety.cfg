CONSTANTS
  MaxHardware = 1
  MaxProfiles = 2
  MaxRentals = 2
  root = root
  ann = ann
  r1 = r1
  r2 = r2
  r3 = r3
  None = None
  Emails <- MCEmails
  Admins <- OneAdmin
  Seed <- MCSeed
  Requests <- TwoRequests
  Offered <- AllButList
  Faults = TRUE
SPECIFICATION Spec
SYMMETRY Interchangeable
INVARIANTS
  TypeOK
  ConnectionIsReturned
  BackstopsNeverFire
  AnswersAreTrue
PROPERTIES
  RefusalWritesNothing
  ConstraintMeansNoAccount
  ImplementsInventory
