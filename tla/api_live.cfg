CONSTANTS
  MaxHardware = 1
  MaxProfiles = 1
  MaxRentals = 1
  root = root
  ann = ann
  r1 = r1
  r2 = r2
  r3 = r3
  None = None
  Emails <- MCEmails
  Admins <- OneAdmin
  Seed <- MCSeed
  Requests <- ThreeRequests
  Offered <- Lending
  Faults = TRUE
SPECIFICATION FairSpec
PROPERTY
  EveryRequestEnds
