CONSTANTS
  MaxHardware = 2
  MaxProfiles = 4
  MaxRentals = 0
  root = root
  ROOT = ROOT
  ann = ann
  bob = bob
  stranger = stranger
  good = good
  better = better
  weak = weak
  goose_migrations = goose_migrations
  goose = goose
  None = None
  Emails <- MCEmails
  Lower <- MCLower
  Company <- MCCompany
  Passwords <- MCPasswords
  Strong <- MCStrong
  Seed <- MCSeed
  Admins <- NoAdmins
  GooseTables <- TwoTables
  Environments <- OneTableEnvironments
SPECIFICATION BootSpec
PROPERTIES
  BootImplementsInventory
