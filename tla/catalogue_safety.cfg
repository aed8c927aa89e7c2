CONSTANTS
  MaxHardware = 2
  r1 = r1
  r2 = r2
  phone = phone
  laptop = laptop
  blank = blank
  m1 = m1
  m2 = m2
  None = None
  NaN = NaN
  TopK = 1
  Queries <- PhoneOrBlank
  Cosine <- Featureless
  Texts <- MCTexts
  Models <- TwoModels
  Dimensions <- TwoDimensions
  Shelf <- MCShelf
  Requests <- TwoRequests
  Outages = TRUE
  Crashes = TRUE
SPECIFICATION FairSpec
INVARIANTS
  TypeOK
  IndexedDevicesExist
  AnswersAreTheBest
PROPERTIES
  WritesAreAnswered
  BackfillCatchesUp
