CONSTANTS
  MaxHardware = 2
  r1 = r1
  r2 = r2
  phone = phone
  laptop = laptop
  blank = blank
  m1 = m1
  m2 = m2
  None = None
  NaN = NaN
  TopK = 1
  Queries <- MCTexts
  Cosine <- Nearest
  Texts <- MCTexts
  Models <- OneModel
  Dimensions <- OneDimension
  Shelf <- MCShelf
  Requests <- OneRequest
  Outages = TRUE
  Crashes = FALSE
SPECIFICATION FairSpec
PROPERTY
  StartEnds
