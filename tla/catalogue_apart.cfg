CONSTANTS
  MaxHardware = 3
  r1 = r1
  r2 = r2
  phone = phone
  laptop = laptop
  blank = blank
  m1 = m1
  m2 = m2
  None = None
  NaN = NaN
  TopK = 2
  Queries <- MCTexts
  Cosine <- Nearest
  Texts <- MCTexts
  Models <- TwoModels
  Dimensions <- OneDimension
  Shelf <- MCShelf
  Requests <- TwoRequests
  Outages = FALSE
  Crashes = TRUE
SPECIFICATION ApartSpec
INVARIANTS
  AnsweredMeansSearchable
  OwnTextComesFirst
PROPERTY
  ImplementsSearchIndex
