SPECIFICATION Spec
CONSTANTS
  Routines <- MCRoutines
  MaxProcs = 2
  MaxDims = 2
  MaxName = 3
  MaxRequests = 3
  MaxWords = 2
  Strings <- MCStrings
  Words <- MCWords
INVARIANTS
  SentinelsTranslated
  ReadsWhatIsSupplied
  StringsCross
  ResultsTruthful
  IndicesNameRequests
  TextDelivered
  CopiesFreed
