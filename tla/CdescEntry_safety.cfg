SPECIFICATION Spec
CONSTANTS
  Routines <- MCRoutines
  MaxProcs = 3
  MaxDims = 2
INVARIANTS
  SectionDescribed
  ReadsWhatIsSupplied
  RefusedForAReason
  TypesBalanced
  OutputsTruthful
