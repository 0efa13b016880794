SPECIFICATION Spec
CONSTANTS
  Sizes <- MCSizes
  Limits <- MCLimits
  MayReject = TRUE
INVARIANTS
  TypeOK
  CalledAtMostOnce
  ResolvedInPlace
  RejectionStaysLocal
PROPERTIES
  ImplementsMap
  CallReturns
