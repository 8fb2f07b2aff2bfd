\* Two overlapping requests: does an acknowledged deletion leave nothing behind?
SPECIFICATION Spec
CONSTANTS
  None = None
  Keep = Keep
  Receipt = Receipt
  Cover = Cover
  Cases = {c1}
  Requests = {r1, r2}
  Files = {Receipt}
  HeadingFiles = {}
  Fields <- MCFields
  IntakeFields <- MCIntakeFields
  Values <- MCValues
  ScopedTexts <- MCScopedTexts
  Keys = {k1}
  Messages <- MCMessages
  Amounts <- MCAmounts
  References <- MCReferences
  FileReferences <- MCFileReferences
  ReferenceAmount <- MCReferenceAmount
  Patches <- MCPatches
  OneAtATime = FALSE
  MaxRestarts = 0
INVARIANT
  ErasedMeansErased
CHECK_DEADLOCK FALSE
