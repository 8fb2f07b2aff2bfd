\* Two overlapping requests: is a draft written only from confirmed facts?
SPECIFICATION Spec
CONSTANTS
  None = None
  Keep = Keep
  Receipt = Receipt
  Cover = Cover
  Cases = {c1}
  Requests = {r1, r2}
  Files = {Receipt}
  HeadingFiles = {}
  Fields <- MCFields
  IntakeFields <- MCIntakeFields
  Values <- MCValues
  ScopedTexts <- MCScopedTexts
  Keys = {k1}
  Messages <- MCMessages
  Amounts <- MCAmounts
  References <- MCReferences
  FileReferences <- MCFileReferences
  ReferenceAmount <- MCReferenceAmount
  Patches <- MCPatches
  OneAtATime = FALSE
  MaxRestarts = 0
PROPERTY
  DraftedFromConfirmedFacts
CHECK_DEADLOCK FALSE
