\* One case whose client waits for each answer, every fact, both files, a restart.
SPECIFICATION Spec
CONSTANTS
  None = None
  Keep = Keep
  Receipt = Receipt
  Cover = Cover
  Cases = {c1}
  Requests = {r1}
  Files = {Receipt, Cover}
  HeadingFiles = {Cover}
  Fields <- MCFields
  IntakeFields <- MCIntakeFields
  Values <- MCValues
  ScopedTexts <- MCScopedTexts
  Keys = {k1}
  Messages <- MCMessages
  Amounts <- MCAmounts
  References <- MCReferences
  FileReferences <- MCFileReferences
  ReferenceAmount <- MCReferenceAmount
  Patches <- MCPatches
  OneAtATime = TRUE
  MaxRestarts = 1
INVARIANTS
  ErasedMeansErased
PROPERTIES
  ImplementsContract
CHECK_DEADLOCK FALSE
