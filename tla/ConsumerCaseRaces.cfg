\* One case, every fact, two requests that overlap at will, a restart; does each
\* of them end?
SPECIFICATION FairSpec
CONSTANTS
  None = None
  Keep = Keep
  Receipt = Receipt
  Cover = Cover
  Cases = {c1}
  Requests = {r1, r2}
  Files = {Receipt}
  HeadingFiles = {}
  Fields <- MCFields
  IntakeFields <- MCIntakeFields
  Values <- MCValues
  ScopedTexts <- MCScopedTexts
  Keys = {k1}
  Messages <- MCMessages
  Amounts <- MCAmounts
  References <- MCReferences
  FileReferences <- MCFileReferences
  ReferenceAmount <- MCReferenceAmount
  Patches <- MCPatches
  OneAtATime = FALSE
  MaxRestarts = 1
INVARIANTS
  TypeOK
  NoticeMatchesRecord
  ReferenceBacked
  LegalCorpusIndexedOnce
  LiveDocumentsTracked
PROPERTIES
  EveryRequestEnds
CHECK_DEADLOCK FALSE
