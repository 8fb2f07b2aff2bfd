\* Two jobs on one file whose suspicious excerpt crosses a chunk boundary.
SPECIFICATION Spec
CONSTANTS
  None = None
  Jobs = {j1, j2}
  Docs = {petition}
  EmptyDocs = {}
  SplitDocs = {petition}
  RetainUploads = FALSE
  MaxFaults = 0
  MaxRestarts = 0
INVARIANT
  FlaggedExcerptsAreMasked
CHECK_DEADLOCK FALSE
