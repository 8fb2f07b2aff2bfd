\* Does every job of critical risk end as blocked?
SPECIFICATION Spec
CONSTANTS
  None = None
  Jobs = {j1}
  Docs = {petition, blank}
  EmptyDocs = {blank}
  SplitDocs = {petition}
  RetainUploads = FALSE
  MaxFaults = 1
  MaxRestarts = 1
INVARIANT
  CriticalEndsBlocked
CHECK_DEADLOCK FALSE
