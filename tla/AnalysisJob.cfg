\* One job, since jobs never wait for each other, on a file with or without text;
\* as many faults as it can meet, a restart.
SPECIFICATION FairSpec
CONSTANTS
  None = None
  Jobs = {j1}
  Docs = {petition, blank}
  EmptyDocs = {blank}
  SplitDocs = {petition}
  RetainUploads = FALSE
  MaxFaults = 12
  MaxRestarts = 1
INVARIANTS
  TypeOK
  OutcomeIsTrue
  GateComesFirst
  BoardIsConsistent
  RunLogIsTrue
PROPERTIES
  ImplementsPolling
  AcceptedJobsEnd
CHECK_DEADLOCK FALSE
