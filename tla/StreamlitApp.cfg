CONSTANTS
  Cases = {1, 2}
  Stories = {"a"}
  Losses = {0, 1}
  Files = {"f", "g"}
  Refused = {"g"}
  AmountIn <- OneAmount
  MaxTouches <- FirstCaseLonger
  MaxLost = 1
  MaxRestarts = 1
  None = None
  Jobs = {1, 2}
  Endings = {"review_required", "failed"}
  MaxOutages = 1
  NoJob = NoJob
  MaxSwitches = 2
  MaxMixed = 2
SPECIFICATION AppSpec
INVARIANTS
  AppTypeOK
  SessionAgreesWithService
  ShownDraftIsTheServices
  ConfirmedIsWhatWasSubmitted
  FormShowsTheCase
  SessionIsOfOneCase
  OfferedDraftIsReady
  PageIsAboutItsJob
PROPERTY FollowedJobIsShown
