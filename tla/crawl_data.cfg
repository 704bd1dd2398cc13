SPECIFICATION Spec
CONSTANTS
  None = None
  NotAString = "{}"
  Strings <- MCStrings
  TrimSpace <- MCTrimSpace
  WithoutAt <- MCWithoutAt
  IsURL <- MCIsURL
  IsNumeric <- MCIsNumeric
  PageIdInUrl <- MCPageIdInUrl
  UsernameInUrl <- MCUsernameInUrl
  KeywordSays <- MCKeywordSays
  Domains = {"", "logistics"}
  Inputs <- MCInputs
  EditedMetas <- MCEditedMetas
  MaxEdits = 1
  Artefacts <- MCArtefacts
INVARIANTS
  EveryValueHasItsTask
  DryrunPredictsDispatch
  BusinessIsPublished
  RecordsTraceToTask
CHECK_DEADLOCK FALSE
