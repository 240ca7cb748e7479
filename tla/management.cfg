SPECIFICATION MCSpec
CONSTANTS
  Width = 20
  DEFAULT_INTERVAL = 43200
  NotANumber = NotANumber
  None = None
  NoneText = NoneText
  Token = "secret"
  MAX_I32 = 8
  Lists = {"ads", "more"}
  QueryLogging = FALSE
  Requests <- MCRequests
INVARIANTS
  StoredRowsAreValid
  FacesAgree
  
  
