SPECIFICATION Spec
CONSTANTS
  NotANumber = NotANumber
  Bad = Bad
CHECK_DEADLOCK FALSE
INVARIANTS
  
  ExpiryIsRead
  
  
  ListsAreReadAsWritten
  PathsMeetInChroot
