SPECIFICATION FairSpec
CONSTANTS
  Lines = {"Success", "Failure", "Failed", "garbled", "package", "text"}
  Jobs <- Requests
  MaxLines = 3
INVARIANTS TypeOK InstallAnswered  
PROPERTY ExecuteEnds
CHECK_DEADLOCK FALSE
