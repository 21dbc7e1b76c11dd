SPECIFICATION Spec
CONSTANTS
  Lines = {"Success", "Failure", "text"}
  Jobs <- InstallOnly
  MaxLines = 3
INVARIANT FailureStands
CHECK_DEADLOCK FALSE
