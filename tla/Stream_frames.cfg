SPECIFICATION FairSpec
CONSTANTS
  m1 = m1
  m2 = m2
  Hello = Hello
  Message <- MCMessage
  Unknown <- MCUnknown
  Body <- MCBody
  HeaderLen = 2
  MaxSend <- MCMaxSend
  MaxFault = 1
INVARIANTS TypeOK WriteQueueBusy
PROPERTIES HostStream PythonStream Drained
CHECK_DEADLOCK FALSE
