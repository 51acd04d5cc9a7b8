SPECIFICATION CFairSpec
CONSTANTS
  Builds = {TRUE, FALSE}
  Answers <- MCAnswers
  RequestLen = 2
  HTTP_HDR_BUF_SIZE = 5
  HTTP_HDR_READ_CHUNK = 3
  READ_BUF_SIZE = 3
INVARIANTS
  CTypeOK
  HeaderInBuffer
  StoredInOrder
  SizeOkIsBody
  CleansUp
  FailuresTold
PROPERTIES
  Finishes
CHECK_DEADLOCK FALSE
