\* handlers/print.go: the stream goes on until the job is terminal.
SPECIFICATION FairSpec
CONSTANTS
  Jobs = {j1}
  MaxRetry = 3
  MaxOutages = 1
INVARIANT
  DoneEndsStream
CHECK_DEADLOCK FALSE
