\* One job (jobs only meet in Crash and Restart), the real retry budget and
\* two outages.
SPECIFICATION FairSpec
CONSTANTS
  Jobs = {j1}
  MaxRetry = 3
  MaxOutages = 2
INVARIANTS
  TypeOK
  DoneHasOutput
  EndedStreamHasReason
  ObjectsArePaidFor
  IInv
PROPERTIES
  DoneIsFinalAfterAck
  KeyOnlyAdvances
  ImplementsAttempts
  EnqueuedJobSettles
