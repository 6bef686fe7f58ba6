\* service/print.go: a job whose enqueue failed is retried.  No outage, so that
\* nothing but the enqueue can lose the task.
SPECIFICATION FairSpec
CONSTANTS
  Jobs = {j1}
  MaxRetry = 3
  MaxOutages = 0
PROPERTY
  EveryJobIsTried
CHECK_DEADLOCK FALSE
