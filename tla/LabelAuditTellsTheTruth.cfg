\* repo/label.go: Confirm marks a label as confirmed and records the timestamp.
SPECIFICATION FairSpec
CONSTANTS
  Labels = {l1}
  Fields = {product_name}
  MaxRetry = 3
  MaxOutages = 1
INVARIANT
  AuditTellsTheTruth
CHECK_DEADLOCK FALSE
