\* service/label.go: UpdateFields applies operator edits to translated fields.
SPECIFICATION FairSpec
CONSTANTS
  Labels = {l1}
  Fields = {product_name}
  MaxRetry = 3
  MaxOutages = 1
INVARIANT
  ConfirmedKeepsEdits
CHECK_DEADLOCK FALSE
