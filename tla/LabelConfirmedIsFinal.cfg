\* user-stories.md: a confirmed label is final.
SPECIFICATION FairSpec
CONSTANTS
  Labels = {l1}
  Fields = {product_name}
  MaxRetry = 3
  MaxOutages = 1
PROPERTY
  ConfirmedIsFinal
CHECK_DEADLOCK FALSE
