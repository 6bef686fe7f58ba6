\* One label (labels only meet in Crash and Restart), the real retry budget,
\* two fields, so that an edit may touch one of them, and two outages; five
\* labels on pages of two, two products.
SPECIFICATION ServiceSpec
CONSTANTS
  Labels = {l1}
  Fields = {product_name, ingredients}
  MaxRetry = 3
  MaxOutages = 2
  Translations <- MCTranslations
  Categories = {"toy", "food", ""}
  EditedFields = {"manufacturer", "warnings"}
  MaxLabels = 5
  PerPage = 2
  Products = {p1, p2}
  MaxPrints = 2
INVARIANTS
  TypeOK
  PipelineOwnsRow
  ConfirmationIsAudited
  ConfirmedHasResult
  IInv
  ComplianceIsCurrent
  WalkShowsAll
  FieldsSurviveUnlessBare
PROPERTIES
  EditsLostOnlyInProcessing
  ConfirmedIsFinalAfterAck
  ImplementsPromise
  ImplementsAttempts
  NoEndlessProcessing
  EnqueuedSettles
\* Every label may be deleted and its task done.
CHECK_DEADLOCK FALSE
