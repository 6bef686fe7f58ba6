\* worker.go: the extracted fields are translated.
SPECIFICATION FairSpec
CONSTANTS
  Calls = {c1}
  Configs <- MCConfigs
  HasApiKey = TRUE
  MaxUpdates = 1
  MaxFills = 2
INVARIANT
  VisionIsTranslated
