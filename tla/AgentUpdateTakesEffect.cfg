\* tech-arch.md: an update of the configuration takes effect at once.
SPECIFICATION FairSpec
CONSTANTS
  Calls = {c1}
  Configs <- MCConfigs
  HasApiKey = TRUE
  MaxUpdates = 2
  MaxFills = 2
INVARIANT
  UpdateTakesEffect
