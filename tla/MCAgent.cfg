\* Two calls, so that one loads while another's cache write is pending, two updates.
SPECIFICATION FairSpec
CONSTANTS
  Calls = {c1, c2}
  Configs <- MCConfigs
  HasApiKey = TRUE
  MaxUpdates = 2
  MaxFills = 2
INVARIANT
  TypeOK
PROPERTIES
  CurrentStaysCurrent
  ConfigConverges
  EveryCallEnds
