\* One user with one session, a workspace of their own and one that invites,
\* and a colleague who can accept invitations.
SPECIFICATION MCSpec
CONSTANTS
  People = {alice, bob}
  Users = {alice}
  Sessions = {s1}
  Workspaces = {own, other}
  Existing = {other}
  InviteRoles = {"operator"}
  NoUser = NoUser
  MaxMembers = 2
  MaxTries = 4
  MaxAttempts = 2
  Window = 3
  LastInstant = 4
INVARIANTS
  TypeOK
  OnlyFaultsStrand
PROPERTIES
  LimitHolds
  TokensAreEarned
  NothingAfterLogout
  LogoutEndsSession
  RevocationReachesTokens
  RevocationIsForGood
CHECK_DEADLOCK FALSE
