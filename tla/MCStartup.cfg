CONSTANTS
  Process = {p1, p2}
  Daemon = {p1, p2}
  NoProcess = none
  Nobody = none
  Uuid = {u1, u2}
  KeyPair = {k1, k2}
  MaxRows = 2
SPECIFICATION StartSpec
INVARIANTS IdentityIsUnique MigrationKeepsUuid KeysHaveMarker CommittedTrustSurvives
PROPERTIES UnrecognisedIsPreserved
