SPECIFICATION Spec
CHECK_DEADLOCK FALSE
CONSTANTS
  Replies = {r1, r2}
  Approvers = {a1, a2}
  EngineRuns = {n1, n2, n3}
  Injects = {n3}
  Hashes = {h1, h2}
  NoSession = NoSession
  Sessions = {s1, s2}
  TwoCalls = {s2}
  Filed = filed
  Principals = {p, q}
  Roles = {k}
  Seeded = {p}
  Surfaces = {s}
  Grants = {g1, g2}
  Turns = {1, 2}
  Streaming = {2}
  Asks = {q}
  None = None
  Parts = 2
  MaxTier = 1
  MaxFailures = 1
  MaxPieces = 4
  MaxEvents = 3
  MaxEdits = 4
  Calls = 2
  MaxDowns = 1
  LastMinute = 3
  LastHour = 1
  LastDom = 4
  LastMonth = 2
  Toggled = {1}
  Horizon = 56
  Places = {pl, pm}
  Visitors = {u, v}
  Team = {u}
  Known = {k1}
  Dynamic = {d}
  Tasks = {u1}
  Secrets = {1}
  SiloIds = {"self", "work"}
  Earlier = {"work"}
  Paths = {n}
  Texts = {1, 2}
  MaxCodes = 1
  MaxTokens = 2
  MaxOpens = 3
  MaxActs = 2
  MaxFaults = 1
  MaxSiloActs = 3
INVARIANTS TypesOK WholeAndOnce StreamedIsReply
PROPERTIES DecisionsStand NobodyHangs
