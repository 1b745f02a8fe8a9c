SPECIFICATION ServicesSpec
CONSTANTS
  w1 = w1
  w2 = w2
  Workers <- TwoWorkers
  Roles <- WorkerRoles
  Terms = 1
  Levels = {direct}
  PayoutIds = {p1, p2}
  NoPayout = NoPayout
  Callers = {c1, c2}
  Devices = {d1, d2, d3}
  MaxActivations = 1
  MaxMoves = 1
  Handlers = {h1, h2}
  StripeIds = {s1}
  Invoices = {i1}
  NoId = NoId
  MaxRows = 3
  Requests = {r1, r2}
  MaxDays = 2
  MaxRuns = 3
  Agents = {g1, g2}
  Admins = {a1}
  Nobody = Nobody
  Tickets = {t1, t2}
  Terminals = {m1, m2}
  Calls = {k1, k2}
  NoCall = NoCall
  Time <- DealTimes
  BatchSize = 1
  MaxDeletes = 1
  Checks = {x1, x2}
  Cooldown = 2
  MaxTime = 4
  Passes = {q1, q2}
  AutoApprove = TRUE
  MAX_ATTEMPTS = 3
  MaxDeaths = 1
  MaxDecisions = 1
  Visitors = {u1, u2}
  Visits = {v1, v2}
  Window = 1
  USER_BURST_LIMIT = 1
  GLOBAL_GUARD_LIMIT = 1
  LOCK_RETRY_ATTEMPTS = 2
  MaxClock = 2
  MaxLogged = 4
INVARIANTS
  ServicesTypeOK
  ReserveAccounts
  PayoutsAreBacked
  NewDevicesWithinLimit
  RevocationHolds
  SubscriptionsBounded
  FailureMailsBounded
  OneRunPerTrigger
  TicketsAreHandled
  ChainIsWhole
  AcknowledgedIsStored
  AlertsAreSpaced
  TriesBounded
  BurstsAreHeld
VIEW ServicesView
CHECK_DEADLOCK FALSE
