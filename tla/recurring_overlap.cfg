CONSTANTS
  USDCIssuer = "circle"
  NoMemo = NoMemo
  NoInvoice = NoInvoice
  GraceDays = 1
  JudgedPayments <- MCPayments
  JudgedInvoices <- MCInvoices
  Services = {"two schedules"}
  s1 = s1
  s2 = s2
  Schedules = {s1}
  Owner <- OwnOwner
  Lengths = {1, 2}
  Runs = {w1, w2}
  LastDay = 2
  MaxMishaps = 0
  NoSchedule = NoSchedule
  Capacity = 2
  Rates = {1, 2}
  Period = 3
  Requests = {q1, q2}
  MaxSkew = 1
  MaxLag = 2
  MaxOvertakes = 2
  Readers = {r1, r2}
  Writers = {w1, w2}
  Lifetime = 3
  FillBound = 2
  MaxCacheFaults = 1
  Stage = "mainnet"
  Monitors = {m1}
  Verifiers = {v1}
  PageLimit = 1
  MaxPayments = 1
  MaxSwitches = 2
  MaxCrashes = 1
  Emails = {e1}
  Ids = {u1, u2}
  Passwords = {p1, p2}
  Calls = {r1, r2}
  MaxCodes = 2
  MaxAdminCalls = 2
  People = {o, p}
  Creator = o
  Admins = {}
  MaxComments = 2
  Clients = {r1, r2}
  MaxRows = 3
  PageSizes = {1, 2}
  MaxMoves = 2
  MaxFailures = 1
  Billed = {b1, b2}
  OpenStatuses = {"sent", "expired"}
  Totals = {4}
  MonthsPerYear = 2
  DaysPerMonth = 2
  LastReportDay = 4
  Conns = {k1, k2}
  Callers = {c1, c2, c3}
  MaxInner = 1
  Creators = {a1, a2}
  Payers = {p1, p2}
  NoAddress = NoAddress
  MaxRequestFaults = 1
  Settlers = {w1, w2}
  Arrivals = {t1}
  MaxNoticeFaults = 1
  Uploads = {l1, l2, l3}
  NoLogo = NoLogo
  MaxLogoFaults = 1
SPECIFICATION ServicesSpec
INVARIANTS OncePerInterval
