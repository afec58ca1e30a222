CONSTANTS
  i1 = i1
  USDCIssuer = "circle"
  NoMemo = NoMemo
  NoInvoice = NoInvoice
  GraceDays = 0
  Invoices = {i1}
  Totals = {2}
  MaxDay = 1
  Recipient <- OneRecipient
  Accounts = {"gm"}
  UnknownMemo = UnknownMemo
  Transactions <- ExactOrShort
  MaxOps = 1
  MaxStroops = 8
  Servers = {}
  Requests = {r1, r2}
  PageLimit = 1
  MaxPages = 1
  NoServer = NoServer
  MaxFaults = 0
SPECIFICATION SentSpec
INVARIANTS DetectedOnlyWhileSettling
