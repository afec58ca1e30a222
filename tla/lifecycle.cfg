CONSTANTS
  i1 = i1
  USDCIssuer = "circle"
  NoMemo = NoMemo
  NoInvoice = NoInvoice
  GraceDays = 0
  Invoices = {i1}
  Totals = {1, 2, 9}
  MaxDay = 2
  Recipient <- OneRecipient
  Accounts = {"gm"}
  UnknownMemo = UnknownMemo
  Transactions <- OnlyExact
  MaxOps = 1
  MaxStroops = 8
  Servers = {s1}
  Requests = {r1}
  PageLimit = 2
  MaxPages = 1
  NoServer = NoServer
  MaxFaults = 1
SPECIFICATION Spec
INVARIANTS LinkedPaymentsStayMatched
PROPERTIES ClosedInvoicesStayClosed VerifiedOnTerms
