CONSTANTS
  i1 = i1
  USDCIssuer = "circle"
  NoMemo = NoMemo
  NoInvoice = NoInvoice
  GraceDays = 0
  Invoices = {i1}
  Totals = {2}
  MaxDay = 2
  Recipient <- OneRecipient
  Accounts = {"gm"}
  UnknownMemo = UnknownMemo
  Transactions <- AllKinds
  MaxOps = 2
  MaxStroops = 8
  Servers = {s1, s2}
  Requests = {}
  PageLimit = 1
  MaxPages = 2
  NoServer = NoServer
  MaxFaults = 2
SPECIFICATION SentSpec
INVARIANTS TypeOK PaidExactlyOnce DuplicateOfAnother HistoryAgrees CursorCoversRecorded
PROPERTIES VerdictsAreFinal ImplementsContract
