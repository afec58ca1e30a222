CONSTANTS
  i1 = i1
  USDCIssuer = "circle"
  NoMemo = NoMemo
  NoInvoice = NoInvoice
  GraceDays = 0
  Invoices = {i1}
  Totals = {2}
  MaxDay = 1
  Recipient <- OneRecipient
  Accounts = {"gm"}
  UnknownMemo = UnknownMemo
  Transactions <- ExactOrShort
  MaxOps = 2
  MaxStroops = 8
  Servers = {s1}
  Requests = {r1}
  PageLimit = 1
  MaxPages = 1
  NoServer = NoServer
  MaxFaults = 1
SPECIFICATION SentFairSpec
PROPERTIES EveryPaymentSettled
