CONSTANTS
  i1 = i1
  USDCIssuer = "circle"
  NoMemo = NoMemo
  NoInvoice = NoInvoice
  GraceDays = 0
  Invoices = {i1}
  Totals = {2}
  MaxDay = 2
  Recipient <- OneRecipient
  Accounts = {"gm"}
  UnknownMemo = UnknownMemo
  Transactions <- WalletTransactions
  MaxOps = 2
  MaxStroops = 8
  Servers = {s1}
  Requests = {}
  PageLimit = 1
  MaxPages = 1
  NoServer = NoServer
  MaxFaults = 1
  Payers = {p1, p2}
  Wallets = {"gp"}
  PinMaxAttempts = 2
  Transfers <- Gifts
SPECIFICATION SentWalletSpec
INVARIANTS WalletTypeOK PinGuessesBounded InvoicePaymentsCount
SYMMETRY Symmetry
