----------------------------- MODULE MCSettlement -----------------------------
(***************************************************************************)
(* Instances of PaymentSettlement for TLC.                                 *)
(***************************************************************************)
EXTENDS SettlementProperties

CONSTANT i1

USDC == [code |-> "USDC", issuer |-> USDCIssuer]
Fake == [code |-> "USDC", issuer |-> "mallory"]
XLM  == [code |-> "XLM", issuer |-> ""]
Pay(to, memo, stroops, asset, ok) ==
  [to |-> to, memo |-> memo, stroops |-> stroops, asset |-> asset, ok |-> ok]

OneRecipient == [i \in Invoices |-> "gm"]

(* Invoices ask for 2 stroops.                                             *)
Exact == <<Pay("gm", i1, 2, USDC, TRUE)>>
Short == <<Pay("gm", i1, 1, USDC, TRUE)>>

OnlyExact == {Exact}
ExactOrShort == {Exact, Short}

(* One transaction may hold several payments, fail, name no invoice, or    *)
(* send another asset, even one that is called USDC.                       *)
AllKinds ==
  {<<Pay("gm", i1, 2, USDC, TRUE), Pay("gm", i1, 2, USDC, TRUE)>>,
   Short,
   <<Pay("gm", i1, 2, USDC, FALSE)>>,
   <<Pay("gm", NoMemo, 2, XLM, TRUE)>>,
   <<Pay("gm", i1, 2, Fake, TRUE)>>}
-------------------------------------------------------------------------------
(* The settlement alone: every invoice was created and sent on the first   *)
(* day, is due that day, and nobody edits or cancels it any more.          *)
SentInvoices ==
  [i \in Invoices |->
     [status |-> "sent", review |-> "open", stroops |-> 2, due |-> 1]]

SentInit ==
  /\ SettlementInit
  /\ invoice = SentInvoices /\ today = 1 /\ updating = {} /\ dailyRun = FALSE

SentNext ==
  \/ SettlementNext
  \/ NextDay /\ UNCHANGED settlementVars
  \/ MarkOverdue /\ UNCHANGED settlementVars

SentSpec == SentInit /\ [][SentNext]_vars
SentFairSpec == SentSpec /\ Fairness
=============================================================================
