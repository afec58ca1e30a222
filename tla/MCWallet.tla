------------------------------- MODULE MCWallet -------------------------------
(***************************************************************************)
(* Instances of WalletPayments for TLC.                                    *)
(***************************************************************************)
EXTENDS MCSettlement, WalletPayments, TLC

(* A transfer to the merchant's wallet.                                    *)
Gift == Pay("gm", NoMemo, 1, USDC, TRUE)
Gifts == {Gift}

WalletTransactions ==
  {Sending(p, ok) : p \in PaymentRequests \cup Gifts, ok \in BOOLEAN}
-------------------------------------------------------------------------------
(* The invoice is sent, nobody edits it any more and only the wallets of   *)
(* Stellance pay.                                                          *)
SettledByMonitors ==
  \/ \E s \in Servers : Monitor(s)
  \/ NextDay /\ UNCHANGED settlementVars

SentWalletSpec ==
  /\ SentInit /\ WalletInit
  /\ [][(SettledByMonitors /\ UNCHANGED walletVars) \/ WalletStep]_allVars

Symmetry == Permutations(Payers)
=============================================================================
