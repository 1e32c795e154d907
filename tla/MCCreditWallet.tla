--------------------------- MODULE MCCreditWallet ---------------------------
(* Three handlers on one user wallet and one team wallet.                  *)
EXTENDS CreditWallet, TLC

HandlerSymmetry == Permutations(Requests)
=============================================================================
