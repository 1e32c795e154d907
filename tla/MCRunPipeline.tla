--------------------------- MODULE MCRunPipeline ---------------------------
(* Runs of one agent of another user, all paid by one wallet.              *)
EXTENDS RunInvariant, TLC

CONSTANTS r1, r2, u

OneWallet == [r \in Requests |-> u]
OneCredit == [r \in Requests |-> 1]

(* Bound: no top-up is made once the run is queued (a queued run reads and *)
(* writes no wallet).                                                      *)
Unfunded == \A r \in Requests : mode[r] = "queued" => \A w \in Wallets : granted[w] = 0

RunsNext == Next /\ Unfunded'
RunsSpec == Init /\ [][RunsNext]_vars /\ Fairness
=============================================================================
