---------------------------- MODULE CreditWallet ----------------------------
(***************************************************************************)
(* The credit wallets of users and teams: the balance columns `credits`    *)
(* and `totalCreditsUsed`, and the CreditLog rows that should explain      *)
(* them.  A run is paid by RuntimeEngine.deductCredits, an interactive     *)
(* PostgreSQL transaction under READ COMMITTED: it reads the balance,      *)
(* compares it with the price, and only then decrements.  Nothing locks    *)
(* the row between the read and the decrement, so a transaction is two     *)
(* steps here: the checked read, and the commit that makes the decrement   *)
(* and the CreditLog row visible together.                                 *)
(*                                                                         *)
(* A definition headed "Slip:" is a wrong variant of the one below it; the *)
(* properties are tried on the system with one slip put in.                *)
(***************************************************************************)
EXTENDS Integers, FiniteSets

CONSTANTS
  Requests,      \* concurrent HTTP handlers; each serves one request at a time
  UserWallets,
  TeamWallets,
  MaxCost,       \* the largest price of a run, in credits
  SignupCredits, \* User.credits of a new account; a new team has 0
  MaxGrant,      \* bound: the largest amount of one top-up or grant
  MaxGranted,    \* bound: what one wallet may be granted in total
  NoTx           \* a handler with no transaction open

Wallets == UserWallets \cup TeamWallets

(* A deduction that has read a sufficient balance, or a top-up that has    *)
(* been credited and still owes its invoice.                               *)
Tx == [kind: {"deduct", "invoice"}, wallet: Wallets, amount: Nat \ {0}, seen: Int]

ASSUME RequestsFinite  == IsFiniteSet(Requests) /\ Requests # {}
ASSUME WalletsDisjoint == UserWallets \cap TeamWallets = {}
ASSUME MaxCostPositive == MaxCost \in Nat \ {0}
ASSUME BoundsAreNats   == SignupCredits \in Nat /\ MaxGrant \in Nat /\ MaxGranted \in Nat
ASSUME NoTxIsNotATx    == NoTx \notin Tx

VARIABLES
  credits,   \* User.credits / Team.credits
  used,      \* User.totalCreditsUsed / Team.totalCreditsUsed
  journal,   \* the sum of CreditLog.amount over a wallet's rows: those with the
             \* team's teamId, or with the user's userId and no teamId
  granted,   \* history: everything ever added to the wallet
  invoiced,  \* credits covered by a top-up invoice
  tx         \* what each handler has open

walletVars == <<credits, used, journal, granted, invoiced, tx>>

OpeningBalance(w) == IF w \in UserWallets THEN SignupCredits ELSE 0

WalletInit ==
  /\ credits  = [w \in Wallets |-> OpeningBalance(w)]
  /\ used     = [w \in Wallets |-> 0]
  /\ journal  = [w \in Wallets |-> 0]
  /\ granted  = [w \in Wallets |-> 0]
  /\ invoiced = [w \in Wallets |-> 0]
  /\ tx       = [h \in Requests |-> NoTx]

Deducting(h) == tx[h] # NoTx /\ tx[h].kind = "deduct"
Invoicing(h) == tx[h] # NoTx /\ tx[h].kind = "invoice"

(* Slip: the balance is not compared with the price.                       *)
AlwaysAffords(w, cost) == TRUE
Affords(w, cost)       == credits[w] >= cost

(* deductCredits, the read: the balance suffices at this moment.           *)
BeginDeduct(h, w, cost) ==
  /\ tx[h] = NoTx
  /\ Affords(w, cost)
  /\ tx' = [tx EXCEPT ![h] = [kind |-> "deduct", wallet |-> w,
                              amount |-> cost, seen |-> credits[w]]]
  /\ UNCHANGED <<credits, used, journal, granted, invoiced>>

(* Slip: the balance is written back as the value read, less the price.    *)
RemainderOfRead(h) == tx[h].seen - tx[h].amount
Remainder(h)       == credits[tx[h].wallet] - tx[h].amount

(* Slip: the increment of totalCreditsUsed has the sign of the decrement.  *)
Unspent(h) == used[tx[h].wallet] - tx[h].amount
Spent(h)   == used[tx[h].wallet] + tx[h].amount

(* The CreditLog row's change.                                            *)
JournalEntry(h) == - tx[h].amount

(* deductCredits, the commit: `decrement`, `increment` and creditLog.create *)
(* become visible together.                                                *)
CommitDeduct(h) ==
  /\ Deducting(h)
  /\ credits' = [credits EXCEPT ![tx[h].wallet] = Remainder(h)]
  /\ used'    = [used EXCEPT ![tx[h].wallet] = Spent(h)]
  /\ journal' = [journal EXCEPT ![tx[h].wallet] = @ + JournalEntry(h)]
  /\ tx' = [tx EXCEPT ![h] = NoTx]
  /\ UNCHANGED <<granted, invoiced>>

(* A statement of the transaction failed, it timed out, or the process     *)
(* died: PostgreSQL rolls it back.                                         *)
RollbackDeduct(h) ==
  /\ Deducting(h)
  /\ tx' = [tx EXCEPT ![h] = NoTx]
  /\ UNCHANGED <<credits, used, journal, granted, invoiced>>

(* billingService.addCredits: one transaction, the row and the increment.  *)
Credit(w, n) ==
  /\ granted[w] + n <= MaxGranted
  /\ credits' = [credits EXCEPT ![w] = @ + n]
  /\ journal' = [journal EXCEPT ![w] = @ + n]
  /\ granted' = [granted EXCEPT ![w] = @ + n]

AddCredits(w, n) ==
  /\ w \in UserWallets
  /\ Credit(w, n)
  /\ UNCHANGED <<used, invoiced, tx>>

(* billingService.topup: the credits first, the invoice in a later step.   *)
TopUp(h, w, n) ==
  /\ tx[h] = NoTx
  /\ w \in UserWallets
  /\ Credit(w, n)
  /\ tx' = [tx EXCEPT ![h] = [kind |-> "invoice", wallet |-> w,
                              amount |-> n, seen |-> 0]]
  /\ UNCHANGED <<used, invoiced>>

InvoiceTopUp(h) ==
  /\ Invoicing(h)
  /\ invoiced' = [invoiced EXCEPT ![tx[h].wallet] = @ + tx[h].amount]
  /\ tx' = [tx EXCEPT ![h] = NoTx]
  /\ UNCHANGED <<credits, used, journal, granted>>

(* generateInvoice throws, or the process dies before it: credits without  *)
(* an invoice.                                                             *)
LoseInvoice(h) ==
  /\ Invoicing(h)
  /\ tx' = [tx EXCEPT ![h] = NoTx]
  /\ UNCHANGED <<credits, used, journal, granted, invoiced>>

(* teamService.addCredits: the team row is incremented; no CreditLog row.  *)
AddTeamCredits(w, n) ==
  /\ w \in TeamWallets
  /\ granted[w] + n <= MaxGranted
  /\ credits' = [credits EXCEPT ![w] = @ + n]
  /\ granted' = [granted EXCEPT ![w] = @ + n]
  /\ UNCHANGED <<used, journal, invoiced, tx>>

Grant(w) == \E n \in 1 .. MaxGrant : AddCredits(w, n) \/ AddTeamCredits(w, n)

(* deductCredits returns at once when there is nothing to pay.             *)
WalletNext ==
  \/ \E h \in Requests, w \in Wallets, cost \in 1 .. MaxCost : BeginDeduct(h, w, cost)
  \/ \E h \in Requests : CommitDeduct(h)
  \/ \E h \in Requests : RollbackDeduct(h)
  \/ \E h \in Requests, w \in Wallets, n \in 1 .. MaxGrant : TopUp(h, w, n)
  \/ \E h \in Requests : InvoiceTopUp(h)
  \/ \E h \in Requests : LoseInvoice(h)
  \/ \E w \in Wallets : Grant(w)

WalletSpec == WalletInit /\ [][WalletNext]_walletVars

-----------------------------------------------------------------------------
(* Type invariant of the balance columns and of the open transactions.     *)
WalletTypeOK ==
  /\ credits  \in [Wallets -> Int]
  /\ used     \in [Wallets -> Nat]
  /\ journal  \in [Wallets -> Int]
  /\ granted  \in [Wallets -> Nat]
  /\ invoiced \in [Wallets -> Nat]
  /\ tx       \in [Requests -> Tx \cup {NoTx}]
  /\ \A h \in Requests : Deducting(h) => tx[h].amount <= MaxCost

(* No credit is created or lost: whatever the interleaving of deductions,  *)
(* roll-backs and grants, the balance plus totalCreditsUsed is what the    *)
(* wallet was ever given (the `decrement` of deductCredits is relative, so *)
(* a stale read may overdraw but never loses an update).                   *)
Conservation ==
  \A w \in Wallets : credits[w] + used[w] = OpeningBalance(w) + granted[w]

(* A user's CreditLog rows, less those that charge a team, explain the     *)
(* user's balance row for row.                                             *)
UserJournalReconciles ==
  \A w \in UserWallets : credits[w] = SignupCredits + journal[w]

(* Concurrent runs never overdraw a pool, as execution.service.ts says of  *)
(* the transaction the engine uses.                                        *)
NeverOverdrawn == \A w \in Wallets : credits[w] >= 0

(* What the unlocked read does guarantee: every handler adds at most one   *)
(* run to the debt, so a wallet is never overdrawn by as much as MaxCost   *)
(* for every handler the server runs at once.                              *)
BoundedOverdraft ==
  \A w \in Wallets : credits[w] > - (MaxCost * Cardinality(Requests))

(* Why: an open deduction was checked against a balance that included what *)
(* has committed since, so even if every deduction open on w commits, the  *)
(* debt stays under one MaxCost for every handler.                         *)
Exposed(w) == {h \in Requests : Deducting(h) /\ tx[h].wallet = w}

Exposure ==
  \A w \in Wallets :
    credits[w] - MaxCost * Cardinality(Exposed(w)) > - (MaxCost * Cardinality(Requests))

(* The inductive invariant of the wallet.                                  *)
WalletInv ==
  /\ WalletTypeOK
  /\ Conservation
  /\ UserJournalReconciles
  /\ Exposure
=============================================================================
