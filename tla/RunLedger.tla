----------------------------- MODULE RunLedger -----------------------------
(***************************************************************************)
(* What the platform promises about the money of a run, whichever endpoint *)
(* took it and however often its execution is repeated: the consumer's     *)
(* credits are taken at most once and before the run succeeds, each        *)
(* success is invoiced at most once, and the creator is paid against an    *)
(* invoice only.                                                           *)
(***************************************************************************)
EXTENDS Naturals

CONSTANTS
  Runs,
  Price  \* [Runs -> Nat]: the credits a run costs

VARIABLES charged, succeeded, billed, settled

ledger == <<charged, succeeded, billed, settled>>

LedgerInit ==
  /\ charged   = [r \in Runs |-> 0]
  /\ succeeded = [r \in Runs |-> 0]
  /\ billed    = [r \in Runs |-> 0]
  /\ settled   = [r \in Runs |-> 0]

Charge(r) ==
  /\ charged[r] = 0 /\ succeeded[r] = 0
  /\ charged' = [charged EXCEPT ![r] = Price[r]]
  /\ UNCHANGED <<succeeded, billed, settled>>

Succeed(r) ==
  /\ succeeded' = [succeeded EXCEPT ![r] = @ + 1]
  /\ UNCHANGED <<charged, billed, settled>>

Bill(r) ==
  /\ billed[r] < succeeded[r]
  /\ billed' = [billed EXCEPT ![r] = @ + 1]
  /\ UNCHANGED <<charged, succeeded, settled>>

Settle(r) ==
  /\ settled[r] < billed[r]
  /\ settled' = [settled EXCEPT ![r] = @ + 1]
  /\ UNCHANGED <<charged, succeeded, billed>>

LedgerNext == \E r \in Runs : Charge(r) \/ Succeed(r) \/ Bill(r) \/ Settle(r)

LedgerSpec == LedgerInit /\ [][LedgerNext]_ledger
=============================================================================
