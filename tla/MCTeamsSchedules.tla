-------------------------- MODULE MCTeamsSchedules --------------------------
(* A team's members, the wallets of a team and a user, or one schedule     *)
(* with a few overlapping calls and firings: they share no column, and one *)
(* of the three is in use in each behaviour.                               *)
EXTENDS TeamMembership, CreditWallet, Scheduler, TLC

CONSTANT MaxBusy   \* bound: calls of the schedule under way at a time, with their tasks

VARIABLE subject   \* what is in use

Alike == Permutations(Calls) \cup Permutations(Firings) \cup Permutations(Patterns)

Busy  == {c \in SchedCalls : handler[c].at \notin {"idle", "done"} \/ task[c] # NoTask}

MCInit ==
  /\ subject \in {"members", "wallets", "schedule"}
  /\ Init /\ WalletInit /\ SchedInit

MCNext ==
  /\ UNCHANGED subject
  /\ \/ subject = "members" /\ Next /\ UNCHANGED <<walletVars, schedVars>>
     \/ subject = "wallets" /\ WalletNext /\ UNCHANGED <<vars, schedVars>>
     \/ /\ subject = "schedule" /\ SchedNext /\ UNCHANGED <<vars, walletVars>>
        /\ Cardinality(Busy') <= MaxBusy

MCSpec == MCInit /\ [][MCNext]_<<subject, vars, walletVars, schedVars>>
=============================================================================
