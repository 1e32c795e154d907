-------------------------- MODULE MCTeamMembership --------------------------
(* A founder and two other users, an unregistered address, a few rows.     *)
EXTENDS TeamMembership, TLC

CallSymmetry == Permutations(Calls) \cup Permutations(RowIds \ {FirstRow})
=============================================================================
