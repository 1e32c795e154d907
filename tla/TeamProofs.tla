----------------------------- MODULE TeamProofs -----------------------------
(***************************************************************************)
(* The team for every number of users, member rows, calls and faults.      *)
(***************************************************************************)
EXTENDS TeamMembership, FiniteSetTheorems, TLAPS

USE FounderIsUser, FirstRowIsRow, OutsideUsers, FaultBoundIsNat

CallType ==
  [at: {"idle", "read", "check", "current", "write", "swap", "done"}, op: Ops,
   actor: Users, target: Addresses, role: Grantable, mine: Roles,
   row: RowIds, own: RowIds, todo: SUBSET {"promote", "demote"}, fresh: BOOLEAN]

(* A transfer that still has an update to make has named its row; an       *)
(* invite by user id is to a user.                                         *)
Sound(c) ==
  /\ call[c].op = "invite" => call[c].target \in Users
  /\ call[c].todo # {} => call[c].at = "swap"
  /\ call[c].at = "swap" => call[c].row \in heirs

TeamInv ==
  /\ TeamTypeOK /\ OwnersWereNamed
  /\ call \in [Calls -> CallType]
  /\ \A c \in Calls : Sound(c)

(* What may be written into a row: a role other than OWNER, except into a  *)
(* row that was named; a token only with an address.                       *)
Writable(i, r) ==
  /\ r \in Row
  /\ r.token => r.address # Nobody
  /\ r.role = "OWNER" => i \in heirs \cup {FirstRow}

(* The rows a step leaves are as they should be when it writes a writable  *)
(* row, or none.                                                           *)
LEMMA RowsKept ==
  ASSUME TeamInv, heirs \subseteq heirs', heirs' \subseteq RowIds,
         \/ UNCHANGED rows
         \/ \E i \in RowIds, r \in Row : Writable(i, r) /\ rows' = [rows EXCEPT ![i] = r]
  PROVE  /\ rows' \in [RowIds -> Row]
         /\ \A j \in RowIds : rows'[j].token => rows'[j].address # Nobody
         /\ OwnersWereNamed'
<1> USE DEF TeamInv, TeamTypeOK, OwnersWereNamed
<1>1. CASE UNCHANGED rows
  BY <1>1
<1>2. ASSUME NEW i \in RowIds, NEW r \in Row, Writable(i, r), rows' = [rows EXCEPT ![i] = r]
      PROVE  /\ rows' \in [RowIds -> Row]
             /\ \A j \in RowIds : rows'[j].token => rows'[j].address # Nobody
             /\ OwnersWereNamed'
  <2> HIDE DEF Row
  <2>1. rows' \in [RowIds -> Row]
    BY <1>2
  <2>2. \A j \in RowIds : rows'[j] = IF j = i THEN r ELSE rows[j]
    BY <1>2
  <2> QED
    BY <1>2, <2>1, <2>2 DEF Writable
<1> QED
  BY <1>1, <1>2

(* What the next state of a call has to be.                                *)
Becomes(c, r) ==
  /\ call' = [call EXCEPT ![c] = r]
  /\ r.op = "invite" => r.target \in Users
  /\ r.todo # {} => r.at = "swap"
  /\ r.at = "swap" => r.row \in heirs'

(* The new state of one call is enough: the other calls keep theirs.       *)
LEMMA CallsKept ==
  ASSUME TeamInv, heirs \subseteq heirs', NEW c \in Calls, NEW r \in CallType, Becomes(c, r)
  PROVE  call' \in [Calls -> CallType] /\ \A d \in Calls : Sound(d)'
<1> USE DEF TeamInv, Becomes
<1>1. call' \in [Calls -> CallType]
  OBVIOUS
<1>2. \A d \in Calls : call'[d] = IF d = c THEN r ELSE call[d]
  OBVIOUS
<1> QED
  BY <1>1, <1>2 DEF Sound

(* A call that ends is as it should be.                                    *)
LEMMA FinishKeeps ==
  ASSUME NEW c \in Calls, Finish(c)
  PROVE  \E r \in CallType : Becomes(c, r)
<1> DEFINE r == [NoCall EXCEPT !.at = "done"]
<1>1. r \in CallType
  BY DEF NoCall, CallType, Ops, Grantable, Roles, Addresses
<1>2. r.op = "delete" /\ r.todo = {} /\ r.at = "done"
  BY DEF NoCall
<1> QED
  BY <1>1, <1>2 DEF Finish, Becomes

(* So is one that has one update of a transfer behind it.                  *)
LEMMA SwapDoneKeeps ==
  ASSUME TeamInv, heirs \subseteq heirs', NEW c \in Calls, NEW w \in call[c].todo, SwapDone(c, w)
  PROVE  \E r \in CallType : Becomes(c, r)
<1>1. call[c] \in CallType /\ Sound(c) /\ call \in [Calls -> CallType]
  BY DEF TeamInv
<1>2. CASE Finish(c)
  BY <1>2, FinishKeeps
<1>3. CASE call' = [call EXCEPT ![c].todo = @ \ {w}]
  <2> DEFINE r == [call[c] EXCEPT !.todo = call[c].todo \ {w}]
  <2>1. r \in CallType
    BY <1>1 DEF CallType
  <2>2. r.at = call[c].at /\ r.op = call[c].op /\ r.target = call[c].target /\ r.row = call[c].row
    BY <1>1 DEF CallType
  <2>3. call' = [call EXCEPT ![c] = r]
    BY <1>1, <1>3
  <2> HIDE DEF r
  <2> QED
    BY <1>1, <2>1, <2>2, <2>3 DEF Becomes, Sound
<1> QED
  BY <1>2, <1>3 DEF SwapDone

(* The invariant from its parts.                                           *)
LEMMA Assemble ==
  ASSUME call' \in [Calls -> CallType], \A d \in Calls : Sound(d)',
         rows' \in [RowIds -> Row],
         \A j \in RowIds : rows'[j].token => rows'[j].address # Nobody,
         OwnersWereNamed',
         active' \in BOOLEAN, enforced' \in BOOLEAN, calm' \in BOOLEAN, left' \in BOOLEAN,
         heirs' \subseteq RowIds, answered' \subseteq Addresses \cup {Nobody},
         faults' \in 0 .. MaxFaults
  PROVE  TeamInv'
<1>1. \A c \in Calls : call'[c] \in CallType
  OBVIOUS
<1>2. \A c \in Calls :
       /\ call'[c].at \in {"idle", "read", "check", "current", "write", "swap", "done"}
       /\ call'[c].actor \in Users /\ call'[c].target \in Addresses
       /\ call'[c].row \in RowIds /\ call'[c].own \in RowIds
       /\ call'[c].todo \subseteq {"promote", "demote"}
  BY <1>1 DEF CallType
<1> QED
  BY <1>2 DEF TeamInv, TeamTypeOK

(* The three updates that set more than one column of a row.               *)
LEMMA RowUpdates ==
  ASSUME NEW q \in Row, NEW u \in Users, NEW role \in Roles
  PROVE  LET again    == [q EXCEPT !.role = role, !.status = "ACCEPTED"]
             joined   == [q EXCEPT !.user = u, !.status = "ACCEPTED", !.token = FALSE]
             declined == [q EXCEPT !.status = "DECLINED", !.token = FALSE]
         IN /\ again \in Row /\ again.role = role
            /\ again.token = q.token /\ again.address = q.address
            /\ joined \in Row /\ ~joined.token /\ joined.role = q.role
            /\ declined \in Row /\ ~declined.token /\ declined.role = q.role
<1> DEFINE again    == [q EXCEPT !.role = role, !.status = "ACCEPTED"]
           joined   == [q EXCEPT !.user = u, !.status = "ACCEPTED", !.token = FALSE]
           declined == [q EXCEPT !.status = "DECLINED", !.token = FALSE]
<1>1. again \in Row
  BY DEF Row
<1>2. again.role = role /\ again.token = q.token /\ again.address = q.address
  BY DEF Row
<1>3. joined \in Row
  BY DEF Row
<1>4. joined.token = FALSE /\ joined.role = q.role
  BY DEF Row
<1>5. declined \in Row
  BY DEF Row
<1>6. declined.token = FALSE /\ declined.role = q.role
  BY DEF Row
<1> QED
  BY <1>1, <1>2, <1>3, <1>4, <1>5, <1>6

(* What the writes of a handler put into a row.                            *)
LEMMA WritesAreWritable ==
  ASSUME TeamInv, NEW c \in Calls,
         \/ AddMember(c) \/ AnswerInvite(c) \/ ChangeMember(c)
         \/ \E w \in call[c].todo : SwapRole(c, w)
  PROVE  \E i \in RowIds, r \in Row : Writable(i, r) /\ rows' = [rows EXCEPT ![i] = r]
<1> DEFINE Goal == \E i \in RowIds, r \in Row : Writable(i, r) /\ rows' = [rows EXCEPT ![i] = r]
<1>1. /\ call[c].row \in RowIds /\ call[c].own \in RowIds /\ call[c].role \in Grantable
      /\ call[c].target \in Addresses /\ call[c].actor \in Users
      /\ call[c].todo \subseteq {"promote", "demote"}
      /\ call[c].todo # {} => call[c].row \in heirs
      /\ call[c].op = "invite" => call[c].target \in Users
  BY DEF TeamInv, CallType, Sound
<1>2. \A i \in RowIds : Writable(i, rows[i]) /\ rows[i] \in Row
  BY DEF TeamInv, TeamTypeOK, OwnersWereNamed, Writable
<1> DEFINE i == call[c].row
<1>3. CASE AddMember(c)
  <2>1. ASSUME NEW r \in Row, ~r.token \/ r.address # Nobody, r.role # "OWNER", Insert(r)
        PROVE  Goal
    BY <2>1 DEF Insert, Writable
  <2>2. CASE call[c].op = "invite" /\ call[c].fresh /\ Insert(Joined(call[c].target, call[c].role))
    <3> DEFINE r == Joined(call[c].target, call[c].role)
    <3>1. r \in Row /\ ~r.token /\ r.role # "OWNER"
      BY <1>1, <2>2 DEF Row, Grantable, Roles, Joined, Direct, NoRow
    <3> QED
      BY <2>1, <2>2, <3>1
  <2>3. CASE /\ call[c].op = "invite" /\ ~call[c].fresh
             /\ Update(i, [rows[i] EXCEPT !.role = call[c].role, !.status = "ACCEPTED"])
    <3> DEFINE r == [rows[i] EXCEPT !.role = call[c].role, !.status = "ACCEPTED"]
    <3>0. call[c].role \in Roles /\ call[c].role # "OWNER" /\ rows[i] \in Row
      BY <1>1, <1>2 DEF Grantable
    <3>1. r \in Row
      BY <1>1, <3>0, RowUpdates
    <3>4. r.role = call[c].role
      BY <3>0 DEF Row
    <3>2. r.token = rows[i].token /\ r.address = rows[i].address
      BY <1>1, <1>2, RowUpdates DEF Grantable
    <3>3. rows' = [rows EXCEPT ![i] = r]
      BY <2>3 DEF Update
    <3> HIDE DEF r, i
    <3> QED
      BY <1>1, <1>2, <3>0, <3>1, <3>2, <3>3, <3>4 DEF Writable, i
  <2>4. CASE call[c].op = "email" /\ Insert(Invited(call[c].target, call[c].role))
    <3> DEFINE r == Invited(call[c].target, call[c].role)
    <3>1. r \in Row /\ r.address # Nobody /\ r.role # "OWNER"
      BY <1>1 DEF Row, Grantable, Roles, Invited, Addresses
    <3> QED
      BY <2>1, <2>4, <3>1
  <2> QED
    BY <1>3, <2>2, <2>3, <2>4 DEF AddMember
<1>4. CASE AnswerInvite(c)
  <2>1. ASSUME NEW r \in Row, ~r.token, r.role = rows[i].role, rows' = [rows EXCEPT ![i] = r]
        PROVE  Goal
    BY <1>1, <1>2, <2>1 DEF Writable
  <2> DEFINE joined   == [rows[i] EXCEPT !.user = call[c].actor, !.status = "ACCEPTED", !.token = FALSE]
             declined == [rows[i] EXCEPT !.status = "DECLINED", !.token = FALSE]
  <2>2. joined \in Row /\ ~joined.token /\ joined.role = rows[i].role
    BY <1>1, <1>2, RowUpdates DEF Grantable
  <2>3. declined \in Row /\ ~declined.token /\ declined.role = rows[i].role
    BY <1>1, <1>2, RowUpdates DEF Grantable
  <2>4. rows' = [rows EXCEPT ![i] = joined] \/ rows' = [rows EXCEPT ![i] = declined]
    BY <1>4 DEF AnswerInvite, Update
  <2> HIDE DEF joined, declined, i
  <2> QED
    BY <2>1, <2>2, <2>3, <2>4
<1>5. CASE ChangeMember(c)
  <2> DEFINE changed == [rows[i] EXCEPT !.role = call[c].role]
             removed == [NoRow EXCEPT !.status = "GONE"]
  <2>1. /\ changed \in Row /\ changed.role # "OWNER"
        /\ changed.token = rows[i].token /\ changed.address = rows[i].address
    BY <1>1, <1>2 DEF Row, Grantable
  <2>2. removed \in Row /\ removed.role # "OWNER" /\ ~removed.token
    BY DEF NoRow, Row, Roles
  <2>3. rows' = [rows EXCEPT ![i] = changed] \/ rows' = [rows EXCEPT ![i] = removed]
    BY <1>5 DEF ChangeMember, Update
  <2>4. Writable(i, changed) /\ Writable(i, removed)
    BY <1>1, <1>2, <2>1, <2>2 DEF Writable
  <2> HIDE DEF changed, removed
  <2> QED
    BY <1>1, <2>1, <2>2, <2>3, <2>4
<1>6. ASSUME NEW w \in call[c].todo, SwapRole(c, w)
      PROVE  Goal
  <2> DEFINE j == IF w = "promote" THEN call[c].row ELSE call[c].own
             r == [rows[j] EXCEPT !.role = IF w = "promote" THEN "OWNER" ELSE "ADMIN"]
  <2>1. j \in RowIds /\ (w = "promote" => j \in heirs)
    BY <1>1
  <2>2. /\ r \in Row /\ (r.role = "OWNER" => w = "promote")
        /\ r.token = rows[j].token /\ r.address = rows[j].address
    BY <1>2, <2>1 DEF Row, Roles
  <2>3. rows' = [rows EXCEPT ![j] = r]
    BY <1>6 DEF SwapRole, Update
  <2>4. Writable(j, r)
    BY <1>2, <2>1, <2>2 DEF Writable
  <2> HIDE DEF j, r
  <2> QED
    BY <2>1, <2>2, <2>3, <2>4
<1> QED
  BY <1>3, <1>4, <1>5, <1>6

(* Each step of a handler that writes no row keeps the invariant.          *)
LEMMA ChecksKeep ==
  ASSUME TeamInv, NEW c \in Calls,
         \/ GetById(c) \/ FindByToken(c) \/ FindMembership(c) \/ NewMember(c) \/ FindOwn(c)
         \/ Refuse(c) \/ LoseWrite(c) \/ \E w \in Swap : LoseSwap(c, w)
  PROVE  TeamInv'
<1>1. call[c] \in CallType /\ Sound(c)
  BY DEF TeamInv
<1>7. call \in [Calls -> CallType]
  BY DEF TeamInv
<1>3. UNCHANGED rows /\ active' \in BOOLEAN /\ enforced' \in BOOLEAN
  BY DEF GetById, FindByToken, FindMembership, NewMember, FindOwn, Refuse, LoseWrite, LoseSwap,
         teamVars, TeamInv, TeamTypeOK
<1>f. faults' = faults \/ Fault
  BY DEF GetById, FindByToken, FindMembership, NewMember, FindOwn, Refuse, LoseWrite, LoseSwap
<1>4. faults' \in 0 .. MaxFaults
  BY <1>f DEF TeamInv, TeamTypeOK, Fault
<1>c. calm' \in BOOLEAN
  BY DEF GetById, FindByToken, FindMembership, NewMember, FindOwn, Refuse, LoseWrite, LoseSwap,
         TeamInv, TeamTypeOK
<1>l. left' \in BOOLEAN
  BY DEF GetById, FindByToken, FindMembership, NewMember, FindOwn, Refuse, LoseWrite, LoseSwap,
         TeamInv, TeamTypeOK
<1>a. answered' \subseteq Addresses \cup {Nobody}
  BY DEF GetById, FindByToken, FindMembership, NewMember, FindOwn, Refuse, LoseWrite, LoseSwap,
         TeamInv, TeamTypeOK
<1>5. heirs \subseteq heirs' /\ heirs' \subseteq RowIds
  BY <1>1 DEF GetById, FindByToken, FindMembership, NewMember, FindOwn, Refuse, LoseWrite, LoseSwap,
         TeamInv, TeamTypeOK, CallType
<1>6. \E r \in CallType : Becomes(c, r)
  <2>1. CASE GetById(c)
    <3>1. PICK i \in RowIds : call' = [call EXCEPT
             ![c].mine = rows[i].role,
             ![c].at = IF call[c].op \in {"delete", "toggle"} THEN "write" ELSE "check"]
      BY <2>1 DEF GetById
    <3> DEFINE r == [call[c] EXCEPT !.mine = rows[i].role,
                       !.at = IF call[c].op \in {"delete", "toggle"} THEN "write" ELSE "check"]
    <3>2. rows[i].role \in Roles
      BY DEF TeamInv, TeamTypeOK, Row
    <3>3. r \in CallType
      BY <1>1, <3>2 DEF CallType
    <3>4. r.at # "swap" /\ r.op = call[c].op /\ r.target = call[c].target /\ r.todo = call[c].todo
      BY <1>1 DEF CallType
    <3>5. call' = [call EXCEPT ![c] = r]
      BY <1>7, <3>1
    <3> HIDE DEF r
    <3> QED
      BY <1>1, <2>1, <3>3, <3>4, <3>5 DEF Becomes, Sound, GetById
  <2>2. CASE FindByToken(c)
    <3> DEFINE r == [call[c] EXCEPT !.at = "write"]
    <3>1. r \in CallType
      BY <1>1 DEF CallType
    <3>2. r.at # "swap" /\ r.op = call[c].op /\ r.target = call[c].target /\ r.todo = call[c].todo
      BY <1>1 DEF CallType
    <3>3. call' = [call EXCEPT ![c] = r]
      BY <1>7, <2>2 DEF FindByToken, Goto
    <3> HIDE DEF r
    <3> QED
      BY <1>1, <2>2, <3>1, <3>2, <3>3 DEF Becomes, Sound, FindByToken
  <2>3. CASE FindMembership(c)
    <3>1. PICK i \in RowIds : call' = [call EXCEPT ![c].row = i,
             ![c].at = IF call[c].op = "transfer" THEN "current" ELSE "write"]
      BY <2>3 DEF FindMembership, RowsOf
    <3> DEFINE r == [call[c] EXCEPT !.row = i,
                       !.at = IF call[c].op = "transfer" THEN "current" ELSE "write"]
    <3>2. r \in CallType
      BY <1>1 DEF CallType
    <3>3. r.at # "swap" /\ r.op = call[c].op /\ r.target = call[c].target /\ r.todo = call[c].todo
      BY <1>1 DEF CallType
    <3>4. call' = [call EXCEPT ![c] = r]
      BY <1>7, <3>1
    <3> HIDE DEF r
    <3> QED
      BY <1>1, <2>3, <3>2, <3>3, <3>4 DEF Becomes, Sound, FindMembership
  <2>4. CASE NewMember(c)
    <3> DEFINE r == [call[c] EXCEPT !.fresh = TRUE, !.at = "write"]
    <3>1. r \in CallType
      BY <1>1 DEF CallType
    <3>2. r.at # "swap" /\ r.op = call[c].op /\ r.target = call[c].target /\ r.todo = call[c].todo
      BY <1>1 DEF CallType
    <3>3. call' = [call EXCEPT ![c] = r]
      BY <1>7, <2>4 DEF NewMember
    <3> HIDE DEF r
    <3> QED
      BY <1>1, <2>4, <3>1, <3>2, <3>3 DEF Becomes, Sound, NewMember
  <2>5. CASE FindOwn(c)
    <3>1. PICK i \in RowIds : call' = [call EXCEPT ![c].own = i, ![c].todo = Swap, ![c].at = "swap"]
      BY <2>5 DEF FindOwn, RowsOf
    <3> DEFINE r == [call[c] EXCEPT !.own = i, !.todo = Swap, !.at = "swap"]
    <3>2. r \in CallType
      BY <1>1 DEF CallType, Swap
    <3>3. r.at = "swap" /\ r.op = call[c].op /\ r.target = call[c].target /\ r.row = call[c].row
      BY <1>1 DEF CallType
    <3>4. call' = [call EXCEPT ![c] = r]
      BY <1>7, <3>1
    <3> HIDE DEF r
    <3> QED
      BY <1>1, <2>5, <3>2, <3>3, <3>4 DEF Becomes, Sound, FindOwn
  <2>6. CASE Refuse(c) \/ LoseWrite(c)
    BY <2>6, FinishKeeps DEF Refuse, LoseWrite
  <2>7. CASE \E w \in Swap : LoseSwap(c, w)
    <3>1. PICK w \in call[c].todo : SwapDone(c, w)
      BY <2>7 DEF LoseSwap
    <3> QED
      BY <3>1, SwapDoneKeeps, <1>5
  <2> QED
    BY <2>1, <2>2, <2>3, <2>4, <2>5, <2>6, <2>7
<1> QED
  BY <1>3, <1>4, <1>c, <1>l, <1>a, <1>5, <1>6, RowsKept, CallsKept, Assemble

(* A write of a handler keeps the invariant.                               *)
LEMMA WriteKeeps ==
  ASSUME TeamInv, NEW c \in Calls, Write(c)
  PROVE  TeamInv'
<1>1. /\ active' \in BOOLEAN /\ enforced' \in BOOLEAN
      /\ UNCHANGED <<calm, heirs, faults>>
  BY DEF Write, TeamInv, TeamTypeOK
<1>2. left' \in BOOLEAN
  BY DEF Write, TeamInv, TeamTypeOK
<1>7. answered' \subseteq Addresses \cup {Nobody}
  <2>1. call[c].row \in RowIds /\ answered \subseteq Addresses \cup {Nobody}
    BY DEF TeamInv, TeamTypeOK
  <2>2. rows[call[c].row].address \in Addresses \cup {Nobody}
    BY <2>1 DEF TeamInv, TeamTypeOK, Row
  <2> QED
    BY <2>1, <2>2 DEF Write
<1>3. \/ UNCHANGED rows
      \/ AddMember(c) \/ AnswerInvite(c) \/ ChangeMember(c)
  BY DEF Write
<1>4. \/ UNCHANGED rows
      \/ \E i \in RowIds, r \in Row : Writable(i, r) /\ rows' = [rows EXCEPT ![i] = r]
  BY <1>3, WritesAreWritable
<1>5. \E r \in CallType : Becomes(c, r)
  BY FinishKeeps DEF Write
<1>6. heirs \subseteq heirs' /\ heirs' \subseteq RowIds /\ calm' \in BOOLEAN /\ faults' \in 0 .. MaxFaults
  BY <1>1 DEF TeamInv, TeamTypeOK
<1> QED
  BY <1>1, <1>2, <1>4, <1>5, <1>6, <1>7, RowsKept, CallsKept, Assemble

(* So does an update of a transfer.                                        *)
LEMMA TransferKeeps ==
  ASSUME TeamInv, NEW c \in Calls, NEW w \in Swap, Transfer(c, w)
  PROVE  TeamInv'
<1>1. /\ heirs \subseteq heirs' /\ heirs' \subseteq RowIds
      /\ active' \in BOOLEAN /\ enforced' \in BOOLEAN /\ calm' \in BOOLEAN /\ left' \in BOOLEAN
      /\ answered' \subseteq Addresses \cup {Nobody} /\ faults' \in 0 .. MaxFaults
  BY DEF Transfer, TeamInv, TeamTypeOK
<1>2. \E i \in RowIds, r \in Row : Writable(i, r) /\ rows' = [rows EXCEPT ![i] = r]
  BY WritesAreWritable DEF Transfer
<1>3. \E r \in CallType : Becomes(c, r)
  BY <1>1, SwapDoneKeeps DEF Transfer
<1> QED
  BY <1>1, <1>2, <1>3, RowsKept, CallsKept, Assemble

(* A call that arrives keeps the invariant.                                *)
LEMMA ServeKeeps ==
  ASSUME TeamInv, NEW c \in Calls, NEW op \in Ops, NEW actor \in Users, NEW target \in Addresses,
         NEW role \in Grantable, NEW i \in RowIds, Serve(c, op, actor, target, role, i)
  PROVE  TeamInv'
<1> DEFINE r == [NoCall EXCEPT !.at = "read", !.op = op, !.actor = actor,
                  !.target = target, !.role = role, !.row = i]
<1>1. r \in CallType
  BY DEF NoCall, CallType, Roles
<1>2. r.op = op /\ r.target = target /\ r.todo = {} /\ r.at = "read"
  BY DEF NoCall
<1>3. call' = [call EXCEPT ![c] = r]
  BY DEF Serve
<1> HIDE DEF r
<1>4. Becomes(c, r)
  BY <1>2, <1>3 DEF Becomes, Serve
<1>5. /\ heirs \subseteq heirs' /\ heirs' \subseteq RowIds /\ UNCHANGED rows
      /\ active' \in BOOLEAN /\ enforced' \in BOOLEAN /\ left' \in BOOLEAN
      /\ answered' \subseteq Addresses \cup {Nobody} /\ faults' \in 0 .. MaxFaults
  BY DEF Serve, teamVars, TeamInv, TeamTypeOK
<1>6. calm' \in BOOLEAN
  BY DEF Serve, TeamInv, TeamTypeOK
<1> QED
  BY <1>1, <1>4, <1>5, <1>6, RowsKept, CallsKept, Assemble

(* The invariant is inductive.                                             *)
LEMMA TeamInductive == Spec => []TeamInv
<1>1. Init => TeamInv
  <2> SUFFICES ASSUME Init
               PROVE  TeamInv
    OBVIOUS
  <2>1. NoCall \in CallType /\ NoCall.todo = {} /\ NoCall.op = "delete" /\ NoCall.at = "idle"
    BY DEF NoCall, CallType, Ops, Grantable, Roles, Addresses
  <2>2. Joined(Founder, "OWNER") \in Row /\ ~Joined(Founder, "OWNER").token
    BY DEF Joined, Direct, NoRow, Row, Roles
  <2>3. NoRow \in Row /\ ~NoRow.token /\ NoRow.role # "OWNER"
    BY DEF NoRow, Row, Roles
  <2>4. call \in [Calls -> CallType] /\ \A c \in Calls : Sound(c)
    BY <2>1 DEF Init, Sound
  <2>5. \A i \in RowIds : rows[i] = IF i = FirstRow THEN Joined(Founder, "OWNER") ELSE NoRow
    BY DEF Init
  <2>6. rows \in [RowIds -> Row] /\ \A i \in RowIds : ~rows[i].token
    BY <2>2, <2>3, <2>5 DEF Init
  <2>7. OwnersWereNamed
    BY <2>3, <2>5 DEF OwnersWereNamed
  <2>8. \A c \in Calls :
          /\ call[c].at \in {"idle", "read", "check", "current", "write", "swap", "done"}
          /\ call[c].actor \in Users /\ call[c].target \in Addresses
          /\ call[c].row \in RowIds /\ call[c].own \in RowIds
          /\ call[c].todo \subseteq {"promote", "demote"}
    BY <2>4 DEF CallType
  <2>9. active \in BOOLEAN /\ enforced \in BOOLEAN /\ calm \in BOOLEAN /\ left \in BOOLEAN
    BY DEF Init
  <2>10. heirs \subseteq RowIds /\ answered \subseteq Addresses \cup {Nobody} /\ faults \in 0 .. MaxFaults
    BY DEF Init
  <2> QED
    BY <2>4, <2>6, <2>7, <2>8, <2>9, <2>10 DEF TeamInv, TeamTypeOK
<1>2. TeamInv /\ [Next]_vars => TeamInv'
  <2> SUFFICES ASSUME TeamInv, [Next]_vars
               PROVE  TeamInv'
    OBVIOUS
  <2>1. ASSUME NEW c \in Calls, NEW op \in Ops, NEW actor \in Users, NEW target \in Addresses,
               NEW role \in Grantable \cap Asked, NEW i \in RowIds,
               Serve(c, op, actor, target, role, i)
        PROVE  TeamInv'
    BY <2>1, ServeKeeps
  <2>2. ASSUME NEW c \in Calls, Handle(c)
        PROVE  TeamInv'
    BY <2>2, ChecksKeep, WriteKeeps, TransferKeeps DEF Handle
  <2>3. CASE UNCHANGED vars
    BY <2>3 DEF vars, teamVars, TeamInv, TeamTypeOK, OwnersWereNamed, Sound
  <2> QED
    BY <2>1, <2>2, <2>3 DEF Next
<1> QED
  BY <1>1, <1>2, PTL DEF Spec

(* The team, its rows and its handlers keep their types, and an invite     *)
(* that can be accepted names an address.                                  *)
THEOREM TeamTypes == Spec => []TeamTypeOK
<1>1. TeamInv => TeamTypeOK
  BY DEF TeamInv
<1> QED
  BY <1>1, TeamInductive, PTL

(* However many calls interleave and fail, a row carries the role OWNER    *)
(* only if it is the founder's or an owner's transferOwnership named it.   *)
THEOREM OwnersAreNamed == Spec => []OwnersWereNamed
<1>1. TeamInv => OwnersWereNamed
  BY DEF TeamInv
<1> QED
  BY <1>1, TeamInductive, PTL

-----------------------------------------------------------------------------
(* Calls that do not overlap.                                              *)

Acting(c) == call[c].at \notin {"idle", "done"}
Single    == calm => \A c, d \in Calls : Acting(c) /\ Acting(d) => c = d

(* The unique index, and to whom an open invite is bound.                  *)
OneRowEach ==
  /\ \A i, j \in RowIds : Live(i) /\ Live(j) /\ rows[i].user = rows[j].user
                          /\ rows[i].user # Nobody => i = j
  /\ \A i \in RowIds : rows[i].status = "PENDING" =>
       rows[i].user = IF rows[i].address \in Users THEN rows[i].address ELSE Nobody

(* The rows of the stranger, and what a handler that is about to write     *)
(* knows of them.                                                          *)
Open(i) == Live(i) /\ rows[i].address = Stranger

Inviting(k) ==
  k.at = "write" =>
    /\ k.op = "email" /\ k.target = Stranger => \A i \in RowIds : ~Open(i)
    /\ k.op = "invite" /\ ~k.fresh => ~Open(k.row)

InvitesKnown ==
  calm /\ Stranger \notin answered =>
    /\ \A i \in RowIds : Open(i) => rows[i].status = "PENDING"
    /\ \A i, j \in RowIds : Open(i) /\ Open(j) => i = j
    /\ \A c \in Calls : Inviting(call[c])

(* While no call failed and no owner left: the owner, and what a handler   *)
(* has found out about the rows it will write.                             *)
Pure    == calm /\ faults = 0 /\ ~left
Owns(i) == rows[i].role = "OWNER"

Knows(k) ==
  /\ k.op = "transfer" /\ k.at \in {"check", "current"} =>
       \E i \in RowIds : Owns(i) /\ rows[i].user = k.actor
  /\ k.at = "current" => Accepted(k.row) /\ rows[k.row].user = k.target
  /\ k.at = "write" /\ k.op = "changeRole" => ~Owns(k.row)
  /\ k.at = "write" /\ k.op = "invite" /\ ~k.fresh => ~Accepted(k.row)
  /\ k.at = "write" /\ k.op \in {"accept", "decline"} => rows[k.row].status = "PENDING"
  /\ k.at = "swap" =>
       /\ k.row # k.own /\ Accepted(k.row) /\ Accepted(k.own) /\ k.todo # {}
       /\ \A i \in RowIds : Owns(i) <=> \/ i = k.row /\ "promote" \notin k.todo
                                        \/ i = k.own /\ "demote" \in k.todo

OneOwner == \E o \in RowIds : \A i \in RowIds : Owns(i) <=> i = o

OwnershipKnown ==
  Pure =>
    /\ \A i \in RowIds : Owns(i) => Accepted(i)
    /\ (\A c \in Calls : call[c].at # "swap") => OneOwner
    /\ \A c \in Calls : Knows(call[c])

(* What a handler carries from one await to the next.                      *)
Carries(k) ==
  /\ k.op \in {"invite", "changeRole", "remove", "transfer"} => k.target \in Users
  /\ k.at = "check" => k.op \notin {"accept", "decline"}
  /\ k.at = "current" => k.op = "transfer"

SequentialInv ==
  /\ TeamInv /\ Single /\ OneRowEach /\ InvitesKnown /\ OwnershipKnown
  /\ \A c \in Calls : Carries(call[c])

(* What a handler's step leaves of the calls, and of the histories.        *)
Steps(c) ==
  /\ \A d \in Calls \ {c} : call'[d] = call[d]
  /\ Acting(c) /\ calm' = calm
  /\ faults' = faults \/ faults' # 0
  /\ left => left'
  /\ answered \subseteq answered'

LEMMA HandleSteps ==
  ASSUME TeamInv, NEW c \in Calls, Handle(c)
  PROVE  Steps(c)
<1>0. \A d \in Calls \ {c} : call'[d] = call[d]
  BY DEF Handle, GetById, FindByToken, FindMembership, NewMember, FindOwn, Refuse, LoseWrite, LoseSwap,
         Write, Transfer, SwapDone, Finish, Goto, TeamInv
<1>1. faults \in Nat /\ (call[c].todo # {} => call[c].at = "swap")
  BY DEF TeamInv, TeamTypeOK, Sound
<1>2. Acting(c)
  BY <1>1 DEF Handle, GetById, FindByToken, FindMembership, NewMember, FindOwn, Refuse, LoseWrite,
         LoseSwap, Write, Transfer, Acting
<1>3. /\ calm' = calm /\ (left => left') /\ answered \subseteq answered'
      /\ faults' = faults \/ Fault
  <2>1. CASE GetById(c) \/ FindByToken(c) \/ FindMembership(c) \/ NewMember(c) \/ Refuse(c)
    BY <2>1 DEF GetById, FindByToken, FindMembership, NewMember, Refuse
  <2>5. CASE FindOwn(c)
    BY <2>5 DEF FindOwn
  <2>2. CASE Write(c)
    BY <2>2 DEF Write
  <2>3. CASE LoseWrite(c)
    BY <2>3 DEF LoseWrite
  <2>4. CASE \E w \in Swap : Transfer(c, w) \/ LoseSwap(c, w)
    BY <2>4 DEF Transfer, LoseSwap
  <2> QED
    BY <2>1, <2>2, <2>3, <2>4, <2>5 DEF Handle
<1>4. faults' = faults \/ faults' # 0
  BY <1>1, <1>3 DEF Fault
<1> QED
  BY <1>0, <1>2, <1>3, <1>4 DEF Steps

LEMMA SingleStays ==
  ASSUME Single, NEW c \in Calls, Steps(c)
  PROVE  Single'
  BY DEF Single, Steps, Acting

(* The handlers that are not acting know nothing and expect nothing.       *)
LEMMA RestingKnow ==
  ASSUME NEW k, k.at \in {"idle", "done", "read"}
  PROVE  Knows(k) /\ Inviting(k)
  BY DEF Knows, Inviting

(* While rows stay as they are, it is enough to look at the one handler.   *)
LEMMA ReadsKeep ==
  ASSUME SequentialInv, TeamInv', NEW c \in Calls, Steps(c), UNCHANGED rows, call[c].at # "swap",
         Carries(call'[c]),
         calm /\ Stranger \notin answered => Inviting(call'[c]),
         faults' = faults /\ ~left' /\ Pure => Knows(call'[c])
  PROVE  SequentialInv'
<1>1. Single' /\ OneRowEach'
  BY SingleStays DEF SequentialInv, OneRowEach, Live
<1>2. ASSUME calm', NEW d \in Calls PROVE d = c \/ call'[d].at \in {"idle", "done"}
  BY <1>2 DEF SequentialInv, Single, Steps, Acting
<1>3. InvitesKnown'
  <2>1. ASSUME calm', Stranger \notin answered'
        PROVE  calm /\ Stranger \notin answered
    BY <2>1 DEF Steps
  <2>2. ASSUME calm', Stranger \notin answered', NEW d \in Calls PROVE Inviting(call[d])'
    <3>1. CASE d = c
      <4>1. Inviting(call'[c])
        BY <2>1, <2>2
      <4> QED
        BY <3>1, <4>1 DEF Inviting, Open, Live
    <3>2. CASE d # c
      BY <1>2, <2>2, <3>2 DEF Inviting
    <3> QED
      BY <3>1, <3>2
  <2> QED
    BY <2>1, <2>2 DEF SequentialInv, InvitesKnown, Open, Live
<1>4. OwnershipKnown'
  <2>1. ASSUME Pure' PROVE Pure /\ faults' = faults /\ ~left'
    BY <2>1 DEF Steps, Pure, SequentialInv, TeamInv, TeamTypeOK
  <2>2. ASSUME Pure', NEW d \in Calls PROVE Knows(call[d])'
    <3>1. CASE d = c
      <4>1. Knows(call'[c])
        BY <2>1, <2>2
      <4> QED
        BY <3>1, <4>1 DEF Knows, Owns, Accepted
    <3>2. CASE d # c
      <4>1. call'[d].at \in {"idle", "done"}
        BY <1>2, <2>2, <3>2 DEF Pure
      <4> QED
        BY <4>1 DEF Knows
    <3> QED
      BY <3>1, <3>2
  <2>3. ASSUME Pure' PROVE \A i \in RowIds : Owns(i)' => Accepted(i)'
    BY <2>1, <2>3 DEF SequentialInv, OwnershipKnown, Owns, Accepted
  <2>4. ASSUME Pure' PROVE OneOwner'
    <3>1. Pure /\ calm'
      BY <2>1, <2>4 DEF Pure
    <3>2. \A d \in Calls : call[d].at # "swap"
      <4> SUFFICES ASSUME NEW d \in Calls, d # c PROVE call[d].at # "swap"
        OBVIOUS
      <4> QED
        BY <1>2, <3>1 DEF Steps
    <3>3. OneOwner
      BY <3>1, <3>2 DEF SequentialInv, OwnershipKnown
    <3> QED
      BY <3>3 DEF OneOwner, Owns
  <2> QED
    BY <2>2, <2>3, <2>4 DEF OwnershipKnown
<1> QED
  BY <1>1, <1>3, <1>4 DEF SequentialInv, Steps, Carries

LEMMA FinishLeaves ==
  ASSUME TeamInv, NEW c \in Calls, Finish(c)
  PROVE  call'[c].at = "done" /\ Carries(call'[c]) /\ \A d \in Calls \ {c} : call'[d] = call[d]
  BY DEF Finish, NoCall, TeamInv, Carries

(* The steps that read.                                                    *)
LEMMA ReadersKeep ==
  ASSUME SequentialInv, TeamInv', NEW c \in Calls,
         \/ GetById(c) \/ FindByToken(c) \/ FindMembership(c) \/ NewMember(c) \/ FindOwn(c)
         \/ Refuse(c) \/ LoseWrite(c)
  PROVE  SequentialInv'
<1>0. Steps(c)
  BY HandleSteps DEF Handle, SequentialInv
<1>1. UNCHANGED rows /\ call[c].at # "swap" /\ call[c] \in CallType /\ call \in [Calls -> CallType]
      /\ TeamInv /\ Carries(call[c])
  BY DEF GetById, FindByToken, FindMembership, NewMember, FindOwn, Refuse, LoseWrite, teamVars,
         SequentialInv, TeamInv
<1>a. Pure => Knows(call[c]) /\ (\A i \in RowIds : Owns(i) => Accepted(i)) /\ OneOwner
  <2>1. ASSUME Pure, NEW d \in Calls PROVE call[d].at # "swap"
    BY <1>0, <1>1, <2>1 DEF SequentialInv, Single, Pure, Steps, Acting
  <2> QED
    BY <2>1 DEF SequentialInv, OwnershipKnown
<1>b. calm /\ Stranger \notin answered =>
        \A i \in RowIds : Open(i) => rows[i].status = "PENDING"
  BY DEF SequentialInv, InvitesKnown
<1>2. CASE GetById(c)
  <2>1. PICK i \in RowIds :
         /\ Accepted(i) /\ rows[i].user = call[c].actor /\ Authorised(c, rows[i].role)
         /\ call' = [call EXCEPT
               ![c].mine = rows[i].role,
               ![c].at = IF call[c].op \in {"delete", "toggle"} THEN "write" ELSE "check"]
    BY <1>2 DEF GetById
  <2>2. /\ call'[c].op = call[c].op /\ call'[c].actor = call[c].actor
        /\ call'[c].target = call[c].target
        /\ call'[c].at = IF call[c].op \in {"delete", "toggle"} THEN "write" ELSE "check"
        /\ call[c].op \notin {"accept", "decline"}
    BY <1>1, <1>2, <2>1 DEF CallType, GetById
  <2>3. Inviting(call'[c]) /\ Carries(call'[c])
    BY <1>1, <2>2 DEF Inviting, Carries
  <2>4. call[c].op = "transfer" => Owns(i)
    BY <2>1 DEF Authorised, Owns
  <2>5. Knows(call'[c])
    <3>1. CASE call'[c].at = "write"
      BY <2>2, <3>1 DEF Knows
    <3>2. CASE call'[c].at = "check"
      BY <2>1, <2>2, <2>4, <3>2 DEF Knows
    <3> QED
      BY <2>2, <3>1, <3>2
  <2> QED
    BY <1>0, <1>1, <2>3, <2>5, ReadsKeep
<1>3. CASE FindByToken(c)
  <2>1. /\ call[c].op \in {"accept", "decline"} /\ rows[call[c].row].status = "PENDING"
        /\ call' = [call EXCEPT ![c].at = "write"]
    BY <1>3 DEF FindByToken, Goto
  <2>2. call'[c].op = call[c].op /\ call'[c].at = "write" /\ call'[c].row = call[c].row
    BY <1>1, <2>1 DEF CallType
  <2>3. Inviting(call'[c]) /\ Knows(call'[c]) /\ Carries(call'[c])
    BY <2>1, <2>2 DEF Inviting, Knows, Carries
  <2> QED
    BY <1>0, <1>1, <2>3, ReadsKeep
<1>4. CASE FindMembership(c)
  <2>1. PICK i \in RowIds :
         /\ Live(i) /\ rows[i].user = call[c].target /\ Eligible(c, i)
         /\ call' = [call EXCEPT ![c].row = i, ![c].at =
                       IF call[c].op = "transfer" THEN "current" ELSE "write"]
    BY <1>4 DEF FindMembership, RowsOf
  <2>2. /\ call'[c].op = call[c].op /\ call'[c].actor = call[c].actor /\ call'[c].row = i
        /\ call'[c].target = call[c].target /\ call'[c].fresh = call[c].fresh
        /\ call'[c].at = IF call[c].op = "transfer" THEN "current" ELSE "write"
    BY <1>1, <2>1 DEF CallType
  <2>3. call[c].at = "check" /\ call[c].op # "email" /\ call[c].op \notin {"accept", "decline"}
    BY <1>1, <1>4 DEF FindMembership, Carries
  <2>4. /\ call[c].op = "transfer" => Accepted(i)
        /\ call[c].op = "changeRole" => ~Owns(i)
        /\ call[c].op = "invite" => ~Accepted(i)
    BY <2>1 DEF Eligible, Owns
  <2>5. call[c].op = "invite" => call[c].target \in Users
    BY <1>1 DEF Carries
  <2>6. Carries(call'[c])
    BY <1>1, <2>2 DEF Carries
  <2>7. ASSUME calm, Stranger \notin answered PROVE Inviting(call'[c])
    <3>1. ASSUME Open(i), call[c].op = "invite" PROVE FALSE
      <4>1. rows[i].status = "PENDING" /\ rows[i].address = Stranger
        BY <1>b, <2>7, <3>1 DEF Open
      <4>2. rows[i].user = Nobody
        BY <4>1 DEF SequentialInv, OneRowEach
      <4> QED
        BY <2>1, <2>5, <3>1, <4>2
    <3> QED
      BY <2>2, <2>3, <3>1 DEF Inviting
  <2>8. ASSUME Pure PROVE Knows(call'[c])
    <3>1. call[c].op = "transfer" => \E o \in RowIds : Owns(o) /\ rows[o].user = call[c].actor
      BY <1>a, <2>3, <2>8 DEF Knows
    <3>2. CASE call[c].op = "transfer"
      <4>1. call'[c].at = "current" /\ call'[c].op = "transfer"
        BY <2>2, <3>2
      <4> QED
        BY <2>1, <2>2, <2>4, <3>1, <3>2, <4>1 DEF Knows
    <3>3. CASE call[c].op # "transfer"
      <4>1. call'[c].at = "write" /\ call'[c].op \notin {"transfer", "accept", "decline"}
        BY <2>2, <2>3, <3>3
      <4> QED
        BY <2>2, <2>4, <4>1 DEF Knows
    <3> QED
      BY <3>2, <3>3
  <2> QED
    BY <1>0, <1>1, <2>6, <2>7, <2>8, ReadsKeep
<1>5. CASE NewMember(c)
  <2>1. /\ call[c].at = "check"
        /\ \/ call[c].op = "invite"
           \/ call[c].op = "email" /\ NotInvited(c)
        /\ call' = [call EXCEPT ![c].fresh = TRUE, ![c].at = "write"]
    BY <1>5 DEF NewMember
  <2>2. /\ call'[c].op = call[c].op /\ call'[c].at = "write" /\ call'[c].fresh = TRUE
        /\ call'[c].target = call[c].target
    BY <1>1, <2>1 DEF CallType
  <2>3. Carries(call'[c]) /\ Knows(call'[c])
    BY <1>1, <2>1, <2>2 DEF Carries, Knows
  <2>4. ASSUME calm, Stranger \notin answered PROVE Inviting(call'[c])
    <3>1. ASSUME call[c].op = "email", call[c].target = Stranger
          PROVE  \A i \in RowIds : ~Open(i)
      BY <1>b, <2>1, <2>4, <3>1 DEF NotInvited, Open
    <3> QED
      BY <2>2, <3>1 DEF Inviting
  <2> QED
    BY <1>0, <1>1, <2>3, <2>4, ReadsKeep
<1>6. CASE FindOwn(c)
  <2>1. PICK j \in RowIds : /\ Live(j) /\ rows[j].user = call[c].actor
                            /\ call' = [call EXCEPT ![c].own = j, ![c].todo = Swap, ![c].at = "swap"]
    BY <1>6 DEF FindOwn, RowsOf
  <2>2. /\ call'[c].op = call[c].op /\ call'[c].at = "swap" /\ call'[c].own = j
        /\ call'[c].row = call[c].row /\ call'[c].todo = Swap /\ call'[c].target = call[c].target
    BY <1>1, <2>1 DEF CallType
  <2>3. /\ call[c].at = "current" /\ call[c].op = "transfer"
        /\ left' = (left \/ Self(c))
    BY <1>1, <1>6 DEF FindOwn, Carries
  <2>4. Carries(call'[c]) /\ Inviting(call'[c])
    BY <1>1, <2>2 DEF Carries, Inviting
  <2>5. ASSUME Pure, ~left' PROVE Knows(call'[c])
    <3>1. call[c].target # call[c].actor /\ call[c].actor \in Users
      BY <1>1, <2>3, <2>5 DEF Self, CallType
    <3>2. Accepted(call[c].row) /\ rows[call[c].row].user = call[c].target
      BY <1>a, <2>3, <2>5 DEF Knows
    <3>3. PICK o \in RowIds : Owns(o) /\ rows[o].user = call[c].actor
      BY <1>a, <2>3, <2>5 DEF Knows
    <3>4. Accepted(o) /\ Live(o)
      BY <1>a, <2>5, <3>3 DEF Accepted, Live
    <3>5. o = j
      BY <2>1, <3>1, <3>3, <3>4 DEF SequentialInv, OneRowEach
    <3>6. \A i \in RowIds : Owns(i) <=> i = j
      BY <1>a, <2>5, <3>3, <3>5 DEF OneOwner
    <3>7. call[c].row # j
      BY <2>1, <3>1, <3>2
    <3> QED
      BY <2>2, <2>3, <3>2, <3>4, <3>5, <3>6, <3>7 DEF Knows, Swap
  <2> QED
    BY <1>0, <1>1, <2>4, <2>5, ReadsKeep
<1>7. CASE Refuse(c) \/ LoseWrite(c)
  <2>1. call'[c].at = "done" /\ Carries(call'[c])
    BY <1>1, <1>7, FinishLeaves DEF Refuse, LoseWrite
  <2> QED
    BY <1>0, <1>1, <2>1, RestingKnow, ReadsKeep
<1> QED
  BY <1>2, <1>3, <1>4, <1>5, <1>6, <1>7

(* A call that arrives is alone, or the calls overlap from now on.         *)
LEMMA ServeKeepsOrder ==
  ASSUME SequentialInv, TeamInv', NEW c \in Calls, NEW op \in Ops, NEW actor \in Users,
         NEW target \in Addresses, NEW role \in Grantable, NEW i \in RowIds,
         Serve(c, op, actor, target, role, i)
  PROVE  SequentialInv'
<1> DEFINE r == [NoCall EXCEPT !.at = "read", !.op = op, !.actor = actor,
                  !.target = target, !.role = role, !.row = i]
<1>1. r.at = "read" /\ r.op = op /\ r.target = target
  BY DEF NoCall
<1>2. /\ call[c].at = "idle" /\ call' = [call EXCEPT ![c] = r] /\ call \in [Calls -> CallType]
      /\ op \in {"invite", "changeRole", "remove", "transfer"} => target \in Users
      /\ calm' = (calm /\ Quiet) /\ UNCHANGED <<rows, left, answered, faults>>
  BY DEF Serve, teamVars, SequentialInv, TeamInv
<1> HIDE DEF r
<1>3. call'[c] = r /\ \A d \in Calls \ {c} : call'[d] = call[d]
  BY <1>2
<1>4. \A d \in Calls : Carries(call'[d])
  BY <1>1, <1>2, <1>3 DEF Carries, SequentialInv
<1>5. ASSUME calm' PROVE calm /\ \A d \in Calls : call'[d].at \in {"idle", "done", "read"}
                                              /\ call[d].at \in {"idle", "done"}
  BY <1>1, <1>2, <1>3, <1>5 DEF Quiet
<1>6. Single' /\ OneRowEach'
  BY <1>2, <1>3, <1>5 DEF Single, SequentialInv, OneRowEach, Live, Acting, Quiet
<1>7. InvitesKnown'
  <2>1. ASSUME calm', NEW d \in Calls PROVE Inviting(call[d])'
    BY <1>5, <2>1 DEF Inviting
  <2> QED
    BY <1>2, <1>5, <2>1 DEF SequentialInv, InvitesKnown, Open, Live
<1>8. OwnershipKnown'
  <2>1. ASSUME calm', NEW d \in Calls PROVE Knows(call[d])'
    BY <1>5, <2>1 DEF Knows
  <2>2. ASSUME Pure' PROVE (\A j \in RowIds : Owns(j) => Accepted(j)) /\ OneOwner
    <3>1. Pure /\ \A d \in Calls : call[d].at # "swap"
      BY <1>2, <1>5, <2>2 DEF Pure
    <3> QED
      BY <3>1 DEF SequentialInv, OwnershipKnown
  <2> QED
    BY <1>2, <2>1, <2>2 DEF OwnershipKnown, OneOwner, Owns, Accepted, Pure
<1> QED
  BY <1>4, <1>6, <1>7, <1>8 DEF SequentialInv, Carries

-----------------------------------------------------------------------------
(* The writes.                                                             *)

(* One row is written.                                                     *)
LEMMA OneWritten ==
  ASSUME TeamInv, NEW i \in RowIds, NEW r, rows' = [rows EXCEPT ![i] = r]
  PROVE  rows'[i] = r /\ \A j \in RowIds \ {i} : rows'[j] = rows[j]
  BY DEF TeamInv, TeamTypeOK

LEMMA OneRowStays ==
  ASSUME OneRowEach, TeamInv, NEW i \in RowIds, NEW r, rows' = [rows EXCEPT ![i] = r],
         r.status = "GONE" \/ MayBind(r.user, i),
         r.status = "PENDING" => r.user = IF r.address \in Users THEN r.address ELSE Nobody
  PROVE  OneRowEach'
<1>1. rows'[i] = r /\ \A j \in RowIds \ {i} : rows'[j] = rows[j]
  BY OneWritten
<1>2. ASSUME NEW j \in RowIds, NEW k \in RowIds, Live(j)', Live(k)', rows'[j].user = rows'[k].user,
             rows'[j].user # Nobody
      PROVE  j = k
  <2>1. ASSUME NEW x \in RowIds, x # i, Live(x)', Live(i)', rows'[x].user = rows'[i].user,
               rows'[x].user # Nobody
        PROVE  FALSE
    <3>1. Live(x) /\ rows[x].user = r.user /\ r.user # Nobody /\ r.status # "GONE"
      BY <1>1, <2>1 DEF Live
    <3> QED
      BY <2>1, <3>1 DEF MayBind, RowsOf
  <2>2. ASSUME j # i, k # i PROVE j = k
    BY <1>1, <1>2, <2>2 DEF OneRowEach, Live
  <2> QED
    BY <1>2, <2>1, <2>2
<1>3. \A j \in RowIds : rows'[j].status = "PENDING" =>
        rows'[j].user = IF rows'[j].address \in Users THEN rows'[j].address ELSE Nobody
  BY <1>1 DEF OneRowEach
<1> QED
  BY <1>2, <1>3 DEF OneRowEach

(* A handler that ends with its write.                                     *)
LEMMA WritesKeep ==
  ASSUME SequentialInv, TeamInv', NEW c \in Calls, Steps(c), call[c].at = "write",
         call'[c].at = "done", Carries(call'[c]),
         NEW i \in RowIds, NEW r, rows' = [rows EXCEPT ![i] = r],
         r.status = "GONE" \/ MayBind(r.user, i),
         r.status = "PENDING" => r.user = IF r.address \in Users THEN r.address ELSE Nobody,
         calm /\ Stranger \notin answered' /\ Open(i)' =>
           r.status = "PENDING" /\ (Open(i) \/ \A j \in RowIds : ~Open(j)),
         Pure /\ ~left' => (Owns(i)' <=> Owns(i)) /\ (Owns(i)' => Accepted(i)')
  PROVE  SequentialInv'
<1>1. rows'[i] = r /\ \A j \in RowIds \ {i} : rows'[j] = rows[j]
  BY OneWritten DEF SequentialInv
<1>2. Single' /\ OneRowEach'
  BY SingleStays, OneRowStays DEF SequentialInv
<1>3. ASSUME calm', NEW d \in Calls
      PROVE  /\ calm /\ call'[d].at \in {"idle", "done"} /\ call[d].at # "swap"
  BY <1>3 DEF SequentialInv, Single, Steps, Acting
<1>4. \A d \in Calls : Carries(call'[d])
  BY DEF SequentialInv, Steps
<1>5. InvitesKnown'
  <2> SUFFICES ASSUME calm', Stranger \notin answered'
               PROVE  /\ \A j \in RowIds : Open(j)' => rows'[j].status = "PENDING"
                      /\ \A j, k \in RowIds : Open(j)' /\ Open(k)' => j = k
                      /\ \A d \in Calls : Inviting(call[d])'
    BY DEF InvitesKnown
  <2>1. calm /\ Stranger \notin answered
    BY DEF Steps
  <2>2. /\ \A j \in RowIds : Open(j) => rows[j].status = "PENDING"
        /\ \A j, k \in RowIds : Open(j) /\ Open(k) => j = k
    BY <2>1 DEF SequentialInv, InvitesKnown
  <2>3. \A j \in RowIds \ {i} : Open(j)' <=> Open(j)
    BY <1>1 DEF Open, Live
  <2>4. \A j \in RowIds : Open(j)' => rows'[j].status = "PENDING"
    BY <1>1, <2>1, <2>2, <2>3
  <2>5. \A j, k \in RowIds : Open(j)' /\ Open(k)' => j = k
    BY <2>1, <2>2, <2>3
  <2>6. \A d \in Calls : Inviting(call[d])'
    BY <1>3 DEF Inviting
  <2> QED
    BY <2>4, <2>5, <2>6
<1>6. OwnershipKnown'
  <2> SUFFICES ASSUME Pure'
               PROVE  /\ \A j \in RowIds : Owns(j)' => Accepted(j)'
                      /\ OneOwner'
                      /\ \A d \in Calls : Knows(call[d])'
    BY DEF OwnershipKnown
  <2>1. Pure /\ ~left' /\ calm'
    BY DEF Steps, Pure, SequentialInv, TeamInv, TeamTypeOK
  <2>2. (\A j \in RowIds : Owns(j) => Accepted(j)) /\ OneOwner
    BY <1>3, <2>1 DEF SequentialInv, OwnershipKnown
  <2>3. \A j \in RowIds : Owns(j)' <=> Owns(j)
    BY <1>1, <2>1 DEF Owns
  <2>4. \A j \in RowIds : Owns(j)' => Accepted(j)'
    BY <1>1, <2>1, <2>2, <2>3 DEF Accepted
  <2>5. OneOwner'
    BY <2>2, <2>3 DEF OneOwner
  <2>6. \A d \in Calls : Knows(call[d])'
    BY <1>3, <2>1 DEF Knows
  <2> QED
    BY <2>4, <2>5, <2>6
<1> QED
  BY <1>2, <1>4, <1>5, <1>6 DEF SequentialInv, Carries

(* An update of a row that leaves its user alone, or deletes it.           *)
LEMMA StillBound ==
  ASSUME OneRowEach, NEW i \in RowIds, Live(i)
  PROVE  MayBind(rows[i].user, i)
  BY DEF OneRowEach, MayBind, RowsOf

(* What the handlers write.                                                *)
LEMMA WriterKeeps == ASSUME SequentialInv, TeamInv', NEW c \in Calls, Write(c) PROVE SequentialInv'
<1>0. Steps(c)
  BY HandleSteps DEF Handle, SequentialInv
<1>1. /\ call[c].at = "write" /\ call[c] \in CallType /\ Finish(c) /\ TeamInv /\ Carries(call[c])
      /\ call[c].row \in RowIds /\ OneRowEach
  BY DEF Write, SequentialInv, TeamInv, TeamTypeOK
<1>2. call'[c].at = "done" /\ Carries(call'[c])
  BY <1>1, FinishLeaves
<1>3. CASE UNCHANGED rows
  BY <1>0, <1>1, <1>2, <1>3, RestingKnow, ReadsKeep
<1>4. calm /\ Stranger \notin answered' => Inviting(call[c])
  BY <1>0 DEF Steps, SequentialInv, InvitesKnown
<1>5. Pure => Knows(call[c]) /\ (\A i \in RowIds : Owns(i) => Accepted(i))
  BY DEF SequentialInv, OwnershipKnown
<1>6. call[c].role # "OWNER" /\ call[c].role \in Roles /\ call[c].actor \in Users
      /\ call[c].target \in Addresses
  BY <1>1 DEF CallType, Grantable
(* A new row.                                                              *)
<1>7. ASSUME NEW r, Insert(r), r.status \in {"ACCEPTED", "PENDING"}, r.role # "OWNER",
             r.status = "PENDING" => r.user = IF r.address \in Users THEN r.address ELSE Nobody,
             r.address = Stranger => r.status = "PENDING" /\ call[c].op = "email"
                                     /\ call[c].target = Stranger
      PROVE  SequentialInv'
  <2>1. PICK i \in RowIds : /\ rows[i].status = "NONE" /\ MayBind(r.user, i)
                            /\ rows' = [rows EXCEPT ![i] = r]
    BY <1>7 DEF Insert
  <2>2. rows'[i] = r
    BY <1>1, <2>1, OneWritten
  <2>3. calm /\ Stranger \notin answered' /\ Open(i)' =>
          r.status = "PENDING" /\ (Open(i) \/ \A j \in RowIds : ~Open(j))
    BY <1>1, <1>4, <1>7, <2>2 DEF Open, Inviting
  <2>4. Pure => (Owns(i)' <=> Owns(i)) /\ (Owns(i)' => Accepted(i)')
    BY <1>5, <1>7, <2>1, <2>2 DEF Owns, Accepted
  <2> QED
    BY <1>0, <1>1, <1>2, <1>7, <2>1, <2>3, <2>4, WritesKeep
(* A row that is there.                                                    *)
<1>8. ASSUME NEW r, Update(call[c].row, r), r.status \in {"ACCEPTED", "DECLINED", rows[call[c].row].status},
             r.user = rows[call[c].row].user \/ MayBind(r.user, call[c].row),
             r.address = rows[call[c].row].address,
             r.status = "PENDING" => /\ rows[call[c].row].status = "PENDING"
                                     /\ r.user = rows[call[c].row].user,
             calm /\ Stranger \notin answered' /\ Open(call[c].row) => r.status = "PENDING",
             Pure /\ ~left' => /\ r.role = "OWNER" <=> Owns(call[c].row)
                               /\ r.role = "OWNER" => r.status = "ACCEPTED"
      PROVE  SequentialInv'
  <2>1. PICK i \in RowIds : i = call[c].row
    BY <1>1
  <2>2. Live(i) /\ rows' = [rows EXCEPT ![i] = r] /\ MayBind(rows[i].user, i)
    BY <1>1, <1>8, <2>1, StillBound DEF Update
  <2>3. rows'[i] = r
    BY <1>1, <2>2, OneWritten
  <2>4. Open(i)' => Open(i)
    BY <1>8, <2>1, <2>2, <2>3 DEF Open
  <2>5. Pure /\ ~left' => (Owns(i)' <=> Owns(i)) /\ (Owns(i)' => Accepted(i)')
    BY <1>8, <2>1, <2>3 DEF Owns, Accepted
  <2>6. MayBind(r.user, i)
    BY <1>8, <2>1, <2>2
  <2>7. r.status = "PENDING" => r.user = IF r.address \in Users THEN r.address ELSE Nobody
    BY <1>1, <1>8, <2>1 DEF OneRowEach
  <2>8. calm /\ Stranger \notin answered' /\ Open(i)' =>
          r.status = "PENDING" /\ (Open(i) \/ \A j \in RowIds : ~Open(j))
    BY <1>8, <2>1, <2>4
  <2> QED
    BY <1>0, <1>1, <1>2, <2>2, <2>5, <2>6, <2>7, <2>8, WritesKeep
<1>9. PICK i \in RowIds : i = call[c].row
  BY <1>1
<1>10. rows[i] \in Row
  BY <1>1 DEF TeamInv, TeamTypeOK
<1>11. calm /\ Stranger \notin answered' /\ Open(i) => rows[i].status = "PENDING"
  BY <1>0 DEF Steps, SequentialInv, InvitesKnown
<1>12. CASE AddMember(c)
  <2>1. CASE call[c].op = "invite" /\ call[c].fresh /\ Insert(Joined(call[c].target, call[c].role))
    <3> DEFINE r == Joined(call[c].target, call[c].role)
    <3>1. r.status = "ACCEPTED" /\ r.role = call[c].role /\ r.address = Nobody
      BY DEF Joined, Direct, NoRow
    <3> HIDE DEF r
    <3> QED
      BY <1>6, <1>7, <2>1, <3>1 DEF r
  <2>2. CASE /\ call[c].op = "invite" /\ ~call[c].fresh
             /\ Update(call[c].row, [rows[call[c].row] EXCEPT !.role = call[c].role, !.status = "ACCEPTED"])
    <3> DEFINE r == [rows[i] EXCEPT !.role = call[c].role, !.status = "ACCEPTED"]
    <3>1. r.status = "ACCEPTED" /\ r.role = call[c].role /\ r.address = rows[i].address
          /\ r.user = rows[i].user
      BY <1>10 DEF Row
    <3>2. Update(i, r)
      BY <1>9, <2>2
    <3> HIDE DEF r
    <3>3. calm /\ Stranger \notin answered' => ~Open(i)
      BY <1>1, <1>4, <1>9, <2>2 DEF Inviting
    <3>4. Pure => ~Owns(i)
      BY <1>1, <1>5, <1>9, <2>2 DEF Knows
    <3> QED
      BY <1>6, <1>8, <1>9, <3>1, <3>2, <3>3, <3>4
  <2>3. CASE call[c].op = "email" /\ Insert(Invited(call[c].target, call[c].role))
    <3> DEFINE r == Invited(call[c].target, call[c].role)
    <3>1. /\ r.status = "PENDING" /\ r.role = call[c].role /\ r.address = call[c].target
          /\ r.user = IF call[c].target \in Users THEN call[c].target ELSE Nobody
      BY DEF Invited
    <3> HIDE DEF r
    <3> QED
      BY <1>6, <1>7, <2>3, <3>1 DEF r
  <2> QED
    BY <1>12, <2>1, <2>2, <2>3 DEF AddMember
<1>13. CASE AnswerInvite(c)
  <2>0. call[c].op \in {"accept", "decline"} /\ rows[i].address \in answered'
    BY <1>9, <1>13 DEF AnswerInvite, Write
  <2>1. ~(Stranger \notin answered' /\ Open(i))
    BY <2>0 DEF Open
  <2>2. Pure => ~Owns(i)
    BY <1>1, <1>5, <1>9, <2>0 DEF Knows, Accepted
  <2>3. CASE /\ call[c].op = "accept" /\ MayBind(call[c].actor, i)
             /\ Update(i, [rows[i] EXCEPT !.user = call[c].actor, !.status = "ACCEPTED", !.token = FALSE])
    <3> DEFINE r == [rows[i] EXCEPT !.user = call[c].actor, !.status = "ACCEPTED", !.token = FALSE]
    <3>1. r.status = "ACCEPTED" /\ r.role = rows[i].role /\ r.address = rows[i].address
          /\ r.user = call[c].actor
      BY <1>10 DEF Row
    <3>2. Update(i, r)
      BY <2>3
    <3> HIDE DEF r
    <3> QED
      BY <1>8, <1>9, <2>1, <2>2, <2>3, <3>1, <3>2 DEF Owns
  <2>4. CASE Update(i, [rows[i] EXCEPT !.status = "DECLINED", !.token = FALSE])
    <3> DEFINE r == [rows[i] EXCEPT !.status = "DECLINED", !.token = FALSE]
    <3>1. r.status = "DECLINED" /\ r.role = rows[i].role /\ r.address = rows[i].address
          /\ r.user = rows[i].user
      BY <1>10 DEF Row
    <3>2. Update(i, r)
      BY <2>4
    <3> HIDE DEF r
    <3> QED
      BY <1>8, <1>9, <2>1, <2>2, <3>1, <3>2 DEF Owns
  <2> QED
    BY <1>9, <1>13, <2>3, <2>4 DEF AnswerInvite
<1>14. CASE ChangeMember(c)
  <2>1. CASE call[c].op = "changeRole" /\ Update(i, [rows[i] EXCEPT !.role = call[c].role])
    <3> DEFINE r == [rows[i] EXCEPT !.role = call[c].role]
    <3>1. r.status = rows[i].status /\ r.role = call[c].role /\ r.address = rows[i].address
          /\ r.user = rows[i].user
      BY <1>10 DEF Row
    <3>2. Update(i, r)
      BY <2>1
    <3> HIDE DEF r
    <3>3. Pure => ~Owns(i)
      BY <1>1, <1>5, <1>9, <2>1 DEF Knows
    <3> QED
      BY <1>6, <1>8, <1>9, <1>11, <3>1, <3>2, <3>3
  <2>2. CASE call[c].op = "remove" /\ Update(i, [NoRow EXCEPT !.status = "GONE"])
    <3> DEFINE r == [NoRow EXCEPT !.status = "GONE"]
    <3>1. r.status = "GONE" /\ r.role # "OWNER"
      BY DEF NoRow
    <3>2. rows' = [rows EXCEPT ![i] = r]
      BY <2>2 DEF Update
    <3> HIDE DEF r
    <3>3. rows'[i] = r
      BY <1>1, <3>2, OneWritten
    <3>4. ~left' => ~Owns(i)
      BY <1>9, <2>2 DEF Write, Owns
    <3>5. Pure /\ ~left' => (Owns(i)' <=> Owns(i)) /\ (Owns(i)' => Accepted(i)')
      BY <3>1, <3>3, <3>4 DEF Owns
    <3>6. ~Open(i)'
      BY <3>1, <3>3 DEF Open, Live
    <3> QED
      BY <1>0, <1>1, <1>2, <3>1, <3>2, <3>5, <3>6, WritesKeep
  <2> QED
    BY <1>9, <1>14, <2>1, <2>2 DEF ChangeMember
<1> QED
  BY <1>3, <1>12, <1>13, <1>14 DEF Write

(* One of the two updates of a transfer lands: nobody else acts, and the   *)
(* roles are those the handler knows of.                                   *)
LEMMA SwapMoves ==
  ASSUME TeamInv, NEW c \in Calls, NEW w \in call[c].todo, SwapDone(c, w)
  PROVE  \/ call[c].todo = {w} /\ call'[c].at = "done" /\ Carries(call'[c])
         \/ /\ call[c].todo # {w} /\ call'[c].at = call[c].at /\ call'[c].todo = call[c].todo \ {w}
            /\ call'[c].op = call[c].op /\ call'[c].target = call[c].target
            /\ call'[c].row = call[c].row /\ call'[c].own = call[c].own
<1>1. call[c] \in CallType /\ call \in [Calls -> CallType]
  BY DEF TeamInv
<1>2. CASE call[c].todo = {w}
  BY <1>2, FinishLeaves DEF SwapDone
<1>3. CASE call[c].todo # {w}
  <2> DEFINE r == [call[c] EXCEPT !.todo = call[c].todo \ {w}]
  <2>1. /\ r.at = call[c].at /\ r.todo = call[c].todo \ {w} /\ r.op = call[c].op
        /\ r.target = call[c].target /\ r.row = call[c].row /\ r.own = call[c].own
    BY <1>1 DEF CallType
  <2>2. call' = [call EXCEPT ![c] = r]
    BY <1>1, <1>3 DEF SwapDone
  <2> HIDE DEF r
  <2> QED
    BY <1>1, <1>3, <2>1, <2>2
<1> QED
  BY <1>2, <1>3

(* A step of a transfer, when the histories or the roles are as they must  *)
(* be.                                                                     *)
LEMMA SwapKeepsRest ==
  ASSUME SequentialInv, TeamInv', NEW c \in Calls, Steps(c), call[c].at = "swap",
         call'[c].at \in {"swap", "done"}, Carries(call'[c]), OneRowEach', answered' = answered,
         \A i \in RowIds : (Open(i)' <=> Open(i)) /\ rows'[i].status = rows[i].status,
         Pure' => /\ \A i \in RowIds : Owns(i)' => Accepted(i)'
                  /\ call'[c].at = "swap" => Knows(call[c])'
                  /\ call'[c].at = "done" => OneOwner'
  PROVE  SequentialInv'
<1>1. Single'
  BY SingleStays DEF SequentialInv
<1>2. ASSUME calm', NEW d \in Calls \ {c} PROVE calm /\ call'[d].at \in {"idle", "done"}
  BY <1>2 DEF SequentialInv, Single, Steps, Acting
<1>3. \A d \in Calls : Carries(call'[d])
  BY DEF SequentialInv, Steps
<1>4. InvitesKnown'
  <2>1. ASSUME calm', NEW d \in Calls PROVE Inviting(call[d])'
    BY <1>2, <2>1 DEF Inviting
  <2> QED
    BY <2>1 DEF SequentialInv, InvitesKnown, Steps
<1>5. OwnershipKnown'
  <2>1. ASSUME Pure', NEW d \in Calls PROVE Knows(call[d])'
    <3>1. CASE call'[d].at \in {"idle", "done"}
      BY <3>1 DEF Knows
    <3> QED
      BY <1>2, <2>1, <3>1 DEF Pure
  <2> QED
    BY <2>1 DEF OwnershipKnown
<1> QED
  BY <1>1, <1>3, <1>4, <1>5 DEF SequentialInv, Carries

LEMMA SwapKeeps ==
  ASSUME SequentialInv, TeamInv', NEW c \in Calls, NEW w \in Swap, Transfer(c, w) \/ LoseSwap(c, w)
  PROVE  SequentialInv'
<1>0. Steps(c)
  BY HandleSteps DEF Handle, SequentialInv
<1>1. /\ w \in call[c].todo /\ SwapDone(c, w) /\ call[c] \in CallType /\ TeamInv /\ OneRowEach
      /\ Carries(call[c]) /\ answered' = answered /\ call[c].at = "swap"
      /\ call[c].row \in RowIds /\ call[c].own \in RowIds
  BY DEF Transfer, LoseSwap, SequentialInv, TeamInv, TeamTypeOK, Sound
<1>2. \/ call[c].todo = {w} /\ call'[c].at = "done" /\ Carries(call'[c])
      \/ /\ call[c].todo # {w} /\ call'[c].at = "swap" /\ call'[c].todo = call[c].todo \ {w}
         /\ call'[c].op = call[c].op /\ call'[c].target = call[c].target
         /\ call'[c].row = call[c].row /\ call'[c].own = call[c].own
  BY <1>1, SwapMoves
<1>3. Carries(call'[c]) /\ call'[c].at \in {"swap", "done"}
  BY <1>1, <1>2 DEF Carries
<1>4. PICK i \in RowIds : i = IF w = "promote" THEN call[c].row ELSE call[c].own
  BY <1>1
<1>5. Pure => Knows(call[c]) /\ \A j \in RowIds : Owns(j) => Accepted(j)
  BY DEF SequentialInv, OwnershipKnown
<1>6. CASE LoseSwap(c, w)
  <2>1. UNCHANGED rows /\ (Fault \/ (UNCHANGED faults /\ ~Live(i)))
    BY <1>4, <1>6 DEF LoseSwap, teamVars
  <2>2. ~Pure'
    <3>1. SUFFICES ASSUME Pure' PROVE FALSE
      OBVIOUS
    <3>2. faults' = 0 /\ faults \in Nat
      BY <1>1, <3>1 DEF Pure, TeamInv, TeamTypeOK
    <3>3. Pure /\ ~Live(i)
      BY <1>0, <2>1, <3>1, <3>2 DEF Steps, Pure, Fault
    <3>4. Accepted(i)
      BY <1>1, <1>4, <1>5, <3>3 DEF Knows
    <3> QED
      BY <3>3, <3>4 DEF Accepted, Live
  <2>3. OneRowEach' /\ \A j \in RowIds : (Open(j)' <=> Open(j)) /\ rows'[j].status = rows[j].status
    BY <1>1, <2>1 DEF OneRowEach, Live, Open
  <2> QED
    BY <1>0, <1>1, <1>3, <2>2, <2>3, SwapKeepsRest
<1>7. CASE Transfer(c, w)
  <2> DEFINE r == [rows[i] EXCEPT !.role = IF w = "promote" THEN "OWNER" ELSE "ADMIN"]
  <2>1. Live(i) /\ rows' = [rows EXCEPT ![i] = r] /\ rows[i] \in Row
    BY <1>1, <1>4, <1>7 DEF Transfer, SwapRole, Update, TeamInv, TeamTypeOK
  <2>2. /\ r.status = rows[i].status /\ r.user = rows[i].user /\ r.address = rows[i].address
        /\ r.role = "OWNER" <=> w = "promote"
    BY <2>1 DEF Row
  <2> HIDE DEF r
  <2>3. rows'[i] = r /\ \A j \in RowIds \ {i} : rows'[j] = rows[j]
    BY <1>1, <2>1, OneWritten
  <2>4. MayBind(r.user, i)
    BY <1>1, <2>1, <2>2, StillBound
  <2>5. r.status = "PENDING" => r.user = IF r.address \in Users THEN r.address ELSE Nobody
    BY <1>1, <2>2 DEF OneRowEach
  <2>6. OneRowEach'
    BY <1>1, <2>1, <2>4, <2>5, OneRowStays
  <2>7. \A j \in RowIds : (Open(j)' <=> Open(j)) /\ rows'[j].status = rows[j].status
                          /\ (Accepted(j)' <=> Accepted(j))
    BY <2>2, <2>3 DEF Open, Live, Accepted
  <2>8. ASSUME Pure'
        PROVE  /\ \A j \in RowIds : Owns(j)' => Accepted(j)'
               /\ call'[c].at = "swap" => Knows(call[c])'
               /\ call'[c].at = "done" => OneOwner'
    <3>1. Pure
      BY <1>0, <1>1, <1>7, <2>8 DEF Steps, Pure, Transfer
    <3>2. /\ call[c].row # call[c].own /\ Accepted(call[c].row) /\ Accepted(call[c].own)
          /\ \A j \in RowIds : Owns(j) <=> \/ j = call[c].row /\ "promote" \notin call[c].todo
                                           \/ j = call[c].own /\ "demote" \in call[c].todo
      BY <1>1, <1>5, <3>1 DEF Knows
    <3>3. Owns(i)' <=> w = "promote"
      BY <2>2, <2>3 DEF Owns
    <3>4. \A j \in RowIds \ {i} : Owns(j)' <=> Owns(j)
      BY <2>3 DEF Owns
    <3>5. \A j \in RowIds : Owns(j)' <=> \/ j = call[c].row /\ "promote" \notin call[c].todo \ {w}
                                         \/ j = call[c].own /\ "demote" \in call[c].todo \ {w}
      <4>1. CASE w = "promote"
        BY <1>4, <3>2, <3>3, <3>4, <4>1
      <4>2. CASE w = "demote"
        BY <1>4, <3>2, <3>3, <3>4, <4>2
      <4> QED
        BY <4>1, <4>2 DEF Swap
    <3>6. \A j \in RowIds : Owns(j)' => Accepted(j)'
      BY <2>7, <3>2, <3>5, <1>1
    <3>7. call'[c].at = "swap" => Knows(call[c])'
      <4> SUFFICES ASSUME call'[c].at = "swap" PROVE Knows(call[c])'
        OBVIOUS
      <4>1. call'[c].todo = call[c].todo \ {w} /\ call[c].todo # {w}
            /\ call'[c].row = call[c].row /\ call'[c].own = call[c].own
        BY <1>2
      <4>2. call'[c].todo # {}
        BY <1>1, <4>1
      <4>3. /\ call'[c].row # call'[c].own /\ Accepted(call[c].row)' /\ Accepted(call[c].own)'
        BY <1>1, <2>7, <3>2, <4>1 DEF Accepted
      <4>4. \A j \in RowIds : Owns(j)' <=> \/ j = call'[c].row /\ "promote" \notin call'[c].todo
                                           \/ j = call'[c].own /\ "demote" \in call'[c].todo
        BY <3>5, <4>1
      <4> QED
        BY <4>2, <4>3, <4>4 DEF Knows
    <3>8. call'[c].at = "done" => OneOwner'
      <4> SUFFICES ASSUME call'[c].at = "done" PROVE OneOwner'
        OBVIOUS
      <4>1. call[c].todo = {w}
        BY <1>2
      <4>2. \A j \in RowIds : Owns(j)' <=> j = call[c].row
        BY <3>5, <4>1
      <4> QED
        BY <1>1, <4>2 DEF OneOwner
    <3> QED
      BY <3>6, <3>7, <3>8
  <2> QED
    BY <1>0, <1>1, <1>3, <2>6, <2>7, <2>8, SwapKeepsRest
<1> QED
  BY <1>6, <1>7

-----------------------------------------------------------------------------
(* The invariant of calls that do not overlap.                             *)

LEMMA StartsInOrder == ASSUME Init, TeamInv PROVE SequentialInv
<1>1. /\ \A c \in Calls : call[c].at = "idle" /\ call[c].op = "delete"
      /\ left = FALSE /\ calm = TRUE
  BY DEF Init, NoCall
<1>2. \A i \in RowIds : /\ rows[i].role = "OWNER" <=> i = FirstRow
                        /\ rows[i].status = IF i = FirstRow THEN "ACCEPTED" ELSE "NONE"
                        /\ rows[i].address = Nobody
  BY DEF Init, Joined, Direct, NoRow
<1>3. Single /\ OneRowEach
  BY <1>1, <1>2 DEF Single, Acting, OneRowEach, Live
<1>4. \A c \in Calls : Inviting(call[c]) /\ Knows(call[c]) /\ Carries(call[c])
  BY <1>1, RestingKnow DEF Carries
<1>5. InvitesKnown
  BY <1>2, <1>4 DEF InvitesKnown, Open
<1>6. OwnershipKnown
  BY <1>2, <1>4 DEF OwnershipKnown, OneOwner, Owns, Accepted
<1> QED
  BY <1>3, <1>4, <1>5, <1>6 DEF SequentialInv

LEMMA OrderKeeps == ASSUME SequentialInv, TeamInv', [Next]_vars PROVE SequentialInv'
<1>1. ASSUME NEW c \in Calls, NEW op \in Ops, NEW actor \in Users, NEW target \in Addresses,
             NEW role \in Grantable \cap Asked, NEW i \in RowIds,
             Serve(c, op, actor, target, role, i)
      PROVE  SequentialInv'
  BY <1>1, ServeKeepsOrder
<1>2. ASSUME NEW c \in Calls, Handle(c) PROVE SequentialInv'
  BY <1>2, ReadersKeep, WriterKeeps, SwapKeeps DEF Handle
<1>3. CASE UNCHANGED vars
  <2>1. Single' /\ OneRowEach' /\ \A c \in Calls : Carries(call'[c])
    BY <1>3 DEF vars, teamVars, SequentialInv, Single, Acting, OneRowEach, Live
  <2>2. InvitesKnown'
    BY <1>3 DEF vars, teamVars, SequentialInv, InvitesKnown, Open, Live, Inviting
  <2>3. OwnershipKnown'
    BY <1>3 DEF vars, teamVars, SequentialInv, OwnershipKnown, Pure, OneOwner, Owns, Accepted, Knows
  <2> QED
    BY <2>1, <2>2, <2>3 DEF SequentialInv
<1> QED
  BY <1>1, <1>2, <1>3 DEF Next

LEMMA SequentialInductive == Spec => []SequentialInv
<1>1. Init /\ TeamInv => SequentialInv
  BY StartsInOrder
<1>2. SequentialInv /\ TeamInv' /\ [Next]_vars => SequentialInv'
  BY OrderKeeps
<1> QED
  BY <1>1, <1>2, TeamInductive, PTL DEF Spec

(* A set all of whose elements are the same.                               *)
LEMMA AtMostOne == ASSUME NEW S, \A x, y \in S : x = y PROVE Cardinality(S) <= 1
<1>1. CASE S = {}
  BY <1>1, FS_EmptySet
<1>2. ASSUME NEW x \in S PROVE Cardinality(S) <= 1
  <2>1. S = {x}
    OBVIOUS
  <2> QED
    BY <2>1, FS_Singleton
<1> QED
  BY <1>1, <1>2

(* Calls made one after the other, none of which fails, leave exactly one  *)
(* accepted owner, unless an owner removed themselves or transferred the   *)
(* team to themselves: whatever transferOwnership, changeRole, remove and  *)
(* the invites were asked to do, and for any number of members.            *)
THEOREM OneOwnerInSequence == Spec => []SequentialOwnership
<1>1. SequentialInv => SequentialOwnership
  <2> SUFFICES ASSUME SequentialInv, calm, Quiet, faults = 0, ~left
               PROVE  Cardinality(Owners) = 1
    BY DEF SequentialOwnership
  <2>1. OneOwner /\ \A i \in RowIds : Owns(i) => Accepted(i)
    BY DEF SequentialInv, OwnershipKnown, Pure, Quiet
  <2>2. PICK o \in RowIds : \A i \in RowIds : Owns(i) <=> i = o
    BY <2>1 DEF OneOwner
  <2>3. Owners = {o}
    BY <2>1, <2>2 DEF Owners, Owns
  <2> QED
    BY <2>3, FS_Singleton
<1> QED
  BY <1>1, SequentialInductive, PTL

(* A registered user has at most one open invite to the team, however      *)
(* calls overlap and fail; an address without an account has at most one   *)
(* while invites are sent one after the other and none was answered.       *)
THEOREM InvitesAreSingle == Spec => []SequentialInvites
<1>1. SequentialInv => SequentialInvites
  <2> SUFFICES ASSUME SequentialInv PROVE SequentialInvites
    OBVIOUS
  <2>1. ASSUME NEW u \in Users PROVE Cardinality(Pending(u)) <= 1
    <3>1. \A i \in Pending(u) : i \in RowIds /\ Live(i) /\ rows[i].user = u
      BY DEF Pending, SequentialInv, OneRowEach, Live
    <3>2. \A i, j \in Pending(u) : i = j
      BY <3>1 DEF SequentialInv, OneRowEach
    <3> QED
      BY <3>2, AtMostOne
  <2>2. ASSUME calm, Stranger \notin answered PROVE Cardinality(Pending(Stranger)) <= 1
    <3>1. \A i \in Pending(Stranger) : i \in RowIds /\ Open(i)
      BY DEF Pending, Open, Live
    <3>2. \A i, j \in Pending(Stranger) : i = j
      BY <2>2, <3>1 DEF SequentialInv, InvitesKnown
    <3> QED
      BY <3>2, AtMostOne
  <2> QED
    BY <2>1, <2>2 DEF SequentialInvites
<1> QED
  BY <1>1, SequentialInductive, PTL
=============================================================================
