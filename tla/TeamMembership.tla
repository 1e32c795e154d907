--------------------------- MODULE TeamMembership ---------------------------
(***************************************************************************)
(* One team and its member rows.  Every call of teamService reads the team *)
(* (getById), reads the rows it is about, and only then writes by row id;  *)
(* nothing is locked and nothing is re-checked in between, so calls of     *)
(* several members interleave at every await.                              *)
(*                                                                         *)
(* The count of members that follows a write (updateMemberCount) names a   *)
(* column the schema does not have: it throws when everything modelled     *)
(* here is done, and the capacity check before it never refuses.           *)
(*                                                                         *)
(* A definition headed "Slip:" is a wrong variant of the one below it; the *)
(* properties are tried on the system with one slip put in.                *)
(***************************************************************************)
EXTENDS Naturals, FiniteSets

CONSTANTS
  Users,      \* registered users; each is also an address to invite
  Founder,    \* who created the team
  Stranger,   \* an address no user has
  Nobody,     \* no user, no address
  TwoFactor,  \* users with two-factor authentication
  RowIds,     \* ids of TeamMember rows, each used once
  FirstRow,   \* the founder's
  Calls,      \* HTTP calls, each served once
  Asked,      \* bound: the roles that calls ask for
  MaxFaults   \* bound: awaited calls that fail

ASSUME FounderIsUser   == Founder \in Users /\ TwoFactor \subseteq Users
ASSUME FirstRowIsRow   == FirstRow \in RowIds
ASSUME OutsideUsers    == Stranger \notin Users /\ Nobody \notin Users /\ Stranger # Nobody
ASSUME CallsAndRows    == IsFiniteSet(Calls) /\ IsFiniteSet(RowIds)
ASSUME FaultBoundIsNat == MaxFaults \in Nat

Addresses == Users \cup {Stranger}

Roles == {"OWNER", "ADMIN", "MEMBER", "VIEWER"}
Rank  == [OWNER |-> 4, ADMIN |-> 3, MEMBER |-> 2, VIEWER |-> 1]

(* The roles InviteMemberSchema and ChangeRoleSchema accept.               *)
(* Slip: the schemas accept every TeamRole.                                *)
AnyRole   == Roles
Grantable == Roles \ {"OWNER"}

Row == [user: Users \cup {Nobody}, role: Roles, address: Addresses \cup {Nobody},
        token: BOOLEAN, status: {"NONE", "PENDING", "ACCEPTED", "DECLINED", "GONE"}]

Ops == {"delete", "toggle", "invite", "email", "accept", "decline",
        "changeRole", "remove", "transfer"}

VARIABLES
  rows,      \* the TeamMember rows: NONE before they are created, GONE once deleted
  active,    \* Team.isActive
  enforced,  \* Team.twoFactorEnforced
  call,      \* the handlers
  calm,      \* history: no call began before the earlier ones had ended
  left,      \* history: an owner removed themselves, or transferred to themselves
  heirs,     \* history: rows that some transferOwnership named
  answered,  \* history: addresses whose invite was accepted or declined
  faults     \* history: awaited calls that failed

teamVars == <<rows, active, enforced>>
vars == <<teamVars, call, calm, left, heirs, answered, faults>>

NoRow == [user |-> Nobody, role |-> "MEMBER", address |-> Nobody, token |-> FALSE,
          status |-> "NONE"]

Direct(u, role) == [NoRow EXCEPT !.user = u, !.role = role, !.status = "ACCEPTED"]

(* Slip: a direct membership gets an invite token as well.                 *)
DirectWithToken(u, role) == [Direct(u, role) EXCEPT !.token = TRUE]
Joined(u, role) == Direct(u, role)

(* An invite by address is bound at once to the user who has it, if any.   *)
Invited(a, role) ==
  [user |-> IF a \in Users THEN a ELSE Nobody, role |-> role, address |-> a,
   token |-> TRUE, status |-> "PENDING"]

NoCall == [at |-> "idle", op |-> "delete", actor |-> Founder, target |-> Founder,
           role |-> "MEMBER", mine |-> "OWNER", row |-> FirstRow, own |-> FirstRow,
           todo |-> {}, fresh |-> FALSE]

(* teamService.create: the team and its owner.                             *)
Init ==
  /\ rows = [i \in RowIds |-> IF i = FirstRow THEN Joined(Founder, "OWNER") ELSE NoRow]
  /\ active = TRUE /\ enforced = FALSE
  /\ call = [c \in Calls |-> NoCall]
  /\ calm = TRUE /\ left = FALSE /\ heirs = {} /\ answered = {}
  /\ faults = 0

Live(i)     == rows[i].status \notin {"NONE", "GONE"}
Accepted(i) == rows[i].status = "ACCEPTED"
RowsOf(u)   == {i \in RowIds : Live(i) /\ rows[i].user = u}
Owners      == {i \in RowIds : Accepted(i) /\ rows[i].role = "OWNER"}
Pending(a)  == {i \in RowIds : rows[i].status = "PENDING" /\ rows[i].address = a}

Quiet == \A c \in Calls : call[c].at \in {"idle", "done"}
Fault == faults < MaxFaults /\ faults' = faults + 1

CanManage(mine, other) == Rank[mine] > Rank[other]
IsAtLeast(mine, role)  == Rank[mine] >= Rank[role]

Self(c) == call[c].target = call[c].actor
Goto(c, label) == call' = [call EXCEPT ![c].at = label]
Finish(c)      == call' = [call EXCEPT ![c] = [NoCall EXCEPT !.at = "done"]]

-----------------------------------------------------------------------------
(* What a call checks before it writes.                                    *)

Serve(c, op, actor, target, role, i) ==
  /\ call[c].at = "idle"
  /\ op \in {"accept", "decline"} => rows[i].token
  /\ op \notin {"accept", "decline"} => i = FirstRow
  /\ op \in {"invite", "email", "changeRole"} \/ role = "MEMBER"
  /\ op \in {"invite", "changeRole", "remove", "transfer"} => target \in Users
  /\ op \in {"delete", "toggle", "accept", "decline"} => target = actor
  /\ call' = [call EXCEPT ![c] = [NoCall EXCEPT !.at = "read", !.op = op, !.actor = actor,
                                   !.target = target, !.role = role, !.row = i]]
  /\ calm' = (calm /\ Quiet)
  /\ UNCHANGED <<teamVars, left, heirs, answered, faults>>

(* getById, and what the operation asks of the actor's role.               *)
Authorised(c, mine) ==
  LET op == call[c].op
  IN /\ op \in {"delete", "toggle", "changeRole", "transfer"} => mine = "OWNER"
     /\ op \in {"invite", "email"} =>
          IsAtLeast(mine, "ADMIN") /\ CanManage(mine, call[c].role)
     /\ op = "remove" => Self(c) \/ IsAtLeast(mine, "ADMIN")
     /\ op = "changeRole" => ~Self(c)

GetById(c) ==
  /\ call[c].at = "read" /\ call[c].op \notin {"accept", "decline"}
  /\ \E i \in RowIds :
       /\ active /\ Accepted(i) /\ rows[i].user = call[c].actor
       /\ enforced => call[c].actor \in TwoFactor
       /\ Authorised(c, rows[i].role)
       /\ call' = [call EXCEPT
             ![c].mine = rows[i].role,
             ![c].at = IF call[c].op \in {"delete", "toggle"} THEN "write" ELSE "check"]
  /\ UNCHANGED <<teamVars, calm, left, heirs, answered, faults>>

(* findByToken.                                                            *)
FindByToken(c) ==
  /\ call[c].at = "read" /\ call[c].op \in {"accept", "decline"}
  /\ rows[call[c].row].token /\ rows[call[c].row].status = "PENDING"
  /\ Goto(c, "write")
  /\ UNCHANGED <<teamVars, calm, left, heirs, answered, faults>>

(* findMembership of the target, and what the operation asks of the row.   *)
Eligible(c, i) ==
  LET op == call[c].op
  IN /\ op = "invite" => ~Accepted(i)
     /\ op \in {"changeRole", "remove", "transfer"} => Accepted(i)
     /\ op = "changeRole" => rows[i].role # "OWNER"
     /\ op = "remove" /\ ~Self(c) =>
          rows[i].role # "OWNER" /\ CanManage(call[c].mine, rows[i].role)

FindMembership(c) ==
  /\ call[c].at = "check" /\ call[c].op # "email"
  /\ \E i \in RowsOf(call[c].target) :
       /\ Eligible(c, i)
       /\ call' = [call EXCEPT ![c].row = i, ![c].at =
                     IF call[c].op = "transfer" THEN "current" ELSE "write"]
  /\ UNCHANGED <<teamVars, calm, left, heirs, answered, faults>>

(* Slip: a pending invite to the same address is not looked for.           *)
InvitesAnyone(c) == TRUE
NotInvited(c) ==
  \/ \A i \in RowIds : ~(Live(i) /\ rows[i].address = call[c].target)
  \/ \E i \in RowIds : Live(i) /\ rows[i].address = call[c].target /\ rows[i].status # "PENDING"

(* invite of a user with no row, or of an address: a row is to be created. *)
(* Of several rows with the address any may be the one findFirst returns.  *)
NewMember(c) ==
  /\ call[c].at = "check"
  /\ \/ call[c].op = "invite" /\ RowsOf(call[c].target) = {}
     \/ call[c].op = "email" /\ NotInvited(c)
  /\ call' = [call EXCEPT ![c].fresh = TRUE, ![c].at = "write"]
  /\ UNCHANGED <<teamVars, calm, left, heirs, answered, faults>>

(* transferOwnership sends both role updates in one Promise.all.           *)
(* Slip: the old owner keeps the role.                                     *)
PromoteOnly == {"promote"}
Swap        == {"promote", "demote"}

FindOwn(c) ==
  /\ call[c].at = "current"
  /\ \E i \in RowsOf(call[c].actor) :
       call' = [call EXCEPT ![c].own = i, ![c].todo = Swap, ![c].at = "swap"]
  /\ heirs' = heirs \cup {call[c].row}
  /\ left' = (left \/ Self(c))
  /\ UNCHANGED <<teamVars, calm, answered, faults>>

(* A check refuses the call, or an await throws: the handler answers an    *)
(* error having changed nothing.                                           *)
Refuse(c) ==
  /\ call[c].at \in {"read", "check", "current"}
  /\ Finish(c)
  /\ UNCHANGED <<teamVars, calm, left, heirs, answered, faults>>

-----------------------------------------------------------------------------
(* The writes.                                                             *)

(* The unique index on (team, user).                                       *)
MayBind(u, i) == u = Nobody \/ RowsOf(u) \subseteq {i}

Update(i, row) == Live(i) /\ rows' = [rows EXCEPT ![i] = row]

Insert(row) ==
  \E i \in RowIds :
    rows[i].status = "NONE" /\ MayBind(row.user, i) /\ rows' = [rows EXCEPT ![i] = row]

AddMember(c) ==
  LET i == call[c].row IN
  \/ call[c].op = "invite" /\ call[c].fresh /\ Insert(Joined(call[c].target, call[c].role))
  \/ /\ call[c].op = "invite" /\ ~call[c].fresh
     /\ Update(i, [rows[i] EXCEPT !.role = call[c].role, !.status = "ACCEPTED"])
  \/ call[c].op = "email" /\ Insert(Invited(call[c].target, call[c].role))

AnswerInvite(c) ==
  LET i == call[c].row IN
  \/ /\ call[c].op = "accept" /\ MayBind(call[c].actor, i)
     /\ Update(i, [rows[i] EXCEPT !.user = call[c].actor, !.status = "ACCEPTED",
                                  !.token = FALSE])
  \/ /\ call[c].op = "decline"
     /\ Update(i, [rows[i] EXCEPT !.status = "DECLINED", !.token = FALSE])

ChangeMember(c) ==
  LET i == call[c].row IN
  \/ call[c].op = "changeRole" /\ Update(i, [rows[i] EXCEPT !.role = call[c].role])
  \/ call[c].op = "remove" /\ Update(i, [NoRow EXCEPT !.status = "GONE"])

Write(c) ==
  /\ call[c].at = "write"
  /\ \/ (AddMember(c) \/ AnswerInvite(c) \/ ChangeMember(c)) /\ UNCHANGED <<active, enforced>>
     \/ call[c].op = "delete" /\ active' = FALSE /\ UNCHANGED <<rows, enforced>>
     \/ call[c].op = "toggle" /\ enforced' \in BOOLEAN /\ UNCHANGED <<rows, active>>
  /\ left' = (left \/ (call[c].op = "remove" /\ rows[call[c].row].role = "OWNER"))
  /\ answered' = IF call[c].op \in {"accept", "decline"}
                 THEN answered \cup {rows[call[c].row].address} ELSE answered
  /\ Finish(c)
  /\ UNCHANGED <<calm, heirs, faults>>

(* One of the two updates of a transfer lands ...                          *)
SwapRole(c, w) ==
  LET i    == IF w = "promote" THEN call[c].row ELSE call[c].own
      role == IF w = "promote" THEN "OWNER" ELSE "ADMIN"
  IN Update(i, [rows[i] EXCEPT !.role = role])

SwapDone(c, w) ==
  IF call[c].todo = {w} THEN Finish(c) ELSE call' = [call EXCEPT ![c].todo = @ \ {w}]

Transfer(c, w) ==
  /\ w \in call[c].todo
  /\ SwapRole(c, w) /\ SwapDone(c, w)
  /\ UNCHANGED <<active, enforced, calm, left, heirs, answered, faults>>

(* ... or fails.                                                           *)
LoseSwap(c, w) ==
  /\ w \in call[c].todo
  /\ Fault \/ (UNCHANGED faults /\ ~Live(IF w = "promote" THEN call[c].row ELSE call[c].own))
  /\ SwapDone(c, w)
  /\ UNCHANGED <<teamVars, calm, left, heirs, answered>>

(* Any other write fails: the row is gone, the index refuses it, or the    *)
(* database does.                                                          *)
Impossible(c) ==
  LET i == call[c].row IN
  \/ call[c].op \in {"changeRole", "remove", "accept", "decline"} /\ ~Live(i)
  \/ call[c].op = "invite" /\ ~call[c].fresh /\ ~Live(i)
  \/ call[c].op \in {"invite", "email"} /\ call[c].fresh /\ RowsOf(call[c].target) # {}
  \/ call[c].op = "accept" /\ ~MayBind(call[c].actor, i)

LoseWrite(c) ==
  /\ call[c].at = "write"
  /\ Fault \/ (UNCHANGED faults /\ Impossible(c))
  /\ Finish(c)
  /\ UNCHANGED <<teamVars, calm, left, heirs, answered>>

Handle(c) ==
  \/ GetById(c) \/ FindByToken(c) \/ FindMembership(c) \/ NewMember(c) \/ FindOwn(c)
  \/ Refuse(c) \/ Write(c) \/ LoseWrite(c)
  \/ \E w \in Swap : Transfer(c, w) \/ LoseSwap(c, w)

Next ==
  \/ \E c \in Calls, op \in Ops, actor \in Users, target \in Addresses,
        role \in Grantable \cap Asked, i \in RowIds : Serve(c, op, actor, target, role, i)
  \/ \E c \in Calls : Handle(c)

Spec == Init /\ [][Next]_vars

-----------------------------------------------------------------------------
(* Type invariant: an invite that can be accepted names an address.        *)
TeamTypeOK ==
  /\ rows \in [RowIds -> Row]
  /\ active \in BOOLEAN /\ enforced \in BOOLEAN
  /\ \A i \in RowIds : rows[i].token => rows[i].address # Nobody
  /\ \A c \in Calls :
       /\ call[c].at \in {"idle", "read", "check", "current", "write", "swap", "done"}
       /\ call[c].actor \in Users /\ call[c].target \in Addresses
       /\ call[c].row \in RowIds /\ call[c].own \in RowIds
       /\ call[c].todo \subseteq {"promote", "demote"}
  /\ calm \in BOOLEAN /\ left \in BOOLEAN /\ heirs \subseteq RowIds
  /\ answered \subseteq Addresses \cup {Nobody}
  /\ faults \in 0 .. MaxFaults

(* Calls made one after the other, none of which fails, leave exactly one  *)
(* accepted owner, unless an owner left or transferred the team to         *)
(* themselves (the two updates of a transfer then hit one row).            *)
SequentialOwnership ==
  calm /\ Quiet /\ faults = 0 /\ ~left => Cardinality(Owners) = 1

(* A user has at most one open invite, however calls overlap: the invite   *)
(* is bound to them and the index is unique.  An address without a user    *)
(* has one if calls do not overlap and none of its invites was answered:   *)
(* invite looks at any one row with the address, and when that is an       *)
(* answered one it sends another invite beside an open one.                *)
SequentialInvites ==
  /\ \A u \in Users : Cardinality(Pending(u)) <= 1
  /\ calm /\ Quiet /\ Stranger \notin answered => Cardinality(Pending(Stranger)) <= 1

(* However calls interleave and fail, a row carries the role OWNER only if *)
(* it is the founder's or a transfer by an owner named it: no invite,      *)
(* re-invite or change of role ever makes an owner.                        *)
OwnersWereNamed == \A i \in RowIds : rows[i].role = "OWNER" => i \in heirs \cup {FirstRow}

(* "Swap roles atomically": whatever fails, a transfer changes both roles  *)
(* or neither, so the team has exactly one owner whenever no call is under *)
(* way.                                                                    *)
SwapsAreAtomic == Quiet /\ ~left => Cardinality(Owners) = 1
=============================================================================
