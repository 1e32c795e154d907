------------------------------ MODULE Sessions ------------------------------
(***************************************************************************)
(* One account: signing up, logging in, refreshing, logging out, changing  *)
(* the password, and the sessions these open and revoke.                   *)
(***************************************************************************)
EXTENDS Handlers

CONSTANTS
  Passwords,  \* what the account's password may be
  Lifetime,   \* seconds a session lasts
  MaxSecond   \* bound: seconds that pass

ASSUME PasswordsAreNone == Nobody \notin Passwords
ASSUME SecondsAreNat    == Lifetime \in Nat /\ MaxSecond \in Nat

VARIABLES
  password,  \* User.passwordHash, Nobody before the account exists
  sessions,  \* Session rows
  now,       \* the time, in seconds
  strays     \* history: logins under way when the sessions were revoked

sessionData == <<password, sessions, now, strays>>
sessionVars == <<sessionData, handlerVars>>

(* A refresh token is a JWT of the user and the second it is signed in, so *)
(* the second names the row; `under` is the password that opened it.       *)
Seconds    == 0 .. MaxSecond
NoSession  == [made |-> FALSE, valid |-> FALSE, under |-> Nobody]
SessionRow == [made: BOOLEAN, valid: BOOLEAN, under: Passwords \cup {Nobody}]

SessionInit ==
  /\ HandlersInit
  /\ password \in Passwords \cup {Nobody}
  /\ sessions = [s \in Seconds |-> NoSession]
  /\ now = 0 /\ strays = 0

Valid == {s \in Seconds : sessions[s].valid}

-----------------------------------------------------------------------------
(* signup and login: a password, then createSession.                       *)

ServeEntry(c) ==
  /\ \E p \in Passwords : \/ Begin(c, "signup", Nobody, p, "taken")
                          \/ Begin(c, "login", Nobody, p, "verify")
  /\ UNCHANGED sessionData

FindTaken(c) ==
  /\ At(c, "taken") /\ password = Nobody
  /\ Goto(c, "register")
  /\ Steady /\ UNCHANGED sessionData

(* The unique index on the address refuses a second account.               *)
Register(c) ==
  /\ At(c, "register") /\ password = Nobody
  /\ password' = call[c].arg
  /\ Note(c, "sign", call[c].arg)
  /\ Steady /\ UNCHANGED <<sessions, now, strays>>

(* The user row is read, and bcrypt compares with the hash that was read.  *)
Verify(c) ==
  /\ At(c, "verify") /\ Is(c, {"login"}) /\ password = call[c].arg
  /\ Note(c, "sign", password)
  /\ Steady /\ UNCHANGED sessionData

(* createSession reads the user again and signs the token, ...             *)
Sign(c) ==
  /\ At(c, "sign")
  /\ call' = [call EXCEPT ![c].at = "open", ![c].arg = now]
  /\ Steady /\ UNCHANGED sessionData

(* ... and the row is refused when its token is that of another session of *)
(* the same second.  lastLoginAt and the audit row have no reader here.    *)
OpenSession(c) ==
  LET s == call[c].arg
  IN /\ At(c, "open") /\ ~sessions[s].made
     /\ sessions' = [sessions EXCEPT ![s] = [made |-> TRUE, valid |-> TRUE, under |-> call[c].seen]]
     /\ Answer(c)
     /\ Steady /\ UNCHANGED <<password, now, strays>>

-----------------------------------------------------------------------------
(* refresh, logout.                                                        *)

ServeToken(c) ==
  /\ \E s \in Seconds, op \in {"refresh", "logout"} :
       /\ sessions[s].made
       /\ Begin(c, op, Nobody, s, IF op = "refresh" THEN "session" ELSE "invalidate")
  /\ UNCHANGED sessionData

(* A valid session yields a new access token and keeps its refresh token;  *)
(* one that is not is invalidated.                                         *)
FindSession(c) ==
  LET s == call[c].arg
  IN /\ At(c, "session")
     /\ IF sessions[s].valid /\ now <= s + Lifetime THEN Answer(c) ELSE Goto(c, "invalidate")
     /\ Steady /\ UNCHANGED sessionData

Invalidate(c) ==
  /\ At(c, "invalidate")
  /\ sessions' = [sessions EXCEPT ![call[c].arg].valid = FALSE]
  /\ Answer(c)
  /\ Steady /\ UNCHANGED <<password, now, strays>>

-----------------------------------------------------------------------------
(* changePassword, and logout without a token: every session is revoked.   *)

ServeRevoke(c) ==
  /\ \/ \E p, q \in Passwords : Begin(c, "change", Nobody, [old |-> p, new |-> q], "verify")
     \/ Begin(c, "logoutAll", Nobody, Nobody, "revoke")
  /\ password # Nobody
  /\ UNCHANGED sessionData

VerifyOld(c) ==
  /\ At(c, "verify") /\ Is(c, {"change"}) /\ password = call[c].arg.old
  /\ Goto(c, "rehash")
  /\ Steady /\ UNCHANGED sessionData

Rehash(c) ==
  /\ At(c, "rehash")
  /\ password' = call[c].arg.new
  /\ Goto(c, "revoke")
  /\ Steady /\ UNCHANGED <<sessions, now, strays>>

(* Slip: the latest session, which is likely the caller's own, is kept.    *)
KeptLatest(s) == sessions[s].valid /\ \A t \in Valid : t <= s
Kept(s) == FALSE

(* A login that has compared the password is not stopped by this.          *)
Entering == {c \in Calls : call[c].at \in {"sign", "open"} /\ call[c].seen # password}

RevokeAll(c) ==
  /\ At(c, "revoke")
  /\ sessions' = [s \in Seconds |-> [sessions[s] EXCEPT !.valid = @ /\ Kept(s)]]
  /\ strays' = strays + Cardinality(Entering)
  /\ Answer(c)
  /\ Steady /\ UNCHANGED <<password, now>>

-----------------------------------------------------------------------------
(* A check or an index refuses the call, or the read before it rejects.    *)
RefuseSession(c) ==
  /\ call[c].at \in {"taken", "register", "verify", "open"}
  /\ Answer(c) /\ Steady /\ UNCHANGED sessionData

BreakSession(c) ==
  /\ ~At(c, "idle") /\ Break(c) /\ UNCHANGED sessionData

Second ==
  /\ now < MaxSecond /\ now' = now + 1
  /\ UNCHANGED <<handlerVars, password, sessions, strays>>

SessionNext ==
  \/ \E c \in Calls :
       \/ ServeEntry(c) \/ FindTaken(c) \/ Register(c) \/ Verify(c) \/ Sign(c) \/ OpenSession(c)
       \/ ServeToken(c) \/ FindSession(c) \/ Invalidate(c)
       \/ ServeRevoke(c) \/ VerifyOld(c) \/ Rehash(c) \/ RevokeAll(c)
       \/ RefuseSession(c) \/ BreakSession(c)
  \/ Second

SessionSpec == SessionInit /\ [][SessionNext]_sessionVars

-----------------------------------------------------------------------------
(* Properties.                                                             *)

(* Types of the rows and the handlers.                                     *)
SessionTypeOK ==
  /\ password \in Passwords \cup {Nobody}
  /\ sessions \in [Seconds -> SessionRow]
  /\ now \in Seconds /\ strays \in Nat
  /\ \A c \in Calls : call[c].at \in {"idle", "taken", "register", "verify", "sign", "open",
                                       "session", "invalidate", "rehash", "revoke"}

(* "Revoke all other sessions for safety on password change": once every   *)
(* change has revoked, and none broke off before, a session opened under   *)
(* another password than the present one is of a login that was already    *)
(* past its comparison when the sessions were revoked; without overlapping *)
(* logins there is none.                                                   *)
SessionsFollowPassword ==
  faults = 0 /\ (\A c \in Calls : ~At(c, "revoke")) =>
    Cardinality({s \in Valid : sessions[s].under # password}) <= strays
=============================================================================
