------------------------------ MODULE Handlers ------------------------------
(***************************************************************************)
(* What the request handlers of the API have in common.  A handler runs on *)
(* its own between two awaits and interleaves with the others at every     *)
(* await; each reads rows, checks them and writes by id, with no           *)
(* transaction around the whole.  A controller turns whatever a service    *)
(* throws into an error answer (next(err)), so a call that fails has       *)
(* stopped at the await that rejected and has undone nothing.              *)
(*                                                                         *)
(* The modules that extend this one each model a service: the label        *)
(* call[c].at names the await handler c is at, call[c].seen is what it has *)
(* read, call[c].todo the writes of a Promise.all that are in flight.      *)
(*                                                                         *)
(* A definition headed "Slip:" is a wrong variant of the one below it; the *)
(* properties are tried on the system with one slip put in.                *)
(***************************************************************************)
EXTENDS Integers, FiniteSets

CONSTANTS
  Nobody,     \* no user, nothing read
  Calls,      \* slots: the calls that may be in progress at one time
  MaxServed,  \* bound: the calls that are served
  MaxFaults   \* bound: the awaits that reject

ASSUME CallsFinite == IsFiniteSet(Calls)
ASSUME ServedIsNat == MaxServed \in Nat /\ MaxFaults \in Nat

VARIABLES
  call,    \* the handlers
  served,  \* history: how many calls have begun
  calm,    \* history: no call began before the earlier ones had ended
  faults   \* history: how many awaits have rejected

handlerVars == <<call, served, calm, faults>>

NoCall == [at |-> "idle", op |-> "none", user |-> Nobody, arg |-> Nobody,
           seen |-> Nobody, todo |-> {}]

HandlersInit ==
  /\ call = [c \in Calls |-> NoCall]
  /\ served = 0 /\ calm = TRUE /\ faults = 0

At(c, label) == call[c].at = label
Is(c, ops)   == call[c].op \in ops
Quiet        == \A c \in Calls : At(c, "idle")

(* One call at a time and no failure: what holds of the code read from top *)
(* to bottom must hold at least then.                                      *)
Sequential == calm /\ faults = 0 /\ Quiet

(* A request that passed authentication and its schema reaches a service.  *)
Begin(c, op, user, arg, label) ==
  /\ At(c, "idle") /\ served < MaxServed
  /\ call' = [call EXCEPT ![c] = [NoCall EXCEPT !.at = label, !.op = op,
                                                !.user = user, !.arg = arg]]
  /\ served' = served + 1
  /\ calm' = (calm /\ Quiet)
  /\ UNCHANGED faults

Goto(c, label)        == call' = [call EXCEPT ![c].at = label]
Note(c, label, value) == call' = [call EXCEPT ![c].at = label, ![c].seen = value]
Answer(c)             == call' = [call EXCEPT ![c] = NoCall]
Steady                == UNCHANGED <<served, calm, faults>>

(* An await rejects, or the process that serves the request dies there:    *)
(* the call ends where it is.                                              *)
Break(c) ==
  /\ faults < MaxFaults /\ faults' = faults + 1
  /\ Answer(c)
  /\ UNCHANGED <<served, calm>>
=============================================================================
