------------------------------- MODULE ApiKeys ------------------------------
(***************************************************************************)
(* One product of the external API marketplace: the keys of its            *)
(* subscribers, the two Redis counters that limit a key, the proxied call, *)
(* its usage log, which nobody waits for, and the charges.                 *)
(***************************************************************************)
EXTENDS Handlers

CONSTANTS
  Subscribers,  \* users who hold or take a key
  DayLimit,     \* calls a key may make in 24 hours
  BurstLimit    \* calls a key may make in a minute

ASSUME SubscribersFinite == IsFiniteSet(Subscribers)
ASSUME LimitsAreNat == DayLimit \in Nat \ {0} /\ BurstLimit \in Nat \ {0}

VARIABLES
  pricing,   \* ApiProduct.pricingType
  apiKeys,   \* ApiKey rows; a key is the number it was drawn as
  drawn,     \* keys drawn so far
  counters,  \* Redis: per subscriber and window, the count and its expiry
  usageLog,  \* ApiUsage rows per subscriber
  logging,   \* per subscriber and write of logUsage: the writes in flight
  fees,      \* per subscriber: invoices and payouts
  past       \* history, per subscriber: see Past

apiData == <<pricing, apiKeys, drawn, counters, usageLog, logging, fees, past>>
apiVars == <<apiData, handlerVars>>

Windows   == {"day", "burst"}
LogWrites == {"usage", "key"}
Limit     == [day |-> DayLimit, burst |-> BurstLimit]

NoKey  == [made |-> FALSE, active |-> FALSE, key |-> 0, calls |-> 0]
KeyRow == [made: BOOLEAN, active: BOOLEAN, key: Nat, calls: Nat]

(* The history of a subscriber: calls the proxy made for them, those that  *)
(* succeeded, and subscriptions charged by the month that began.           *)
NoPast == [proxied |-> 0, ok |-> 0, begun |-> 0]
Past   == [proxied: Nat, ok: Nat, begun: Nat]

ApiInit ==
  /\ HandlersInit
  /\ pricing \in {"monthly", "per_call"}
  /\ \E already \in SUBSET Subscribers :
       \E rank \in [already -> 1 .. Cardinality(already)] :
         /\ \A u, v \in already : rank[u] = rank[v] => u = v
         /\ drawn = Cardinality(already)
         /\ apiKeys = [u \in Subscribers |->
              IF u \in already
              THEN [NoKey EXCEPT !.made = TRUE, !.active = TRUE, !.key = rank[u]] ELSE NoKey]
  /\ counters = [u \in Subscribers |-> [w \in Windows |-> [count |-> 0, expires |-> FALSE]]]
  /\ usageLog = [u \in Subscribers |-> 0]
  /\ logging = [u \in Subscribers |-> [w \in LogWrites |-> 0]]
  /\ fees = [u \in Subscribers |-> [invoices |-> 0, payouts |-> 0]]
  /\ past = [u \in Subscribers |-> NoPast]

-----------------------------------------------------------------------------
(* Keys: subscribe, unsubscribe, revokeKey, rotateKey.                     *)

KeyOps == {"subscribe", "unsubscribe", "revoke", "rotate"}

ServeKey(c) ==
  /\ \E op \in KeyOps, u \in Subscribers : Begin(c, op, u, Nobody, "find")
  /\ UNCHANGED apiData

(* subscribe is idempotent on an active key; unsubscribe wants one; revoke *)
(* and rotate take the row by its id, active or not.                       *)
FindKey(c) ==
  LET row == apiKeys[call[c].user]
  IN /\ At(c, "find")
     /\ Is(c, {"subscribe"}) => ~row.active
     /\ Is(c, {"unsubscribe"}) => row.active
     /\ Is(c, {"revoke", "rotate"}) => row.made
     /\ Goto(c, IF Is(c, {"subscribe"}) /\ ~row.made THEN "issue" ELSE "update")
     /\ Steady /\ UNCHANGED apiData

Drawn(row) == [row EXCEPT !.made = TRUE, !.active = TRUE, !.key = drawn + 1]

NewPeriod(u) == pricing = "monthly" /\ ~apiKeys[u].active

Draws(c) == Is(c, {"subscribe", "rotate"})

(* The unique index on (user, product) refuses a second row.  The audit    *)
(* row that follows has no reader here: to fail there is to fail at the    *)
(* next await.                                                             *)
WriteKey(c) ==
  LET u == call[c].user
      row == apiKeys[u]
  IN /\ At(c, "issue") \/ At(c, "update")
     /\ At(c, "issue") => ~row.made
     /\ apiKeys' = [apiKeys EXCEPT ![u] =
          CASE Is(c, {"subscribe"}) -> Drawn(row)
            [] Is(c, {"rotate"})    -> [row EXCEPT !.key = drawn + 1]
            [] OTHER                -> [row EXCEPT !.active = FALSE]]
     /\ drawn' = IF Draws(c) THEN drawn + 1 ELSE drawn
     /\ past' = [past EXCEPT ![u].begun =
          IF Is(c, {"subscribe"}) /\ NewPeriod(u) THEN @ + 1 ELSE @]
     /\ IF Is(c, {"subscribe"}) THEN Goto(c, "price") ELSE Answer(c)
     /\ Steady
     /\ UNCHANGED <<pricing, counters, usageLog, logging, fees>>

(* recordApiSubscriptionCharge and recordApiUsageCharge: the product's     *)
(* price, an invoice, a payout.                                            *)
(* Slip: a call is billed however the product is priced.                   *)
AlwaysDue(c) == TRUE
Due(c) == Is(c, {"subscribe"}) <=> pricing = "monthly"

ReadFee(c) ==
  /\ At(c, "price")
  /\ IF Due(c) THEN Goto(c, "invoice") ELSE Answer(c)
  /\ Steady /\ UNCHANGED apiData

Charge(c) ==
  LET u == call[c].user
  IN /\ \/ /\ At(c, "invoice") /\ Goto(c, "payout")
           /\ fees' = [fees EXCEPT ![u].invoices = @ + 1]
        \/ /\ At(c, "payout") /\ Answer(c)
           /\ fees' = [fees EXCEPT ![u].payouts = @ + 1]
     /\ Steady
     /\ UNCHANGED <<pricing, apiKeys, drawn, counters, usageLog, logging, past>>

-----------------------------------------------------------------------------
(* execute: the key, the two counters, the call, the log and the charge.   *)

ServeExecute(c) ==
  /\ \E u \in Subscribers : Begin(c, "execute", u, Nobody, "key")
  /\ UNCHANGED apiData

FindActiveKey(c) ==
  /\ At(c, "key") /\ apiKeys[call[c].user].active
  /\ call' = [call EXCEPT ![c].at = "incr", ![c].arg = "day"]
  /\ Steady /\ UNCHANGED apiData

(* checkRateLimit, for the day and then for the burst: INCR, and EXPIRE by *)
(* the caller that finds it has created the counter.  A count beyond the   *)
(* limit is refused, but stays counted.                                    *)
Admit(c, count) ==
  LET w == call[c].arg
  IN IF count > Limit[w] THEN Answer(c)
     ELSE call' = [call EXCEPT ![c].at = IF w = "day" THEN "incr" ELSE "fetch",
                               ![c].arg = "burst", ![c].seen = Nobody]

(* Slip: only the first caller that is refused sets the expiry.            *)
CreatedLate(count, w) == count = Limit[w] + 1
Created(count, w) == count = 1

Incr(c) ==
  LET u == call[c].user
      w == call[c].arg
      count == counters[u][w].count + 1
  IN /\ At(c, "incr")
     /\ counters' = [counters EXCEPT ![u][w].count = count]
     /\ IF Created(count, w) THEN Note(c, "expire", count) ELSE Admit(c, count)
     /\ Steady
     /\ UNCHANGED <<pricing, apiKeys, drawn, usageLog, logging, fees, past>>

SetExpiry(c) ==
  /\ At(c, "expire")
  /\ counters' = [counters EXCEPT ![call[c].user][call[c].arg].expires = TRUE]
  /\ Admit(c, call[c].seen)
  /\ Steady
  /\ UNCHANGED <<pricing, apiKeys, drawn, usageLog, logging, fees, past>>

(* Redis drops a counter whose time is over.                               *)
ExpireCounter(u, w) ==
  /\ counters[u][w].expires
  /\ counters' = [counters EXCEPT ![u][w] = [count |-> 0, expires |-> FALSE]]
  /\ UNCHANGED <<handlerVars, pricing, apiKeys, drawn, usageLog, logging, fees, past>>

(* logUsage sends writes nobody waits for: the usage row, the key's count, *)
(* and the product's, which is left out since it moves as the key's does.  *)
Logged(u) == [logging EXCEPT ![u] = [w \in LogWrites |-> @[w] + 1]]

(* The upstream answers, with success or an error status, or it does not   *)
(* answer: the catch logs the call too.                                    *)
Fetch(c) ==
  LET u == call[c].user
  IN /\ At(c, "fetch")
     /\ \E ok \in BOOLEAN :
          /\ IF ok THEN Goto(c, "price") ELSE Answer(c)
          /\ past' = [past EXCEPT ![u].proxied = @ + 1, ![u].ok = IF ok THEN @ + 1 ELSE @]
     /\ logging' = Logged(u)
     /\ Steady
     /\ UNCHANGED <<pricing, apiKeys, drawn, counters, usageLog, fees>>

(* A charge that fails after the call is caught by the same catch: the     *)
(* call is logged once more and answered as a failure of the upstream.     *)
FailCharge(c) ==
  /\ Is(c, {"execute"}) /\ call[c].at \in {"price", "invoice", "payout"}
  /\ Break(c)
  /\ logging' = Logged(call[c].user)
  /\ UNCHANGED <<pricing, apiKeys, drawn, counters, usageLog, fees, past>>

Log(u, w) ==
  /\ logging[u][w] > 0
  /\ logging' = [logging EXCEPT ![u][w] = @ - 1]
  /\ usageLog' = [usageLog EXCEPT ![u] = IF w = "usage" THEN @ + 1 ELSE @]
  /\ apiKeys' = [apiKeys EXCEPT ![u].calls = IF w = "key" THEN @ + 1 ELSE @]
  /\ UNCHANGED <<handlerVars, pricing, drawn, counters, fees, past>>

LoseLog(u, w) ==
  /\ logging[u][w] > 0 /\ faults < MaxFaults
  /\ logging' = [logging EXCEPT ![u][w] = @ - 1]
  /\ faults' = faults + 1
  /\ UNCHANGED <<call, served, calm, pricing, apiKeys, drawn, counters, usageLog, fees, past>>

-----------------------------------------------------------------------------
(* A check refuses the call, or the read before it rejects.                *)
RefuseApi(c) ==
  /\ call[c].at \in {"find", "issue", "key"}
  /\ Answer(c) /\ Steady /\ UNCHANGED apiData

(* An await rejects outside the try of execute, or the process dies.       *)
BreakApi(c) ==
  /\ ~At(c, "idle") /\ Break(c)
  /\ UNCHANGED apiData

ApiNext ==
  \/ \E c \in Calls :
       \/ ServeKey(c) \/ FindKey(c) \/ WriteKey(c) \/ ReadFee(c) \/ Charge(c)
       \/ ServeExecute(c) \/ FindActiveKey(c) \/ Incr(c) \/ SetExpiry(c)
       \/ Fetch(c) \/ FailCharge(c) \/ RefuseApi(c) \/ BreakApi(c)
  \/ \E u \in Subscribers : \/ \E w \in Windows : ExpireCounter(u, w)
                      \/ \E w \in LogWrites : Log(u, w) \/ LoseLog(u, w)

ApiSpec == ApiInit /\ [][ApiNext]_apiVars

-----------------------------------------------------------------------------
(* Properties.                                                             *)

ApiLabels == {"idle", "find", "issue", "update", "price", "invoice", "payout",
              "key", "incr", "expire", "fetch"}

(* Types of the rows, the counters and the handlers.                       *)
ApiTypeOK ==
  /\ pricing \in {"monthly", "per_call"}
  /\ apiKeys \in [Subscribers -> KeyRow] /\ drawn \in Nat
  /\ counters \in [Subscribers -> [Windows -> [count: Nat, expires: BOOLEAN]]]
  /\ usageLog \in [Subscribers -> Nat]
  /\ logging \in [Subscribers -> [LogWrites -> Nat]]
  /\ fees \in [Subscribers -> [invoices: Nat, payouts: Nat]]
  /\ past \in [Subscribers -> Past]
  /\ faults \in Nat
  /\ \A c \in Calls : call[c].at \in ApiLabels

(* A Redis counter that nothing will drop would refuse its key for ever    *)
(* once the limit is reached: until an await fails, a counter without an   *)
(* expiry has a handler that is about to set one.                          *)
CountersExpire ==
  faults = 0 => \A u \in Subscribers, w \in Windows :
    counters[u][w].count > 0 /\ ~counters[u][w].expires =>
      \E c \in Calls : At(c, "expire") /\ call[c].user = u /\ call[c].arg = w

(* However calls overlap: with no failure each proxied call is logged and  *)
(* counted once, and each success of a product priced by the call, or each *)
(* month, is billed, the month once when calls do not overlap; with        *)
(* failures nothing is billed that did not happen, and a call is logged    *)
(* twice at most once per failure.                                         *)
UsageIsAccounted ==
  /\ \A u \in Subscribers :
       /\ fees[u].payouts <= fees[u].invoices
       /\ pricing = "per_call" => fees[u].invoices <= past[u].ok
       /\ usageLog[u] <= past[u].proxied + faults
  /\ Quiet /\ faults = 0 =>
       \A u \in Subscribers :
          (\A w \in LogWrites : logging[u][w] = 0) =>
          /\ usageLog[u] = past[u].proxied /\ apiKeys[u].calls = past[u].proxied
          /\ fees[u].payouts = fees[u].invoices
          /\ fees[u].invoices >= IF pricing = "monthly" THEN past[u].begun ELSE past[u].ok
          /\ calm /\ pricing = "monthly" => fees[u].invoices = past[u].begun
=============================================================================
