--------------------------- MODULE SellingProofs ----------------------------
(***************************************************************************)
(* What is sold, for every number of buyers, calls, days and faults, every *)
(* limit and every quota: the keys of API products and the counters that   *)
(* limit them, the plans and their quotas, the subscriptions to listings   *)
(* and the counters that listings keep.                                    *)
(***************************************************************************)
EXTENDS HandlerProofs, Marketplace, ApiKeys, BillingPlans

USE ServedIsNat, LimitsAreNat, SubscribersFinite, FreeIsPlan, QuotasAreNat, DaysAreNat,
    IdsFinite, SellerIsUser, LimitIsNat

(* The counters that limit an API key.                                     *)

ApiCall == [at: ApiLabels, op: KeyOps \cup {"none", "execute"}, user: Subscribers \cup {Nobody},
             arg: Windows \cup {Nobody}, seen: Nat \cup {Nobody}, todo: {{}}]

CounterType == [count: Nat, expires: BOOLEAN]

(* A handler that is at a counter knows whose, and of which window.        *)
Aimed(r) ==
  /\ r.at \in {"key", "incr", "expire"} => r.user \in Subscribers
  /\ r.at \in {"incr", "expire"} => r.arg \in Windows

CounterInv ==
  /\ call \in [Calls -> ApiCall] /\ \A c \in Calls : Aimed(call[c])
  /\ counters \in [Subscribers -> [Windows -> CounterType]]
  /\ faults \in Nat
  /\ CountersExpire

(* The handlers after a step of one of them.                               *)
LEMMA ApiCallMoves ==
  ASSUME CounterInv, NEW c \in Calls, NEW r \in ApiCall, Aimed(r), call' = [call EXCEPT ![c] = r]
  PROVE  /\ call' \in [Calls -> ApiCall] /\ \A d \in Calls : Aimed(call'[d])
         /\ call'[c] = r /\ \A d \in Calls \ {c} : call'[d] = call[d]
  BY DEF CounterInv

(* A handler that is not about to set an expiry may do anything but touch  *)
(* a counter.                                                              *)
LEMMA NoCounterAt ==
  ASSUME CounterInv, NEW c \in Calls, NEW r \in ApiCall, Aimed(r), call' = [call EXCEPT ![c] = r],
         ~At(c, "expire"), UNCHANGED <<counters, faults>>
  PROVE  CounterInv'
<1>1. /\ call' \in [Calls -> ApiCall] /\ \A d \in Calls : Aimed(call'[d])
      /\ \A d \in Calls \ {c} : call'[d] = call[d]
  BY ApiCallMoves
<1>2. CountersExpire'
  BY <1>1 DEF CounterInv, CountersExpire, At
<1> QED
  BY <1>1, <1>2 DEF CounterInv

(* Nor does a step that fails have to keep the promise.                    *)
LEMMA FailingCounter ==
  ASSUME CounterInv, call' \in [Calls -> ApiCall], \A d \in Calls : Aimed(call'[d]),
         UNCHANGED counters, faults' = faults + 1
  PROVE  CounterInv'
<1>1. faults' \in Nat /\ faults' # 0
  BY DEF CounterInv
<1> QED
  BY <1>1 DEF CounterInv, CountersExpire

LEMMA NoCallAims == NoCall \in ApiCall /\ Aimed(NoCall) /\ NoCall.at = "idle"
  BY DEF NoCall, ApiCall, Aimed, ApiLabels

(* The ways a handler moves on.                                            *)
LEMMA AnswerKeepsCounters ==
  ASSUME CounterInv, NEW c \in Calls, ~At(c, "expire"), Answer(c), UNCHANGED <<counters, faults>>
  PROVE  CounterInv'
  BY NoCallAims, NoCounterAt DEF Answer

LEMMA GotoKeepsCounters ==
  ASSUME CounterInv, NEW c \in Calls, NEW l \in ApiLabels \ {"key", "incr", "expire"},
         ~At(c, "expire"), Goto(c, l), UNCHANGED <<counters, faults>>
  PROVE  CounterInv'
<1> DEFINE r == [call[c] EXCEPT !.at = l]
<1>1. call[c] \in ApiCall /\ call \in [Calls -> ApiCall]
  BY DEF CounterInv
<1>2. r \in ApiCall /\ r.at = l
  BY <1>1 DEF ApiCall
<1>3. call' = [call EXCEPT ![c] = r]
  BY <1>1 DEF Goto
<1>4. Aimed(r)
  BY <1>2 DEF Aimed
<1> HIDE DEF r
<1> QED
  BY <1>2, <1>3, <1>4, NoCounterAt

LEMMA BeginKeepsCounters ==
  ASSUME CounterInv, NEW c \in Calls, NEW op \in KeyOps \cup {"execute"}, NEW u \in Subscribers,
         NEW l \in ApiLabels \ {"incr", "expire"}, Begin(c, op, u, Nobody, l), UNCHANGED counters
  PROVE  CounterInv'
<1> DEFINE r == [NoCall EXCEPT !.at = l, !.op = op, !.user = u, !.arg = Nobody]
<1>1. r \in ApiCall /\ r.at = l
  BY DEF ApiCall, NoCall
<1>2. call' = [call EXCEPT ![c] = r] /\ ~At(c, "expire") /\ UNCHANGED faults
  BY DEF Begin, At
<1>3. Aimed(r)
  BY <1>1 DEF Aimed, NoCall
<1> HIDE DEF r
<1> QED
  BY <1>1, <1>2, <1>3, NoCounterAt

LEMMA BreakKeepsCounters ==
  ASSUME CounterInv, NEW c \in Calls, Break(c), UNCHANGED counters
  PROVE  CounterInv'
<1>1. faults' = faults + 1 /\ call' = [call EXCEPT ![c] = NoCall]
  BY DEF Break, Answer
<1> QED
  BY <1>1, NoCallAims, ApiCallMoves, FailingCounter

(* What Admit leaves: the handler is past this counter.                    *)
LEMMA Admitted ==
  ASSUME CounterInv, NEW c \in Calls, NEW n, Admit(c, n), At(c, "incr") \/ At(c, "expire")
  PROVE  \E r \in ApiCall : Aimed(r) /\ call' = [call EXCEPT ![c] = r]
<1>1. call[c] \in ApiCall /\ call \in [Calls -> ApiCall] /\ Aimed(call[c])
  BY DEF CounterInv
<1>2. CASE call' = [call EXCEPT ![c] = NoCall]
  BY <1>2, NoCallAims
<1>3. ASSUME NEW l \in {"incr", "fetch"}, call[c].user \in Subscribers,
             call' = [call EXCEPT ![c].at = l, ![c].arg = "burst", ![c].seen = Nobody]
      PROVE  \E r \in ApiCall : Aimed(r) /\ call' = [call EXCEPT ![c] = r]
  <2> DEFINE r == [call[c] EXCEPT !.at = l, !.arg = "burst", !.seen = Nobody]
  <2>1. r \in ApiCall /\ r.user = call[c].user /\ r.arg = "burst"
    BY <1>1 DEF ApiCall, ApiLabels, Windows
  <2>2. call' = [call EXCEPT ![c] = r]
    BY <1>1, <1>3
  <2>3. Aimed(r)
    BY <1>3, <2>1 DEF Aimed, Windows
  <2> QED
    BY <2>1, <2>2, <2>3
<1>4. call[c].user \in Subscribers
  BY <1>1 DEF Aimed, At
<1> QED
  BY <1>2, <1>3, <1>4 DEF Admit, Answer

(* A caller whose key is active goes to its counter of the day.            *)
LEMMA FindActiveKeeps == ASSUME CounterInv, NEW c \in Calls, FindActiveKey(c) PROVE CounterInv'
<1> DEFINE r == [call[c] EXCEPT !.at = "incr", !.arg = "day"]
<1>1. /\ call[c] \in ApiCall /\ call \in [Calls -> ApiCall] /\ Aimed(call[c])
      /\ call[c].at = "key" /\ UNCHANGED <<counters, faults>>
  BY DEF CounterInv, FindActiveKey, Steady, apiData, At
<1>2. r \in ApiCall /\ r.user = call[c].user /\ r.arg = "day"
  BY <1>1 DEF ApiCall, ApiLabels, Windows
<1>3. call' = [call EXCEPT ![c] = r]
  BY <1>1 DEF FindActiveKey
<1>4. Aimed(r)
  BY <1>1, <1>2 DEF Aimed, Windows
<1> HIDE DEF r
<1> QED
  BY <1>1, <1>2, <1>3, <1>4, NoCounterAt DEF At

(* A counter that is written; the others stay.                             *)
LEMMA CounterGrows ==
  ASSUME counters \in [Subscribers -> [Windows -> CounterType]],
         NEW u \in Subscribers, NEW w \in Windows, NEW k \in CounterType,
         counters' = [counters EXCEPT ![u][w] = k]
  PROVE  /\ counters' \in [Subscribers -> [Windows -> CounterType]]
         /\ counters'[u][w] = k
         /\ \A v \in Subscribers, x \in Windows :
              v # u \/ x # w => counters'[v][x] = counters[v][x]
  OBVIOUS

(* INCR: whoever creates the counter is about to set its expiry.           *)
LEMMA IncrKeeps == ASSUME CounterInv, NEW c \in Calls, Incr(c) PROVE CounterInv'
<1> DEFINE u == call[c].user
           w == call[c].arg
           k == [counters[u][w] EXCEPT !.count = counters[u][w].count + 1]
<1>1. /\ call[c] \in ApiCall /\ call \in [Calls -> ApiCall] /\ Aimed(call[c])
      /\ counters \in [Subscribers -> [Windows -> CounterType]] /\ call[c].at = "incr"
  BY DEF CounterInv, Incr, At
<1>2. u \in Subscribers /\ w \in Windows /\ counters[u][w] \in CounterType
  BY <1>1 DEF Aimed
<1>3. k \in CounterType /\ k.count = counters[u][w].count + 1 /\ k.expires = counters[u][w].expires
      /\ counters[u][w].count \in Nat
  BY <1>2 DEF CounterType
<1>4. counters' = [counters EXCEPT ![u][w] = k] /\ UNCHANGED faults
  BY <1>1, <1>2 DEF Incr, Steady
<1> HIDE DEF k
<1>5. /\ counters' \in [Subscribers -> [Windows -> CounterType]]
      /\ counters'[u][w] = k
      /\ \A v \in Subscribers, x \in Windows :
           v # u \/ x # w => counters'[v][x] = counters[v][x]
  BY <1>1, <1>2, <1>3, <1>4, CounterGrows
<1> DEFINE Sets(r) == r.at = "expire" /\ r.user = u /\ r.arg = w
<1>6. \E r \in ApiCall : Aimed(r) /\ call' = [call EXCEPT ![c] = r] /\ (k.count = 1 => Sets(r))
  <2>1. CASE Created(k.count, w)
    <3> DEFINE r == [call[c] EXCEPT !.at = "expire", !.seen = k.count]
    <3>1. k.count \in Nat \cup {Nobody} /\ "expire" \in ApiLabels
      BY <1>3 DEF ApiLabels
    <3>2. r \in ApiCall /\ r.at = "expire" /\ r.user = u /\ r.arg = w
      BY <1>1, <3>1 DEF ApiCall
    <3>3. call' = [call EXCEPT ![c] = r]
      BY <1>1, <1>3, <2>1 DEF Incr, Note
    <3>4. Aimed(r)
      BY <1>2, <3>2 DEF Aimed
    <3> QED
      BY <3>2, <3>3, <3>4
  <2>2. CASE ~Created(k.count, w)
    <3>1. Admit(c, k.count) /\ k.count # 1
      BY <1>3, <2>2 DEF Incr, Created
    <3> QED
      BY <1>1, <3>1, Admitted DEF At
  <2> QED
    BY <2>1, <2>2
<1> HIDE DEF Sets
<1>7. PICK r \in ApiCall : Aimed(r) /\ call' = [call EXCEPT ![c] = r] /\ (k.count = 1 => Sets(r))
  BY <1>6
<1>8. /\ call' \in [Calls -> ApiCall] /\ \A d \in Calls : Aimed(call'[d])
      /\ call'[c] = r /\ \A d \in Calls \ {c} : call'[d] = call[d]
  BY <1>7, ApiCallMoves
<1>9. CountersExpire'
  <2> SUFFICES ASSUME faults' = 0, NEW v \in Subscribers, NEW x \in Windows,
                      counters'[v][x].count > 0, ~counters'[v][x].expires
               PROVE  \E d \in Calls : call'[d].at = "expire" /\ call'[d].user = v /\ call'[d].arg = x
    BY DEF CountersExpire, At
  <2>1. CASE v = u /\ x = w /\ k.count = 1
    BY <1>7, <1>8, <2>1 DEF Sets
  <2>2. CASE ~(v = u /\ x = w /\ k.count = 1)
    <3>1. counters[v][x].count > 0 /\ ~counters[v][x].expires
      BY <1>3, <1>5, <2>2
    <3>2. PICK d \in Calls : call[d].at = "expire" /\ call[d].user = v /\ call[d].arg = x
      BY <1>4, <3>1 DEF CounterInv, CountersExpire, At
    <3> QED
      BY <1>1, <1>8, <3>2
  <2> QED
    BY <2>1, <2>2
<1> QED
  BY <1>4, <1>5, <1>8, <1>9 DEF CounterInv

(* EXPIRE: the counter no longer needs its handler.                        *)
LEMMA SetExpiryKeeps == ASSUME CounterInv, NEW c \in Calls, SetExpiry(c) PROVE CounterInv'
<1> DEFINE u == call[c].user
           w == call[c].arg
           k == [counters[u][w] EXCEPT !.expires = TRUE]
<1>1. /\ call[c] \in ApiCall /\ call \in [Calls -> ApiCall] /\ Aimed(call[c])
      /\ counters \in [Subscribers -> [Windows -> CounterType]] /\ call[c].at = "expire"
  BY DEF CounterInv, SetExpiry, At
<1>2. u \in Subscribers /\ w \in Windows /\ counters[u][w] \in CounterType
  BY <1>1 DEF Aimed
<1>3. k \in CounterType /\ k.expires
  BY <1>2 DEF CounterType
<1>4. counters' = [counters EXCEPT ![u][w] = k] /\ UNCHANGED faults
  BY <1>1, <1>2 DEF SetExpiry, Steady
<1> HIDE DEF k
<1>5. /\ counters' \in [Subscribers -> [Windows -> CounterType]]
      /\ counters'[u][w] = k
      /\ \A v \in Subscribers, x \in Windows :
           v # u \/ x # w => counters'[v][x] = counters[v][x]
  BY <1>1, <1>2, <1>3, <1>4, CounterGrows
<1>6. PICK r \in ApiCall : Aimed(r) /\ call' = [call EXCEPT ![c] = r]
  BY <1>1, Admitted DEF SetExpiry, At
<1>7. /\ call' \in [Calls -> ApiCall] /\ \A d \in Calls : Aimed(call'[d])
      /\ \A d \in Calls \ {c} : call'[d] = call[d]
  BY <1>6, ApiCallMoves
<1>8. CountersExpire'
  <2> SUFFICES ASSUME faults' = 0, NEW v \in Subscribers, NEW x \in Windows,
                      counters'[v][x].count > 0, ~counters'[v][x].expires
               PROVE  \E d \in Calls : call'[d].at = "expire" /\ call'[d].user = v /\ call'[d].arg = x
    BY DEF CountersExpire, At
  <2>1. v # u \/ x # w
    BY <1>3, <1>5
  <2>2. PICK d \in Calls : call[d].at = "expire" /\ call[d].user = v /\ call[d].arg = x
    BY <1>4, <1>5, <2>1 DEF CounterInv, CountersExpire, At
  <2>3. d # c
    BY <2>1, <2>2
  <2> QED
    BY <1>7, <2>2, <2>3
<1> QED
  BY <1>4, <1>5, <1>7, <1>8 DEF CounterInv

(* Redis drops a counter.                                                  *)
LEMMA ExpireKeeps ==
  ASSUME CounterInv, NEW u \in Subscribers, NEW w \in Windows, ExpireCounter(u, w)
  PROVE  CounterInv'
<1> DEFINE k == [count |-> 0, expires |-> FALSE]
<1>1. k \in CounterType /\ k.count = 0
  BY DEF CounterType
<1>2. counters' = [counters EXCEPT ![u][w] = k] /\ UNCHANGED <<call, faults>>
  BY DEF ExpireCounter, handlerVars
<1> HIDE DEF k
<1>3. /\ counters' \in [Subscribers -> [Windows -> CounterType]]
      /\ counters'[u][w] = k
      /\ \A v \in Subscribers, x \in Windows :
           v # u \/ x # w => counters'[v][x] = counters[v][x]
  BY <1>1, <1>2, CounterGrows DEF CounterInv
<1>4. CountersExpire'
  BY <1>1, <1>2, <1>3 DEF CounterInv, CountersExpire, At
<1> QED
  BY <1>2, <1>3, <1>4 DEF CounterInv

(* The first state is as it should be.                                     *)
LEMMA CounterInitOK == ApiInit => CounterInv
<1> SUFFICES ASSUME ApiInit PROVE CounterInv
  OBVIOUS
<1>1. call \in [Calls -> ApiCall] /\ (\A c \in Calls : Aimed(call[c])) /\ faults \in Nat
  BY NoCallAims DEF ApiInit, HandlersInit
<1>2. \A u \in Subscribers, w \in Windows : counters[u][w] = [count |-> 0, expires |-> FALSE]
  BY DEF ApiInit
<1>3. counters \in [Subscribers -> [Windows -> CounterType]]
  BY DEF ApiInit, CounterType
<1>4. CountersExpire
  BY <1>2 DEF CountersExpire
<1> QED
  BY <1>1, <1>3, <1>4 DEF CounterInv

(* Every step keeps the invariant.                                         *)
LEMMA CounterStep == CounterInv /\ [ApiNext]_apiVars => CounterInv'
<1> SUFFICES ASSUME CounterInv, [ApiNext]_apiVars PROVE CounterInv'
  OBVIOUS
<1>0. ApiLabels = {"idle", "find", "issue", "update", "price", "invoice", "payout",
                   "key", "incr", "expire", "fetch"}
  BY DEF ApiLabels
<1>1. ASSUME NEW c \in Calls,
             \/ ServeKey(c) \/ FindKey(c) \/ WriteKey(c) \/ ReadFee(c) \/ Charge(c)
             \/ ServeExecute(c) \/ FindActiveKey(c) \/ Incr(c) \/ SetExpiry(c)
             \/ Fetch(c) \/ FailCharge(c) \/ RefuseApi(c) \/ BreakApi(c)
      PROVE  CounterInv'
  <2>1. CASE ServeKey(c)
    BY <1>0, <2>1, BeginKeepsCounters DEF ServeKey, apiData
  <2>2. CASE FindKey(c)
    <3>1. CASE Goto(c, "issue")
      BY <1>0, <2>2, <3>1, GotoKeepsCounters DEF FindKey, Steady, apiData, At
    <3>2. CASE Goto(c, "update")
      BY <1>0, <2>2, <3>2, GotoKeepsCounters DEF FindKey, Steady, apiData, At
    <3> QED
      BY <2>2, <3>1, <3>2 DEF FindKey
  <2>3. CASE WriteKey(c)
    <3>1. ~At(c, "expire") /\ UNCHANGED <<counters, faults>> /\ (Goto(c, "price") \/ Answer(c))
      BY <2>3 DEF WriteKey, Steady, At
    <3> QED
      BY <1>0, <3>1, GotoKeepsCounters, AnswerKeepsCounters
  <2>4. CASE ReadFee(c)
    <3>1. ~At(c, "expire") /\ UNCHANGED <<counters, faults>> /\ (Goto(c, "invoice") \/ Answer(c))
      BY <2>4 DEF ReadFee, Steady, At, apiData
    <3> QED
      BY <1>0, <3>1, GotoKeepsCounters, AnswerKeepsCounters
  <2>5. CASE Charge(c)
    <3>1. ~At(c, "expire") /\ UNCHANGED <<counters, faults>> /\ (Goto(c, "payout") \/ Answer(c))
      BY <2>5 DEF Charge, Steady, At
    <3> QED
      BY <1>0, <3>1, GotoKeepsCounters, AnswerKeepsCounters
  <2>6. CASE ServeExecute(c)
    BY <1>0, <2>6, BeginKeepsCounters DEF ServeExecute, apiData
  <2>7. CASE FindActiveKey(c)
    BY <2>7, FindActiveKeeps
  <2>8. CASE Incr(c)
    BY <2>8, IncrKeeps
  <2>9. CASE SetExpiry(c)
    BY <2>9, SetExpiryKeeps
  <2>10. CASE Fetch(c)
    <3>1. ~At(c, "expire") /\ UNCHANGED <<counters, faults>> /\ (Goto(c, "price") \/ Answer(c))
      BY <2>10 DEF Fetch, Steady, At
    <3> QED
      BY <1>0, <3>1, GotoKeepsCounters, AnswerKeepsCounters
  <2>11. CASE FailCharge(c)
    BY <2>11, BreakKeepsCounters DEF FailCharge
  <2>12. CASE RefuseApi(c)
    BY <2>12, AnswerKeepsCounters DEF RefuseApi, Steady, apiData, At
  <2>13. CASE BreakApi(c)
    BY <2>13, BreakKeepsCounters DEF BreakApi, apiData
  <2> QED
    BY <1>1, <2>1, <2>2, <2>3, <2>4, <2>5, <2>6, <2>7, <2>8, <2>9, <2>10, <2>11, <2>12, <2>13
<1>2. ASSUME NEW u \in Subscribers, NEW w \in Windows, ExpireCounter(u, w) PROVE CounterInv'
  BY <1>2, ExpireKeeps
<1>3. ASSUME NEW u \in Subscribers, NEW w \in LogWrites, Log(u, w) PROVE CounterInv'
  BY <1>3 DEF Log, handlerVars, CounterInv, CountersExpire, At
<1>4. ASSUME NEW u \in Subscribers, NEW w \in LogWrites, LoseLog(u, w) PROVE CounterInv'
  <2>1. UNCHANGED <<call, counters>> /\ faults' = faults + 1
    BY <1>4 DEF LoseLog
  <2> QED
    BY <2>1, FailingCounter DEF CounterInv
<1>5. CASE UNCHANGED apiVars
  BY <1>5 DEF apiVars, apiData, handlerVars, CounterInv, CountersExpire, At
<1> QED
  BY <1>1, <1>2, <1>3, <1>4, <1>5 DEF ApiNext

(* CountersExpire for every number of subscribers, calls and faults: no    *)
(* interleaving of INCR and EXPIRE leaves a counter that never expires.    *)
THEOREM CountersAlwaysExpire == ApiSpec => []CountersExpire
<1>1. CounterInv => CountersExpire
  BY DEF CounterInv
<1> QED
  BY <1>1, CounterInitOK, CounterStep, PTL DEF ApiSpec

-----------------------------------------------------------------------------
(* The usage of API products: every call is logged and counted, and billed. *)

(* What a handler carries from one await to the next.                      *)
UsageCarries(k) ==
  /\ k.at \in ApiLabels
  /\ k.at # "idle" => k.user \in Subscribers
  /\ k.at \in {"find", "issue", "update"} => k.op \in KeyOps
  /\ k.at = "issue" => k.op = "subscribe"
  /\ k.at \in {"price", "invoice", "payout"} => k.op \in {"subscribe", "execute"}
  /\ k.at = "invoice" => (k.op = "subscribe" <=> pricing = "monthly")
  /\ k.at \in {"key", "incr", "expire", "fetch"} => k.op = "execute"

(* The handlers that have an invoice, and those that have a payout, to     *)
(* write for a subscriber.                                                 *)
Bills(k, u) == /\ k.user = u /\ k.at \in {"price", "invoice"}
               /\ k.op = "subscribe" <=> pricing = "monthly"
Pays(k, u)  == k.user = u /\ k.at = "payout"
BillsOf(u)  == Cardinality({c \in Calls : Bills(call[c], u)})
PaysOf(u)   == Cardinality({c \in Calls : Pays(call[c], u)})
Earned(u)   == IF pricing = "monthly" THEN past[u].begun ELSE past[u].ok

Billed(u) ==
  /\ fees[u].payouts + PaysOf(u) <= fees[u].invoices
  /\ faults = 0 => fees[u].invoices <= fees[u].payouts + PaysOf(u)
  /\ pricing = "per_call" \/ calm => fees[u].invoices + BillsOf(u) <= Earned(u)
  /\ faults = 0 => Earned(u) <= fees[u].invoices + BillsOf(u)

UsageCounted(u) ==
  /\ usageLog[u] + logging[u]["usage"] <= past[u].proxied + faults
  /\ faults = 0 => /\ usageLog[u] + logging[u]["usage"] = past[u].proxied
                   /\ apiKeys[u].calls + logging[u]["key"] = past[u].proxied

UsageTyped ==
  /\ pricing \in {"monthly", "per_call"}
  /\ apiKeys \in [Subscribers -> KeyRow] /\ drawn \in Nat
  /\ usageLog \in [Subscribers -> Nat]
  /\ logging \in [Subscribers -> [LogWrites -> Nat]]
  /\ fees \in [Subscribers -> [invoices: Nat, payouts: Nat]]
  /\ past \in [Subscribers -> Past]

(* What a subscriber's own handler found is still so, when it is alone.    *)
StillUnsold(k) == k.at \in {"issue", "update"} /\ k.op = "subscribe" => ~apiKeys[k.user].active

UsageInv ==
  /\ Shaped /\ Alone /\ faults \in Nat /\ calm \in BOOLEAN /\ UsageTyped
  /\ \A c \in Calls : UsageCarries(call[c])
  /\ calm => \A c \in Calls : StillUnsold(call[c])
  /\ \A u \in Subscribers : Billed(u) /\ UsageCounted(u)

LEMMA NoCallCarriesUsage == UsageCarries(NoCall) /\ NoCall.at = "idle"
  BY DEF UsageCarries, NoCall, ApiLabels

LEMMA BillsMove ==
  ASSUME NEW c \in Calls, NEW u \in Subscribers,
         \A d \in Calls \ {c} : call'[d] = call[d], pricing' = pricing
  PROVE  /\ BillsOf(u) \in Nat /\ BillsOf(u)' \in Nat /\ PaysOf(u) \in Nat /\ PaysOf(u)' \in Nat
         /\ (Bills(call[c], u) <=> Bills(call'[c], u)) => BillsOf(u)' = BillsOf(u)
         /\ Bills(call[c], u) /\ ~Bills(call'[c], u) => BillsOf(u)' = BillsOf(u) - 1
         /\ ~Bills(call[c], u) /\ Bills(call'[c], u) => BillsOf(u)' = BillsOf(u) + 1
         /\ (Pays(call[c], u) <=> Pays(call'[c], u)) => PaysOf(u)' = PaysOf(u)
         /\ Pays(call[c], u) /\ ~Pays(call'[c], u) => PaysOf(u)' = PaysOf(u) - 1
         /\ ~Pays(call[c], u) /\ Pays(call'[c], u) => PaysOf(u)' = PaysOf(u) + 1
<1> DEFINE S == {d \in Calls : Bills(call[d], u)}
           T == {d \in Calls : Bills(call'[d], u)}
           P == {d \in Calls : Pays(call[d], u)}
           Q == {d \in Calls : Pays(call'[d], u)}
<1>1. /\ BillsOf(u) = Cardinality(S) /\ BillsOf(u)' = Cardinality(T)
      /\ PaysOf(u) = Cardinality(P) /\ PaysOf(u)' = Cardinality(Q)
  BY DEF BillsOf, PaysOf, Bills, Pays
<1>2. /\ S \in SUBSET Calls /\ T \in SUBSET Calls /\ P \in SUBSET Calls /\ Q \in SUBSET Calls
      /\ \A d \in Calls \ {c} : (d \in S <=> d \in T) /\ (d \in P <=> d \in Q)
      /\ c \in S <=> Bills(call[c], u)
      /\ c \in T <=> Bills(call'[c], u)
      /\ c \in P <=> Pays(call[c], u)
      /\ c \in Q <=> Pays(call'[c], u)
  OBVIOUS
<1> HIDE DEF S, T, P, Q
<1>3. /\ Cardinality(S) \in Nat /\ Cardinality(T) \in Nat
      /\ (c \in S <=> c \in T) => Cardinality(T) = Cardinality(S)
      /\ c \in S /\ c \notin T => Cardinality(T) = Cardinality(S) - 1
      /\ c \notin S /\ c \in T => Cardinality(T) = Cardinality(S) + 1
  BY <1>2, OneDiffers
<1>4. /\ Cardinality(P) \in Nat /\ Cardinality(Q) \in Nat
      /\ (c \in P <=> c \in Q) => Cardinality(Q) = Cardinality(P)
      /\ c \in P /\ c \notin Q => Cardinality(Q) = Cardinality(P) - 1
      /\ c \notin P /\ c \in Q => Cardinality(Q) = Cardinality(P) + 1
  BY <1>2, OneDiffers
<1> QED
  BY <1>1, <1>2, <1>3, <1>4

LEMMA UsageRows ==
  ASSUME UsageTyped, NEW u \in Subscribers
  PROVE  /\ fees[u].invoices \in Nat /\ fees[u].payouts \in Nat /\ Earned(u) \in Nat
         /\ past[u].proxied \in Nat /\ past[u].ok \in Nat /\ past[u].begun \in Nat
         /\ usageLog[u] \in Nat /\ apiKeys[u].calls \in Nat /\ apiKeys[u] \in KeyRow
         /\ logging[u]["usage"] \in Nat /\ logging[u]["key"] \in Nat
  BY DEF UsageTyped, KeyRow, Past, LogWrites, Earned

(* A subscriber for whom nothing is written.                               *)
LEMMA BillsStay ==
  ASSUME UsageInv, NEW c \in Calls, NEW u \in Subscribers,
         \A d \in Calls \ {c} : call'[d] = call[d], pricing' = pricing,
         fees'[u] = fees[u], past'[u].ok = past[u].ok, past'[u].begun = past[u].begun,
         calm' => calm,
         \/ /\ faults' = faults
            /\ Bills(call[c], u) <=> Bills(call'[c], u)
            /\ Pays(call[c], u) <=> Pays(call'[c], u)
         \/ faults' = faults + 1 /\ ~Bills(call'[c], u) /\ ~Pays(call'[c], u)
  PROVE  Billed(u)'
<1>1. Earned(u)' = Earned(u) /\ Billed(u) /\ faults \in Nat
      /\ fees[u].invoices \in Nat /\ fees[u].payouts \in Nat /\ Earned(u) \in Nat
  BY UsageRows DEF Earned, UsageInv
<1>2. CASE faults' = faults
  <2>1. BillsOf(u)' = BillsOf(u) /\ PaysOf(u)' = PaysOf(u)
    BY <1>1, <1>2, BillsMove
  <2> QED
    BY <1>1, <1>2, <2>1 DEF Billed
<1>3. CASE faults' # faults
  <2>1. BillsOf(u)' <= BillsOf(u) /\ PaysOf(u)' <= PaysOf(u)
        /\ BillsOf(u)' \in Nat /\ PaysOf(u)' \in Nat /\ BillsOf(u) \in Nat /\ PaysOf(u) \in Nat
        /\ faults' # 0
    BY <1>1, <1>3, BillsMove
  <2> QED
    BY <1>1, <2>1 DEF Billed
<1> QED
  BY <1>2, <1>3

LEMMA CountsStay ==
  ASSUME UsageInv, NEW u \in Subscribers, usageLog'[u] = usageLog[u], logging'[u] = logging[u],
         past'[u].proxied = past[u].proxied, apiKeys'[u].calls = apiKeys[u].calls,
         faults' \in {faults, faults + 1}
  PROVE  UsageCounted(u)'
<1>1. faults \in Nat /\ UsageCounted(u) /\ past[u].proxied \in Nat
      /\ usageLog[u] \in Nat /\ logging[u]["usage"] \in Nat
  BY UsageRows DEF UsageInv
<1> QED
  BY <1>1 DEF UsageCounted

(* A step of one handler, when its books balance.                          *)
LEMMA UsageMoves ==
  ASSUME UsageInv, NEW c \in Calls, Shaped', \A d \in Calls \ {c} : call'[d] = call[d],
         Alone', calm' \in BOOLEAN, calm' => calm, faults' \in Nat, UsageTyped',
         UsageCarries(call'[c]), pricing' = pricing,
         calm' => StillUnsold(call[c])',
         calm' => \A u \in Subscribers : apiKeys'[u].active = apiKeys[u].active \/ ~At(c, "idle"),
         \A u \in Subscribers : Billed(u)' /\ UsageCounted(u)'
  PROVE  UsageInv'
<1>1. \A d \in Calls : UsageCarries(call[d])'
  BY DEF UsageInv, UsageCarries
<1>2. ASSUME calm', NEW d \in Calls PROVE StillUnsold(call[d])'
  <2>1. CASE d = c
    BY <1>2, <2>1
  <2>2. CASE d # c
    <3>1. StillUnsold(call[d]) /\ UsageCarries(call[d]) /\ call'[d] = call[d] /\ Alone
      BY <1>2, <2>2 DEF UsageInv
    <3>2. CASE call[d].at = "idle"
      BY <3>1, <3>2 DEF StillUnsold
    <3>3. CASE call[d].at # "idle"
      <4>1. At(c, "idle") /\ call[d].user \in Subscribers
        BY <1>2, <2>2, <3>1, <3>3 DEF Alone, At, UsageCarries
      <4>2. apiKeys'[call[d].user].active = apiKeys[call[d].user].active
        BY <1>2, <4>1
      <4> QED
        BY <3>1, <4>2 DEF StillUnsold
    <3> QED
      BY <3>2, <3>3
  <2> QED
    BY <2>1, <2>2
<1> QED
  BY <1>1, <1>2 DEF UsageInv

(* A step that writes nothing.                                             *)
LEMMA UsageReads ==
  ASSUME UsageInv, NEW c \in Calls, Shaped', \A d \in Calls \ {c} : call'[d] = call[d],
         Alone', calm' \in BOOLEAN, calm' => calm, UsageCarries(call'[c]), calm' => StillUnsold(call[c])',
         UNCHANGED <<pricing, apiKeys, drawn, usageLog, logging, fees, past>>,
         \/ /\ faults' = faults
            /\ \A u \in Subscribers : /\ Bills(call[c], u) <=> Bills(call'[c], u)
                                      /\ Pays(call[c], u) <=> Pays(call'[c], u)
         \/ faults' = faults + 1 /\ call'[c] = NoCall
  PROVE  UsageInv'
<1>1. UsageTyped' /\ faults' \in Nat
  BY DEF UsageInv, UsageTyped
<1>2. \A u \in Subscribers : ~Bills(NoCall, u) /\ ~Pays(NoCall, u)
  BY NoCallCarriesUsage DEF Bills, Pays
<1>3. \A u \in Subscribers : Billed(u)'
  BY <1>2, BillsStay
<1>4. \A u \in Subscribers : UsageCounted(u)'
  BY CountsStay
<1> QED
  BY <1>1, <1>3, <1>4, UsageMoves

-----------------------------------------------------------------------------
(* The actions.                                                            *)

LEMMA ServeKeepsUsage ==
  ASSUME UsageInv, NEW c \in Calls, ServeKey(c) \/ ServeExecute(c)
  PROVE  UsageInv'
<1>1. /\ Shaped /\ calm \in BOOLEAN
      /\ UNCHANGED <<pricing, apiKeys, drawn, usageLog, logging, fees, past>>
      /\ \E op \in KeyOps \cup {"execute"}, u \in Subscribers, l \in {"find", "key"} :
           Begin(c, op, u, Nobody, l) /\ (l = "key" <=> op = "execute")
  BY DEF ServeKey, ServeExecute, UsageInv, apiData, KeyOps
<1>2. PICK op \in KeyOps \cup {"execute"}, u \in Subscribers, l \in {"find", "key"} :
        Begin(c, op, u, Nobody, l) /\ (l = "key" <=> op = "execute")
  BY <1>1
<1>3. /\ Shaped' /\ \A d \in Calls \ {c} : call'[d] = call[d]
      /\ call'[c].at = l /\ call'[c].op = op /\ call'[c].user = u
      /\ call[c].at = "idle" /\ faults' = faults
      /\ calm' = (calm /\ \A d \in Calls : At(d, "idle"))
  BY <1>1, <1>2, BeginMoves DEF At
<1>4. Alone' /\ calm' \in BOOLEAN /\ (calm' => calm)
  BY <1>1, <1>3, AloneBegins
<1>5. UsageCarries(call'[c]) /\ StillUnsold(call[c])'
  BY <1>2, <1>3 DEF UsageCarries, StillUnsold, ApiLabels
<1>6. \A v \in Subscribers : /\ Bills(call[c], v) <=> Bills(call'[c], v)
                             /\ Pays(call[c], v) <=> Pays(call'[c], v)
  BY <1>3 DEF Bills, Pays
<1> QED
  BY <1>1, <1>3, <1>4, <1>5, <1>6, UsageReads

LEMMA FindKeyKeeps == ASSUME UsageInv, NEW c \in Calls, FindKey(c) PROVE UsageInv'
<1>1. PICK l : /\ Goto(c, l) /\ l = IF Is(c, {"subscribe"}) /\ ~apiKeys[call[c].user].made
                                    THEN "issue" ELSE "update"
  BY DEF FindKey
<1>2. /\ Shaped /\ Alone /\ calm \in BOOLEAN /\ calm' = calm /\ faults' = faults /\ call[c].at = "find"
      /\ UsageCarries(call[c])
      /\ call[c].op = "subscribe" => ~apiKeys[call[c].user].active
      /\ UNCHANGED <<pricing, apiKeys, drawn, usageLog, logging, fees, past>>
  BY DEF FindKey, UsageInv, apiData, Steady, At, Is
<1>3. /\ Shaped' /\ \A d \in Calls \ {c} : call'[d] = call[d]
      /\ call'[c].at = l /\ call'[c].op = call[c].op /\ call'[c].user = call[c].user
  BY <1>1, <1>2, GotoMoves
<1>4. Alone'
  BY <1>2, <1>3, AloneMoves DEF At
<1>5. UsageCarries(call'[c]) /\ StillUnsold(call[c])'
  BY <1>1, <1>2, <1>3 DEF UsageCarries, StillUnsold, ApiLabels, Is
<1>6. \A v \in Subscribers : /\ Bills(call[c], v) <=> Bills(call'[c], v)
                             /\ Pays(call[c], v) <=> Pays(call'[c], v)
  BY <1>1, <1>2, <1>3 DEF Bills, Pays
<1> QED
  BY <1>2, <1>3, <1>4, <1>5, <1>6, UsageReads

LEMMA WriteKeyKeeps == ASSUME UsageInv, NEW c \in Calls, WriteKey(c) PROVE UsageInv'
<1>0. PICK u : u = call[c].user
  OBVIOUS
<1> DEFINE row == CASE Is(c, {"subscribe"}) -> Drawn(apiKeys[u])
                    [] Is(c, {"rotate"})    -> [apiKeys[u] EXCEPT !.key = drawn + 1]
                    [] OTHER                -> [apiKeys[u] EXCEPT !.active = FALSE]
<1> DEFINE began == Is(c, {"subscribe"}) /\ NewPeriod(u)
<1>1. /\ Shaped /\ Alone /\ calm \in BOOLEAN /\ calm' = calm /\ faults' = faults
      /\ call[c].at \in {"issue", "update"} /\ UsageCarries(call[c]) /\ UsageTyped
      /\ calm => StillUnsold(call[c])
      /\ apiKeys' = [apiKeys EXCEPT ![u] = row]
      /\ drawn' \in {drawn, drawn + 1}
      /\ past' = [past EXCEPT ![u].begun = IF began THEN @ + 1 ELSE @]
      /\ IF Is(c, {"subscribe"}) THEN Goto(c, "price") ELSE Answer(c)
      /\ UNCHANGED <<pricing, usageLog, logging, fees>>
  BY <1>0 DEF WriteKey, UsageInv, Steady, At
<1>2. u \in Subscribers /\ apiKeys[u] \in KeyRow /\ drawn \in Nat
  BY <1>0, <1>1, UsageRows DEF UsageCarries, UsageTyped
<1>3. row \in KeyRow /\ row.calls = apiKeys[u].calls
  <2>1. drawn + 1 \in Nat
    BY <1>2
  <2>2. CASE Is(c, {"subscribe"})
    <3>1. row = Drawn(apiKeys[u])
      <4>1. ~Is(c, {"rotate"})
        BY <2>2 DEF Is
      <4> QED
        BY <2>2, <4>1
    <3>2. Drawn(apiKeys[u]) \in KeyRow /\ Drawn(apiKeys[u]).calls = apiKeys[u].calls
      BY <1>2, <2>1 DEF KeyRow, Drawn
    <3> QED
      BY <3>1, <3>2
  <2>3. CASE ~Is(c, {"subscribe"}) /\ Is(c, {"rotate"})
    <3>1. row = [apiKeys[u] EXCEPT !.key = drawn + 1]
      BY <2>3
    <3> QED
      BY <1>2, <2>1, <3>1 DEF KeyRow
  <2>4. CASE ~Is(c, {"subscribe"}) /\ ~Is(c, {"rotate"})
    <3>1. row = [apiKeys[u] EXCEPT !.active = FALSE]
      BY <2>4
    <3> QED
      BY <1>2, <3>1 DEF KeyRow
  <2> QED
    BY <2>2, <2>3, <2>4
<1> HIDE DEF row
<1>4. /\ past' \in [Subscribers -> Past]
      /\ past'[u].begun = IF began THEN past[u].begun + 1 ELSE past[u].begun
      /\ past'[u].ok = past[u].ok /\ past'[u].proxied = past[u].proxied
      /\ \A v \in Subscribers \ {u} : past'[v] = past[v]
  <2> DEFINE n == IF began THEN past[u].begun + 1 ELSE past[u].begun
             k == [past[u] EXCEPT !.begun = n]
  <2>1. past \in [Subscribers -> Past] /\ past[u] \in Past
    BY <1>1, <1>2 DEF UsageTyped
  <2>2. n \in Nat
    BY <2>1 DEF Past
  <2>3. past' = [past EXCEPT ![u] = k]
    BY <1>1, <1>2, <2>1
  <2> HIDE DEF n
  <2>4. k \in Past /\ k.begun = n /\ k.ok = past[u].ok /\ k.proxied = past[u].proxied
    BY <2>1, <2>2 DEF Past
  <2> HIDE DEF k
  <2>5. past' \in [Subscribers -> Past] /\ past'[u] = k /\ \A v \in Subscribers \ {u} : past'[v] = past[v]
    BY <1>2, <2>1, <2>3, <2>4
  <2> QED
    BY <2>4, <2>5 DEF n
<1>5. /\ UsageTyped' /\ apiKeys'[u] = row
      /\ \A v \in Subscribers : apiKeys'[v].calls = apiKeys[v].calls
  BY <1>1, <1>2, <1>3, <1>4 DEF UsageTyped
<1>6. /\ Shaped' /\ \A d \in Calls \ {c} : call'[d] = call[d]
      /\ \/ /\ call[c].op = "subscribe"
            /\ call'[c].at = "price" /\ call'[c].op = call[c].op /\ call'[c].user = u
         \/ call[c].op # "subscribe" /\ call'[c] = NoCall
  <2>1. CASE call[c].op = "subscribe"
    BY <1>0, <1>1, <2>1, GotoMoves DEF Is
  <2>2. CASE call[c].op # "subscribe"
    BY <1>1, <2>2, AnswerMoves DEF Is
  <2> QED
    BY <2>1, <2>2
<1>7. Alone'
  BY <1>1, <1>6, AloneMoves DEF At
<1>8. UsageCarries(call'[c]) /\ StillUnsold(call[c])' /\ call'[c].at \notin {"invoice", "payout"}
  BY <1>1, <1>2, <1>6, NoCallCarriesUsage DEF UsageCarries, StillUnsold, ApiLabels
<1>9. ASSUME NEW v \in Subscribers PROVE UsageCounted(v)'
  <2>1. past'[v].proxied = past[v].proxied
    BY <1>4
  <2> QED
    BY <1>1, <1>5, <2>1, CountsStay
<1>10. ASSUME NEW v \in Subscribers, v # u \/ call[c].op # "subscribe" \/ pricing # "monthly"
       PROVE  Billed(v)'
  <2>1. past'[v].ok = past[v].ok /\ past'[v].begun = past[v].begun /\ fees'[v] = fees[v]
    BY <1>1, <1>2, <1>4, <1>10 DEF Is, NewPeriod
  <2>2. ~Bills(call[c], v) /\ ~Bills(call'[c], v) /\ ~Pays(call[c], v) /\ ~Pays(call'[c], v)
    BY <1>0, <1>1, <1>6, <1>10, NoCallCarriesUsage DEF Bills, Pays
  <2> QED
    BY <1>1, <1>6, <2>1, <2>2, BillsStay
<1>11. CASE call[c].op = "subscribe" /\ pricing = "monthly"
  <2>1. /\ ~Bills(call[c], u) /\ Bills(call'[c], u) /\ ~Pays(call[c], u) /\ ~Pays(call'[c], u)
    BY <1>0, <1>1, <1>6, <1>11 DEF Bills, Pays
  <2>2. BillsOf(u)' = BillsOf(u) + 1 /\ PaysOf(u)' = PaysOf(u)
        /\ BillsOf(u) \in Nat /\ PaysOf(u) \in Nat
    BY <1>1, <1>2, <1>6, <2>1, BillsMove
  <2>3. /\ Earned(u) = past[u].begun /\ past[u].begun \in Nat /\ fees[u].invoices \in Nat
        /\ Earned(u)' = IF began THEN past[u].begun + 1 ELSE past[u].begun
    BY <1>1, <1>2, <1>4, <1>11, UsageRows DEF Earned
  <2>4. calm => began
    BY <1>0, <1>1, <1>11 DEF StillUnsold, Is, NewPeriod
  <2>5. Billed(u) /\ fees'[u] = fees[u]
    BY <1>1, <1>2 DEF UsageInv
  <2> HIDE DEF began
  <2>6. Billed(u)'
    <3>1. pricing' # "per_call"
      BY <1>1, <1>11
    <3>2. calm' => fees'[u].invoices + BillsOf(u)' <= Earned(u)'
      BY <1>1, <2>2, <2>3, <2>4, <2>5 DEF Billed
    <3>3. faults' = 0 => Earned(u)' <= fees'[u].invoices + BillsOf(u)'
      BY <1>1, <2>2, <2>3, <2>5 DEF Billed
    <3>4. /\ fees'[u].payouts + PaysOf(u)' <= fees'[u].invoices
          /\ faults' = 0 => fees'[u].invoices <= fees'[u].payouts + PaysOf(u)'
      BY <1>1, <2>2, <2>5 DEF Billed
    <3> QED
      BY <3>1, <3>2, <3>3, <3>4 DEF Billed
  <2>7. \A v \in Subscribers : Billed(v)'
    BY <1>10, <2>6
  <2> QED
    BY <1>1, <1>5, <1>6, <1>7, <1>8, <1>9, <2>7, UsageMoves DEF At, UsageInv
<1>12. CASE ~(call[c].op = "subscribe" /\ pricing = "monthly")
  BY <1>1, <1>5, <1>6, <1>7, <1>8, <1>9, <1>10, <1>12, UsageMoves DEF At, UsageInv
<1> QED
  BY <1>11, <1>12

LEMMA ReadFeeKeeps == ASSUME UsageInv, NEW c \in Calls, ReadFee(c) PROVE UsageInv'
<1>1. /\ Shaped /\ Alone /\ calm \in BOOLEAN /\ calm' = calm /\ faults' = faults /\ call[c].at = "price"
      /\ UsageCarries(call[c])
      /\ IF Due(c) THEN Goto(c, "invoice") ELSE Answer(c)
      /\ UNCHANGED <<pricing, apiKeys, drawn, usageLog, logging, fees, past>>
  BY DEF ReadFee, UsageInv, apiData, Steady, At
<1>2. /\ Shaped' /\ \A d \in Calls \ {c} : call'[d] = call[d]
      /\ \/ /\ call[c].op = "subscribe" <=> pricing = "monthly"
            /\ call'[c].at = "invoice" /\ call'[c].op = call[c].op /\ call'[c].user = call[c].user
         \/ /\ ~(call[c].op = "subscribe" <=> pricing = "monthly")
            /\ call'[c] = NoCall
  <2>1. CASE Due(c)
    BY <1>1, <2>1, GotoMoves DEF Due, Is
  <2>2. CASE ~Due(c)
    BY <1>1, <2>2, AnswerMoves DEF Due, Is
  <2> QED
    BY <2>1, <2>2
<1>3. Alone'
  BY <1>1, <1>2, AloneMoves DEF At
<1>4. UsageCarries(call'[c]) /\ StillUnsold(call[c])'
  BY <1>1, <1>2, NoCallCarriesUsage DEF UsageCarries, StillUnsold, ApiLabels
<1>5. \A v \in Subscribers : /\ Bills(call[c], v) <=> Bills(call'[c], v)
                             /\ Pays(call[c], v) <=> Pays(call'[c], v)
  BY <1>1, <1>2, NoCallCarriesUsage DEF Bills, Pays
<1> QED
  BY <1>1, <1>2, <1>3, <1>4, <1>5, UsageReads

LEMMA ChargeKeeps == ASSUME UsageInv, NEW c \in Calls, Charge(c) PROVE UsageInv'
<1>0. PICK u : u = call[c].user
  OBVIOUS
<1>1. /\ Shaped /\ Alone /\ calm \in BOOLEAN /\ calm' = calm /\ faults' = faults /\ faults \in Nat
      /\ UsageCarries(call[c]) /\ UsageTyped
      /\ UNCHANGED <<pricing, apiKeys, drawn, usageLog, logging, past>>
      /\ \/ /\ call[c].at = "invoice" /\ Goto(c, "payout")
            /\ fees' = [fees EXCEPT ![u].invoices = @ + 1]
         \/ /\ call[c].at = "payout" /\ Answer(c)
            /\ fees' = [fees EXCEPT ![u].payouts = @ + 1]
  BY <1>0 DEF Charge, UsageInv, Steady, At
<1>2. u \in Subscribers /\ fees[u].invoices \in Nat /\ fees[u].payouts \in Nat
      /\ fees \in [Subscribers -> [invoices: Nat, payouts: Nat]] /\ Earned(u) \in Nat
  BY <1>0, <1>1, UsageRows DEF UsageCarries, UsageTyped
<1>3. /\ fees' \in [Subscribers -> [invoices: Nat, payouts: Nat]]
      /\ \A v \in Subscribers \ {u} : fees'[v] = fees[v]
  BY <1>1, <1>2
<1>4. UsageTyped'
  BY <1>1, <1>3 DEF UsageTyped
<1>5. \A v \in Subscribers : UsageCounted(v)'
  BY <1>1, CountsStay
<1>6. /\ Shaped' /\ \A d \in Calls \ {c} : call'[d] = call[d]
      /\ \/ /\ call[c].at = "invoice" /\ call'[c].at = "payout"
            /\ call'[c].user = u /\ call'[c].op = call[c].op
         \/ call[c].at = "payout" /\ call'[c] = NoCall
  BY <1>0, <1>1, GotoMoves, AnswerMoves
<1>7. Alone'
  BY <1>1, <1>6, AloneMoves DEF At
<1>8. UsageCarries(call'[c]) /\ StillUnsold(call[c])'
  BY <1>1, <1>2, <1>6, NoCallCarriesUsage DEF UsageCarries, StillUnsold, ApiLabels
<1>9. ASSUME NEW v \in Subscribers \ {u} PROVE Billed(v)'
  <2>1. ~Bills(call[c], v) /\ ~Bills(call'[c], v) /\ ~Pays(call[c], v) /\ ~Pays(call'[c], v)
    BY <1>0, <1>6, NoCallCarriesUsage DEF Bills, Pays
  <2> QED
    BY <1>1, <1>3, <1>6, <2>1, BillsStay
<1>10. Billed(u)'
  <2>1. Earned(u)' = Earned(u) /\ Billed(u)
    BY <1>1, <1>2 DEF Earned, UsageInv
  <2>2. CASE call[c].at = "invoice"
    <3>1. Bills(call[c], u) /\ ~Bills(call'[c], u) /\ ~Pays(call[c], u) /\ Pays(call'[c], u)
      BY <1>0, <1>1, <1>6, <2>2 DEF Bills, Pays, UsageCarries
    <3>2. BillsOf(u)' = BillsOf(u) - 1 /\ PaysOf(u)' = PaysOf(u) + 1
          /\ BillsOf(u) \in Nat /\ PaysOf(u) \in Nat
      BY <1>1, <1>2, <1>6, <3>1, BillsMove
    <3>3. fees'[u].invoices = fees[u].invoices + 1 /\ fees'[u].payouts = fees[u].payouts
      BY <1>1, <1>2, <2>2
    <3> QED
      BY <1>1, <1>2, <2>1, <3>2, <3>3 DEF Billed
  <2>3. CASE call[c].at = "payout"
    <3>1. ~Bills(call[c], u) /\ ~Bills(call'[c], u) /\ Pays(call[c], u) /\ ~Pays(call'[c], u)
      BY <1>0, <1>6, <2>3, NoCallCarriesUsage DEF Bills, Pays
    <3>2. BillsOf(u)' = BillsOf(u) /\ PaysOf(u)' = PaysOf(u) - 1
          /\ BillsOf(u) \in Nat /\ PaysOf(u) \in Nat
      BY <1>1, <1>2, <1>6, <3>1, BillsMove
    <3>3. fees'[u].invoices = fees[u].invoices /\ fees'[u].payouts = fees[u].payouts + 1
      BY <1>1, <1>2, <2>3
    <3> QED
      BY <1>1, <1>2, <2>1, <3>2, <3>3 DEF Billed
  <2> QED
    BY <1>6, <2>2, <2>3
<1>11. \A v \in Subscribers : Billed(v)'
  BY <1>9, <1>10
<1> QED
  BY <1>1, <1>4, <1>5, <1>6, <1>7, <1>8, <1>11, UsageMoves

(* The handler is between its key and the upstream: no money moves.        *)
LEMMA LimitsKeep ==
  ASSUME UsageInv, NEW c \in Calls, FindActiveKey(c) \/ Incr(c) \/ SetExpiry(c)
  PROVE  UsageInv'
<1>1. /\ Shaped /\ Alone /\ calm \in BOOLEAN /\ calm' = calm /\ faults' = faults
      /\ call[c].at \in {"key", "incr", "expire"} /\ UsageCarries(call[c])
      /\ UNCHANGED <<pricing, apiKeys, drawn, usageLog, logging, fees, past>>
  BY DEF FindActiveKey, Incr, SetExpiry, UsageInv, apiData, Steady, At
<1>2. \E r : /\ Shape(r) /\ call' = [call EXCEPT ![c] = r]
             /\ \/ r = NoCall
                \/ r.at \in {"incr", "expire", "fetch"} /\ r.op = call[c].op /\ r.user = call[c].user
  <2>1. Shape(call[c]) /\ Shape(NoCall)
    BY <1>1 DEF Shaped, Shape, NoCall, Fields
  <2>2. ASSUME NEW l \in {"incr", "fetch"}, NEW w, NEW n,
               call' = [call EXCEPT ![c].at = l, ![c].arg = w, ![c].seen = n]
        PROVE  \E r : /\ Shape(r) /\ call' = [call EXCEPT ![c] = r]
                      /\ r.at = l /\ r.op = call[c].op /\ r.user = call[c].user
    <3> DEFINE r == [call[c] EXCEPT !.at = l, !.arg = w, !.seen = n]
    <3>1. Shape(r) /\ r.at = l /\ r.op = call[c].op /\ r.user = call[c].user
      BY <2>1 DEF Shape, Fields
    <3>2. call' = [call EXCEPT ![c] = r]
      BY <1>1, <2>2 DEF Shaped
    <3> HIDE DEF r
    <3> QED
      BY <3>1, <3>2
  <2>3. ASSUME NEW n, Admit(c, n)
        PROVE  \E r : /\ Shape(r) /\ call' = [call EXCEPT ![c] = r]
                      /\ \/ r = NoCall
                         \/ /\ r.at \in {"incr", "expire", "fetch"}
                            /\ r.op = call[c].op /\ r.user = call[c].user
    <3>1. CASE Answer(c)
      BY <2>1, <3>1 DEF Answer
    <3>2. CASE ~Answer(c)
      <4>1. PICK l \in {"incr", "fetch"} :
              call' = [call EXCEPT ![c].at = l, ![c].arg = "burst", ![c].seen = Nobody]
        BY <2>3, <3>2 DEF Admit
      <4>2. PICK r : /\ Shape(r) /\ call' = [call EXCEPT ![c] = r]
                     /\ r.at = l /\ r.op = call[c].op /\ r.user = call[c].user
        BY <2>2, <4>1
      <4> QED
        BY <4>2
    <3> QED
      BY <3>1, <3>2
  <2>4. CASE FindActiveKey(c)
    <3> DEFINE r == [call[c] EXCEPT !.at = "incr", !.arg = "day"]
    <3>1. Shape(r) /\ r.at = "incr" /\ r.op = call[c].op /\ r.user = call[c].user
      BY <2>1 DEF Shape, Fields
    <3>2. call' = [call EXCEPT ![c] = r]
      BY <1>1, <2>4 DEF Shaped, FindActiveKey
    <3> HIDE DEF r
    <3> QED
      BY <3>1, <3>2
  <2>5. CASE Incr(c)
    <3>1. PICK n : \/ Note(c, "expire", n)
                   \/ Admit(c, n)
      BY <2>5 DEF Incr
    <3>2. CASE Admit(c, n)
      BY <2>3, <3>2
    <3>3. CASE Note(c, "expire", n)
      <4> DEFINE r == [call[c] EXCEPT !.at = "expire", !.seen = n]
      <4>1. Shape(r) /\ r.at = "expire" /\ r.op = call[c].op /\ r.user = call[c].user
        BY <2>1 DEF Shape, Fields
      <4>2. call' = [call EXCEPT ![c] = r]
        BY <1>1, <3>3 DEF Shaped, Note
      <4> HIDE DEF r
      <4> QED
        BY <4>1, <4>2
    <3> QED
      BY <3>1, <3>2, <3>3
  <2>6. CASE SetExpiry(c)
    BY <2>3, <2>6 DEF SetExpiry
  <2> QED
    BY <2>4, <2>5, <2>6
<1>3. PICK r : /\ Shape(r) /\ call' = [call EXCEPT ![c] = r]
               /\ \/ r = NoCall
                  \/ r.at \in {"incr", "expire", "fetch"} /\ r.op = call[c].op /\ r.user = call[c].user
  BY <1>2
<1>4. Shaped' /\ (\A d \in Calls \ {c} : call'[d] = call[d]) /\ call'[c] = r
  BY <1>1, <1>3, CallMoves
<1>5. Alone'
  BY <1>1, <1>4, AloneMoves DEF At
<1>6. UsageCarries(call'[c]) /\ StillUnsold(call[c])'
  BY <1>1, <1>3, <1>4, NoCallCarriesUsage DEF UsageCarries, StillUnsold, ApiLabels
<1>7. \A v \in Subscribers : /\ Bills(call[c], v) <=> Bills(call'[c], v)
                             /\ Pays(call[c], v) <=> Pays(call'[c], v)
  BY <1>1, <1>3, <1>4, NoCallCarriesUsage DEF Bills, Pays
<1> QED
  BY <1>1, <1>4, <1>5, <1>6, <1>7, UsageReads

(* One more row and one more count under way for a subscriber.             *)
LEMMA LoggedMoves ==
  ASSUME UsageTyped, NEW u \in Subscribers, logging' = Logged(u)
  PROVE  /\ logging' \in [Subscribers -> [LogWrites -> Nat]]
         /\ logging'[u]["usage"] = logging[u]["usage"] + 1
         /\ logging'[u]["key"] = logging[u]["key"] + 1
         /\ \A v \in Subscribers \ {u} : logging'[v] = logging[v]
  BY DEF UsageTyped, Logged, LogWrites

LEMMA FetchKeeps == ASSUME UsageInv, NEW c \in Calls, Fetch(c) PROVE UsageInv'
<1>0. PICK u : u = call[c].user
  OBVIOUS
<1>1. PICK ok \in BOOLEAN :
        /\ IF ok THEN Goto(c, "price") ELSE Answer(c)
        /\ past' = [past EXCEPT ![u].proxied = @ + 1, ![u].ok = IF ok THEN @ + 1 ELSE @]
  BY <1>0 DEF Fetch
<1>2. /\ Shaped /\ Alone /\ calm \in BOOLEAN /\ calm' = calm /\ faults' = faults /\ faults \in Nat
      /\ call[c].at = "fetch" /\ UsageCarries(call[c]) /\ UsageTyped
      /\ logging' = Logged(u)
      /\ UNCHANGED <<pricing, apiKeys, drawn, usageLog, fees>>
  BY <1>0 DEF Fetch, UsageInv, Steady, At
<1>3. u \in Subscribers /\ past[u] \in Past
  BY <1>0, <1>2 DEF UsageCarries, UsageTyped
<1>4. /\ past' \in [Subscribers -> Past]
      /\ past'[u].proxied = past[u].proxied + 1 /\ past'[u].begun = past[u].begun
      /\ past'[u].ok = IF ok THEN past[u].ok + 1 ELSE past[u].ok
      /\ \A v \in Subscribers \ {u} : past'[v] = past[v]
  <2> DEFINE n == IF ok THEN past[u].ok + 1 ELSE past[u].ok
             k == [past[u] EXCEPT !.proxied = past[u].proxied + 1, !.ok = n]
  <2>1. past \in [Subscribers -> Past] /\ n \in Nat /\ past[u].proxied + 1 \in Nat
    BY <1>2, <1>3 DEF UsageTyped, Past
  <2>2. past' = [past EXCEPT ![u] = k]
    BY <1>1, <1>3, <2>1
  <2> HIDE DEF n
  <2>3. k \in Past /\ k.proxied = past[u].proxied + 1 /\ k.begun = past[u].begun /\ k.ok = n
    BY <1>3, <2>1 DEF Past
  <2> HIDE DEF k
  <2>4. past' \in [Subscribers -> Past] /\ past'[u] = k /\ \A v \in Subscribers \ {u} : past'[v] = past[v]
    BY <1>3, <2>1, <2>2, <2>3
  <2> QED
    BY <2>3, <2>4 DEF n
<1>5. /\ logging' \in [Subscribers -> [LogWrites -> Nat]]
      /\ logging'[u]["usage"] = logging[u]["usage"] + 1
      /\ logging'[u]["key"] = logging[u]["key"] + 1
      /\ \A v \in Subscribers \ {u} : logging'[v] = logging[v]
  BY <1>2, <1>3, LoggedMoves
<1>6. UsageTyped'
  BY <1>2, <1>4, <1>5 DEF UsageTyped
<1>7. /\ Shaped' /\ \A d \in Calls \ {c} : call'[d] = call[d]
      /\ \/ ok /\ call'[c].at = "price" /\ call'[c].op = call[c].op /\ call'[c].user = u
         \/ ~ok /\ call'[c] = NoCall
  BY <1>0, <1>1, <1>2, GotoMoves, AnswerMoves
<1>8. Alone'
  BY <1>2, <1>7, AloneMoves DEF At
<1>9. UsageCarries(call'[c]) /\ StillUnsold(call[c])'
  BY <1>2, <1>3, <1>7, NoCallCarriesUsage DEF UsageCarries, StillUnsold, ApiLabels
<1>10. ASSUME NEW v \in Subscribers PROVE UsageCounted(v)'
  <2>1. CASE v = u
    <3>0. usageLog' = usageLog /\ apiKeys' = apiKeys /\ faults' = faults /\ faults \in Nat
      BY <1>2
    <3>1. UsageCounted(u) /\ usageLog[u] \in Nat /\ logging[u]["usage"] \in Nat
          /\ past[u].proxied \in Nat /\ apiKeys[u].calls \in Nat /\ logging[u]["key"] \in Nat
      BY <1>2, <1>3, UsageRows DEF UsageInv
    <3>2. /\ past'[u].proxied = past[u].proxied + 1
          /\ logging'[u]["usage"] = logging[u]["usage"] + 1
          /\ logging'[u]["key"] = logging[u]["key"] + 1
      BY <1>4, <1>5
    <3>3. usageLog'[u] + logging'[u]["usage"] <= past'[u].proxied + faults'
      BY <3>0, <3>1, <3>2 DEF UsageCounted
    <3>4. faults' = 0 => /\ usageLog'[u] + logging'[u]["usage"] = past'[u].proxied
                         /\ apiKeys'[u].calls + logging'[u]["key"] = past'[u].proxied
      BY <3>0, <3>1, <3>2 DEF UsageCounted
    <3> QED
      BY <2>1, <3>3, <3>4 DEF UsageCounted
  <2>2. CASE v # u
    <3>1. past'[v] = past[v] /\ logging'[v] = logging[v]
      BY <1>4, <1>5, <2>2
    <3> QED
      BY <1>2, <3>1, CountsStay
  <2> QED
    BY <2>1, <2>2
<1>11. ASSUME NEW v \in Subscribers PROVE Billed(v)'
  <2>0. ~Bills(call[c], v) /\ ~Pays(call[c], v) /\ ~Pays(call'[c], v)
    BY <1>2, <1>7, NoCallCarriesUsage DEF Bills, Pays
  <2>1. CASE v = u /\ ok /\ pricing = "per_call"
    <3>1. Bills(call'[c], v)
      BY <1>2, <1>7, <2>1 DEF Bills, UsageCarries
    <3>2. BillsOf(v)' = BillsOf(v) + 1 /\ PaysOf(v)' = PaysOf(v)
          /\ BillsOf(v) \in Nat /\ PaysOf(v) \in Nat
      BY <1>2, <1>7, <2>0, <3>1, BillsMove
    <3>3. Earned(v)' = Earned(v) + 1 /\ Earned(v) \in Nat /\ fees[v].invoices \in Nat
          /\ fees'[v] = fees[v] /\ Billed(v)
      BY <1>2, <1>4, <2>1, UsageRows DEF Earned, UsageInv
    <3> QED
      BY <1>2, <3>2, <3>3 DEF Billed
  <2>2. CASE ~(v = u /\ ok /\ pricing = "per_call")
    <3>1. ~Bills(call'[c], v)
      BY <1>2, <1>7, <2>2, NoCallCarriesUsage DEF Bills, UsageCarries, UsageTyped
    <3>2. Earned(v)' = Earned(v) /\ Billed(v) /\ fees'[v] = fees[v]
      <4>1. CASE v = u
        BY <1>2, <1>4, <2>2, <4>1 DEF Earned, UsageInv, UsageTyped
      <4>2. CASE v # u
        BY <1>2, <1>4, <4>2 DEF Earned, UsageInv
      <4> QED
        BY <4>1, <4>2
    <3>3. BillsOf(v)' = BillsOf(v) /\ PaysOf(v)' = PaysOf(v)
      BY <1>2, <1>7, <2>0, <3>1, BillsMove
    <3> QED
      BY <1>2, <3>2, <3>3 DEF Billed
  <2> QED
    BY <2>1, <2>2
<1>12. calm' => calm /\ \A v \in Subscribers : apiKeys'[v].active = apiKeys[v].active
  BY <1>2
<1> QED
  BY <1>2, <1>6, <1>7, <1>8, <1>9, <1>10, <1>11, <1>12, UsageMoves

(* A charge that fails: the call is logged once more.                      *)
LEMMA FailChargeKeeps == ASSUME UsageInv, NEW c \in Calls, FailCharge(c) PROVE UsageInv'
<1>0. PICK u : u = call[c].user
  OBVIOUS
<1>1. /\ Shaped /\ Alone /\ calm \in BOOLEAN /\ calm' = calm /\ faults' = faults + 1 /\ faults \in Nat
      /\ call[c].at \in {"price", "invoice", "payout"} /\ UsageCarries(call[c]) /\ UsageTyped
      /\ logging' = Logged(u) /\ Answer(c)
      /\ UNCHANGED <<pricing, apiKeys, drawn, usageLog, fees, past>>
  BY <1>0 DEF FailCharge, Break, UsageInv, At
<1>2. u \in Subscribers
  BY <1>0, <1>1 DEF UsageCarries
<1>3. /\ logging' \in [Subscribers -> [LogWrites -> Nat]]
      /\ logging'[u]["usage"] = logging[u]["usage"] + 1
      /\ \A v \in Subscribers \ {u} : logging'[v] = logging[v]
  BY <1>1, <1>2, LoggedMoves
<1>4. UsageTyped'
  BY <1>1, <1>3 DEF UsageTyped
<1>5. Shaped' /\ (\A d \in Calls \ {c} : call'[d] = call[d]) /\ call'[c] = NoCall
  BY <1>1, AnswerMoves
<1>6. Alone'
  BY <1>1, <1>5, AloneMoves DEF At
<1>7. UsageCarries(call'[c]) /\ StillUnsold(call[c])' /\ pricing' = pricing
  BY <1>1, <1>5, NoCallCarriesUsage DEF UsageCarries, StillUnsold
<1>8. ASSUME NEW v \in Subscribers PROVE UsageCounted(v)'
  <2>1. CASE v = u
    <3>1. UsageCounted(u) /\ usageLog[u] \in Nat /\ logging[u]["usage"] \in Nat /\ past[u].proxied \in Nat
      BY <1>1, <1>2, UsageRows DEF UsageInv
    <3> QED
      BY <1>1, <1>3, <2>1, <3>1 DEF UsageCounted
  <2>2. CASE v # u
    BY <1>1, <1>3, <2>2, CountsStay
  <2> QED
    BY <2>1, <2>2
<1>9. ASSUME NEW v \in Subscribers PROVE Billed(v)'
  <2>1. ~Bills(call'[c], v) /\ ~Pays(call'[c], v)
    BY <1>5, NoCallCarriesUsage DEF Bills, Pays
  <2> QED
    BY <1>1, <1>5, <2>1, BillsStay
<1> QED
  BY <1>1, <1>4, <1>5, <1>6, <1>7, <1>8, <1>9, UsageMoves

LEMMA StopKeeps ==
  ASSUME UsageInv, NEW c \in Calls, RefuseApi(c) \/ BreakApi(c)
  PROVE  UsageInv'
<1>1. /\ Shaped /\ Alone /\ calm \in BOOLEAN /\ calm' = calm
      /\ call[c].at # "idle" /\ Answer(c)
      /\ UNCHANGED <<pricing, apiKeys, drawn, usageLog, logging, fees, past>>
      /\ \/ faults' = faults + 1
         \/ faults' = faults /\ call[c].at \in {"find", "issue", "key"}
  BY DEF RefuseApi, BreakApi, Break, UsageInv, apiData, Steady, At
<1>2. Shaped' /\ (\A d \in Calls \ {c} : call'[d] = call[d]) /\ call'[c] = NoCall
  BY <1>1, AnswerMoves
<1>3. Alone'
  BY <1>1, <1>2, AloneMoves DEF At
<1>4. UsageCarries(call'[c]) /\ StillUnsold(call[c])'
  BY <1>1, <1>2, NoCallCarriesUsage DEF UsageCarries, StillUnsold
<1>5. faults' = faults => \A v \in Subscribers : /\ Bills(call[c], v) <=> Bills(call'[c], v)
                                                 /\ Pays(call[c], v) <=> Pays(call'[c], v)
  <2>1. ASSUME faults' = faults PROVE call[c].at \in {"find", "issue", "key"}
    BY <1>1, <2>1 DEF UsageInv
  <2> QED
    BY <1>2, <2>1, NoCallCarriesUsage DEF Bills, Pays
<1> QED
  BY <1>1, <1>2, <1>3, <1>4, <1>5, UsageReads

(* The steps of no handler: the calls stay, and so do the bills.           *)
LEMMA NoCallMoves ==
  ASSUME UsageInv, UNCHANGED <<call, calm, pricing, fees, past>>, faults' \in {faults, faults + 1},
         UsageTyped', \A u \in Subscribers : apiKeys'[u].active = apiKeys[u].active,
         \A u \in Subscribers : UsageCounted(u)'
  PROVE  UsageInv'
<1>1. Shaped' /\ Alone' /\ faults' \in Nat /\ \A c \in Calls : UsageCarries(call[c])'
  BY DEF UsageInv, Shaped, Alone, At, UsageCarries
<1>2. ASSUME calm', NEW c \in Calls PROVE StillUnsold(call[c])'
  BY <1>2 DEF UsageInv, StillUnsold, UsageCarries
<1>3. ASSUME NEW u \in Subscribers PROVE Billed(u)'
  <2>1. BillsOf(u)' = BillsOf(u) /\ PaysOf(u)' = PaysOf(u) /\ Earned(u)' = Earned(u)
    BY DEF BillsOf, PaysOf, Bills, Pays, Earned
  <2>2. Billed(u) /\ (faults' = 0 => faults = 0)
    BY DEF UsageInv
  <2> QED
    BY <2>1, <2>2 DEF Billed
<1> QED
  BY <1>1, <1>2, <1>3 DEF UsageInv

LEMMA LogKeeps ==
  ASSUME UsageInv, NEW u \in Subscribers, NEW w \in LogWrites, Log(u, w)
  PROVE  UsageInv'
<1>1. /\ UsageTyped /\ faults \in Nat /\ faults' = faults /\ logging[u][w] > 0
      /\ logging' = [logging EXCEPT ![u][w] = @ - 1]
      /\ usageLog' = [usageLog EXCEPT ![u] = IF w = "usage" THEN @ + 1 ELSE @]
      /\ apiKeys' = [apiKeys EXCEPT ![u].calls = IF w = "key" THEN @ + 1 ELSE @]
      /\ UNCHANGED <<call, calm, pricing, fees, past, drawn>>
  BY DEF Log, UsageInv, handlerVars
<1>2. /\ logging[u] \in [LogWrites -> Nat] /\ apiKeys[u] \in KeyRow /\ usageLog[u] \in Nat
      /\ past[u].proxied \in Nat
  BY <1>1, UsageRows DEF UsageTyped
<1>3. /\ logging' \in [Subscribers -> [LogWrites -> Nat]]
      /\ logging'[u][w] = logging[u][w] - 1
      /\ \A x \in LogWrites \ {w} : logging'[u][x] = logging[u][x]
      /\ \A v \in Subscribers \ {u} : logging'[v] = logging[v]
  BY <1>1, <1>2 DEF UsageTyped
<1>4. /\ apiKeys' \in [Subscribers -> KeyRow]
      /\ \A v \in Subscribers : apiKeys'[v].active = apiKeys[v].active
      /\ apiKeys'[u].calls = IF w = "key" THEN apiKeys[u].calls + 1 ELSE apiKeys[u].calls
      /\ \A v \in Subscribers \ {u} : apiKeys'[v] = apiKeys[v]
  <2> DEFINE n == IF w = "key" THEN apiKeys[u].calls + 1 ELSE apiKeys[u].calls
             k == [apiKeys[u] EXCEPT !.calls = n]
  <2>1. apiKeys \in [Subscribers -> KeyRow] /\ n \in Nat
    BY <1>1, <1>2 DEF UsageTyped, KeyRow
  <2>2. apiKeys' = [apiKeys EXCEPT ![u] = k]
    BY <1>1, <2>1
  <2> HIDE DEF n
  <2>3. k \in KeyRow /\ k.active = apiKeys[u].active /\ k.calls = n
    BY <1>2, <2>1 DEF KeyRow
  <2> HIDE DEF k
  <2>4. /\ apiKeys' \in [Subscribers -> KeyRow] /\ apiKeys'[u] = k
        /\ \A v \in Subscribers \ {u} : apiKeys'[v] = apiKeys[v]
    BY <2>1, <2>2, <2>3
  <2>5. \A v \in Subscribers : apiKeys'[v].active = apiKeys[v].active
    BY <2>3, <2>4
  <2> QED
    BY <2>3, <2>4, <2>5 DEF n
<1>5. /\ usageLog' \in [Subscribers -> Nat]
      /\ usageLog'[u] = IF w = "usage" THEN usageLog[u] + 1 ELSE usageLog[u]
      /\ \A v \in Subscribers \ {u} : usageLog'[v] = usageLog[v]
  BY <1>1, <1>2 DEF UsageTyped
<1>6. UsageTyped'
  BY <1>1, <1>3, <1>4, <1>5 DEF UsageTyped
<1>7. UsageCounted(u)'
  <2>1. UsageCounted(u) /\ logging[u]["usage"] \in Nat /\ logging[u]["key"] \in Nat /\ apiKeys[u].calls \in Nat
    BY <1>1, UsageRows DEF UsageInv
  <2>2. CASE w = "usage"
    <3>1. /\ logging'[u]["usage"] = logging[u]["usage"] - 1 /\ logging'[u]["key"] = logging[u]["key"]
          /\ usageLog'[u] = usageLog[u] + 1 /\ apiKeys'[u].calls = apiKeys[u].calls
      BY <1>3, <1>4, <1>5, <2>2 DEF LogWrites
    <3> QED
      BY <1>1, <1>2, <2>1, <3>1 DEF UsageCounted
  <2>3. CASE w = "key"
    <3>1. /\ logging'[u]["key"] = logging[u]["key"] - 1 /\ logging'[u]["usage"] = logging[u]["usage"]
          /\ usageLog'[u] = usageLog[u] /\ apiKeys'[u].calls = apiKeys[u].calls + 1
      BY <1>3, <1>4, <1>5, <2>3 DEF LogWrites
    <3> QED
      BY <1>1, <1>2, <2>1, <3>1 DEF UsageCounted
  <2> QED
    BY <2>2, <2>3 DEF LogWrites
<1>8. \A v \in Subscribers : UsageCounted(v)'
  BY <1>1, <1>3, <1>4, <1>5, <1>7, CountsStay
<1> QED
  BY <1>1, <1>4, <1>6, <1>8, NoCallMoves

LEMMA LoseLogKeeps ==
  ASSUME UsageInv, NEW u \in Subscribers, NEW w \in LogWrites, LoseLog(u, w)
  PROVE  UsageInv'
<1>1. /\ UsageTyped /\ faults \in Nat /\ faults' = faults + 1 /\ logging[u][w] > 0
      /\ logging' = [logging EXCEPT ![u][w] = @ - 1]
      /\ UNCHANGED <<call, calm, pricing, apiKeys, drawn, usageLog, fees, past>>
  BY DEF LoseLog, UsageInv
<1>2. /\ logging[u] \in [LogWrites -> Nat] /\ usageLog[u] \in Nat /\ past[u].proxied \in Nat
  BY <1>1, UsageRows DEF UsageTyped
<1>3. /\ logging' \in [Subscribers -> [LogWrites -> Nat]]
      /\ logging'[u]["usage"] <= logging[u]["usage"]
      /\ logging'[u]["usage"] \in Nat /\ logging[u]["usage"] \in Nat
      /\ \A v \in Subscribers \ {u} : logging'[v] = logging[v]
  BY <1>1, <1>2 DEF UsageTyped, LogWrites
<1>4. UsageTyped'
  BY <1>1, <1>3 DEF UsageTyped
<1>5. UsageCounted(u)'
  <2>1. UsageCounted(u)
    BY DEF UsageInv
  <2> QED
    BY <1>1, <1>2, <1>3, <2>1 DEF UsageCounted
<1>6. \A v \in Subscribers : UsageCounted(v)'
  BY <1>1, <1>3, <1>5, CountsStay
<1> QED
  BY <1>1, <1>4, <1>6, NoCallMoves

-----------------------------------------------------------------------------
LEMMA UsageInitOK == ApiInit => UsageInv
<1> SUFFICES ASSUME ApiInit PROVE UsageInv
  OBVIOUS
<1>1. /\ Shaped /\ (\A c \in Calls : call[c] = NoCall) /\ faults = 0 /\ calm \in BOOLEAN /\ Alone
  BY ShapedAtFirst, AloneAtFirst DEF ApiInit, HandlersInit
<1>2. PICK already \in SUBSET Subscribers : \E rank \in [already -> 1 .. Cardinality(already)] :
        /\ drawn = Cardinality(already)
        /\ apiKeys = [u \in Subscribers |->
             IF u \in already
             THEN [NoKey EXCEPT !.made = TRUE, !.active = TRUE, !.key = rank[u]] ELSE NoKey]
  BY DEF ApiInit
<1>3. PICK rank \in [already -> 1 .. Cardinality(already)] :
        /\ drawn = Cardinality(already)
        /\ apiKeys = [u \in Subscribers |->
             IF u \in already
             THEN [NoKey EXCEPT !.made = TRUE, !.active = TRUE, !.key = rank[u]] ELSE NoKey]
  BY <1>2
<1>4. drawn \in Nat
  BY <1>3, FS_Subset, FS_CardinalityType
<1>5. apiKeys \in [Subscribers -> KeyRow] /\ \A u \in Subscribers : apiKeys[u].calls = 0
  <2>1. ASSUME NEW n \in Nat
        PROVE  [NoKey EXCEPT !.made = TRUE, !.active = TRUE, !.key = n] \in KeyRow
               /\ [NoKey EXCEPT !.made = TRUE, !.active = TRUE, !.key = n].calls = 0
    BY DEF NoKey, KeyRow
  <2>2. NoKey \in KeyRow /\ NoKey.calls = 0
    BY DEF NoKey, KeyRow
  <2>3. ASSUME NEW u \in already PROVE rank[u] \in Nat
    <3>1. rank[u] \in 1 .. Cardinality(already) /\ Cardinality(already) \in Nat
      BY <1>3, <1>4
    <3> QED
      BY <3>1
  <2>4. ASSUME NEW u \in Subscribers PROVE apiKeys[u] \in KeyRow /\ apiKeys[u].calls = 0
    <3>1. CASE u \in already
      <4>1. apiKeys[u] = [NoKey EXCEPT !.made = TRUE, !.active = TRUE, !.key = rank[u]]
        BY <1>3, <3>1
      <4> QED
        BY <2>1, <2>3, <3>1, <4>1
    <3>2. CASE u \notin already
      <4>1. apiKeys[u] = NoKey
        BY <1>3, <3>2
      <4> QED
        BY <2>2, <4>1
    <3> QED
      BY <3>1, <3>2
  <2>5. apiKeys = [u \in Subscribers |-> apiKeys[u]]
    BY <1>3
  <2> QED
    BY <2>4, <2>5
<1>6. UsageTyped
  <2>1. /\ pricing \in {"monthly", "per_call"} /\ usageLog \in [Subscribers -> Nat]
        /\ logging \in [Subscribers -> [LogWrites -> Nat]]
        /\ fees \in [Subscribers -> [invoices: Nat, payouts: Nat]]
    BY DEF ApiInit
  <2>2. past \in [Subscribers -> Past]
    BY DEF ApiInit, Past, NoPast
  <2> QED
    BY <1>4, <1>5, <2>1, <2>2 DEF UsageTyped
<1>7. ASSUME NEW u \in Subscribers PROVE UsageCounted(u)
  <2>1. usageLog[u] = 0 /\ past[u] = NoPast /\ logging[u] = [w \in LogWrites |-> 0]
    BY DEF ApiInit
  <2>2. logging[u]["usage"] = 0 /\ logging[u]["key"] = 0 /\ past[u].proxied = 0
    BY <2>1 DEF LogWrites, NoPast
  <2> QED
    BY <1>1, <1>5, <2>1, <2>2 DEF UsageCounted
<1>8. ASSUME NEW u \in Subscribers PROVE Billed(u)
  <2>1. {c \in Calls : Bills(call[c], u)} = {} /\ {c \in Calls : Pays(call[c], u)} = {}
    BY <1>1, NoCallCarriesUsage DEF Bills, Pays
  <2>2. BillsOf(u) = 0 /\ PaysOf(u) = 0
    BY <2>1, FS_EmptySet DEF BillsOf, PaysOf
  <2>3. fees[u].invoices = 0 /\ fees[u].payouts = 0 /\ Earned(u) = 0
    BY DEF ApiInit, Earned, NoPast
  <2> QED
    BY <2>2, <2>3 DEF Billed
<1>9. \A c \in Calls : UsageCarries(call[c]) /\ StillUnsold(call[c])
  BY <1>1, NoCallCarriesUsage DEF StillUnsold
<1> QED
  BY <1>1, <1>6, <1>7, <1>8, <1>9 DEF UsageInv

LEMMA UsageStep == UsageInv /\ [ApiNext]_apiVars => UsageInv'
<1> SUFFICES ASSUME UsageInv, [ApiNext]_apiVars PROVE UsageInv'
  OBVIOUS
<1>1. ASSUME UNCHANGED <<call, calm, faults, pricing, apiKeys, drawn, usageLog, logging, fees, past>>
      PROVE  UsageInv'
  <2>1. UsageTyped' /\ \A u \in Subscribers : UsageCounted(u)'
    BY <1>1 DEF UsageInv, UsageTyped, UsageCounted
  <2> QED
    BY <1>1, <2>1, NoCallMoves
<1>2. CASE UNCHANGED apiVars
  BY <1>1, <1>2 DEF apiVars, apiData, handlerVars
<1>3. ASSUME NEW u \in Subscribers, NEW w \in Windows, ExpireCounter(u, w) PROVE UsageInv'
  BY <1>1, <1>3 DEF ExpireCounter, handlerVars
<1> QED
  BY <1>2, <1>3, ServeKeepsUsage, FindKeyKeeps, WriteKeyKeeps, ReadFeeKeeps, ChargeKeeps, LimitsKeep,
     FetchKeeps, FailChargeKeeps, StopKeeps, LogKeeps, LoseLogKeeps DEF ApiNext

(* Whatever calls of the proxy, of subscribe and of the key routes overlap *)
(* and fail: no call is logged more often than it was made and a failure   *)
(* allows, nothing is billed that did not happen; and once a faultless     *)
(* system rests, every call is logged and counted and every success or     *)
(* month is billed and paid out.                                           *)
THEOREM CallsAreAccounted == ApiSpec => []UsageIsAccounted
<1>1. UsageInv => UsageIsAccounted
  <2> SUFFICES ASSUME UsageInv PROVE UsageIsAccounted
    OBVIOUS
  <2>1. \A u \in Subscribers : {c \in Calls : Bills(call[c], u)} \in SUBSET Calls
                               /\ {c \in Calls : Pays(call[c], u)} \in SUBSET Calls
    OBVIOUS
  <2>2. \A u \in Subscribers : BillsOf(u) \in Nat /\ PaysOf(u) \in Nat
    BY <2>1, CallsFinite, FS_Subset, FS_CardinalityType DEF BillsOf, PaysOf
  <2>3. ASSUME NEW u \in Subscribers
        PROVE  /\ fees[u].payouts <= fees[u].invoices
               /\ pricing = "per_call" => fees[u].invoices <= past[u].ok
               /\ usageLog[u] <= past[u].proxied + faults
    <3>1. Billed(u) /\ UsageCounted(u) /\ faults \in Nat /\ UsageTyped
      BY DEF UsageInv
    <3>2. /\ fees[u].invoices \in Nat /\ fees[u].payouts \in Nat
          /\ past[u].proxied \in Nat /\ past[u].ok \in Nat /\ usageLog[u] \in Nat
          /\ logging[u]["usage"] \in Nat
      BY <3>1, UsageRows
    <3> QED
      BY <2>2, <3>1, <3>2 DEF Billed, UsageCounted, Earned
  <2>4. ASSUME Quiet, faults = 0, NEW u \in Subscribers, \A w \in LogWrites : logging[u][w] = 0
        PROVE  /\ usageLog[u] = past[u].proxied /\ apiKeys[u].calls = past[u].proxied
               /\ fees[u].payouts = fees[u].invoices
               /\ fees[u].invoices >= IF pricing = "monthly" THEN past[u].begun ELSE past[u].ok
               /\ calm /\ pricing = "monthly" => fees[u].invoices = past[u].begun
    <3>1. Billed(u) /\ UsageCounted(u) /\ UsageTyped
      BY DEF UsageInv
    <3>2. /\ fees[u].invoices \in Nat /\ fees[u].payouts \in Nat /\ past[u].begun \in Nat
          /\ past[u].proxied \in Nat /\ past[u].ok \in Nat /\ usageLog[u] \in Nat
          /\ apiKeys[u].calls \in Nat /\ Earned(u) \in Nat
      BY <3>1, UsageRows
    <3>3. logging[u]["usage"] = 0 /\ logging[u]["key"] = 0
      BY <2>4 DEF LogWrites
    <3>4. {c \in Calls : Bills(call[c], u)} = {} /\ {c \in Calls : Pays(call[c], u)} = {}
      BY <2>4 DEF Quiet, At, Bills, Pays
    <3>5. BillsOf(u) = 0 /\ PaysOf(u) = 0
      BY <3>4, FS_EmptySet DEF BillsOf, PaysOf
    <3>6. usageLog[u] = past[u].proxied /\ apiKeys[u].calls = past[u].proxied
      BY <2>4, <3>1, <3>2, <3>3 DEF UsageCounted
    <3>7. fees[u].payouts = fees[u].invoices /\ Earned(u) <= fees[u].invoices
          /\ (calm => fees[u].invoices <= Earned(u))
      BY <2>4, <3>1, <3>2, <3>5 DEF Billed
    <3> QED
      BY <3>2, <3>6, <3>7 DEF Earned
  <2> QED
    BY <2>3, <2>4 DEF UsageIsAccounted
<1> QED
  BY <1>1, UsageInitOK, UsageStep, PTL DEF ApiSpec

(* The products, keys, counters and log rows keep their types: no counter  *)
(* goes below zero, and no handler is at an await that is not in the code. *)
THEOREM ApiIsTyped == ApiSpec => []ApiTypeOK
<1>1. UsageInv /\ CounterInv => ApiTypeOK
  BY DEF UsageInv, UsageTyped, UsageCarries, CounterInv, CounterType, ApiTypeOK
<1> QED
  BY <1>1, UsageInitOK, UsageStep, CounterInitOK, CounterStep, PTL DEF ApiSpec

-----------------------------------------------------------------------------
(* Plans: their credits and invoices, and the agents they allow.           *)

Changes == {"DRAFT", "ACTIVE", "archive", "hardDelete"}

(* What a handler carries: the plan it subscribes to and the day it read,  *)
(* whether the agent it creates is a team's, and the quota it read, or the *)
(* agent it changes.                                                       *)
PlanCarries(r) ==
  /\ r.at \in PlanLabels
  /\ r.at \in {"plans", "upsert", "grant", "invoice"} => r.arg \in Plans
  /\ r.at = "upsert" => r.seen \in Nat
  /\ r.at \in {"quota", "tally"} => r.arg = FALSE
  /\ r.at = "insert" => r.arg \in BOOLEAN
  /\ r.at \in {"agent", "write"} => r.arg \in AgentIds /\ r.op \in Changes

Owes(r, p) == r.at \in {"grant", "invoice"} /\ r.arg = p

(* A subscription is taken up by who did not hold it; its credits and its  *)
(* invoice are still due, one after the other.                             *)
Subscribes(r) ==
  /\ r.at = "upsert" => ~Holds(r.arg)
  /\ r.at = "grant" => granted[r.arg] + 1 <= begun[r.arg]
  /\ faults = 0 /\ r.at \in {"grant", "invoice"} /\ r.arg # FreePlan =>
       /\ billed[r.arg] + 1 = begun[r.arg]
       /\ r.at = "grant" => granted[r.arg] + 1 = begun[r.arg]
       /\ r.at = "invoice" /\ Credits[r.arg] > 0 => granted[r.arg] = begun[r.arg]

(* A plan whose subscription nobody is writing is granted and billed as    *)
(* often as it was taken up.                                               *)
PlanSettled(p) == billed[p] = begun[p] /\ (Credits[p] > 0 => granted[p] = begun[p])

PlansBacked ==
  /\ \A p \in Plans : granted[p] <= begun[p]
  /\ \A c \in Calls : Subscribes(call[c])
  /\ faults = 0 => \A p \in Plans \ {FreePlan} : (\A c \in Calls : ~Owes(call[c], p)) => PlanSettled(p)

(* The quota a handler read is that of the plan, and there is room for the *)
(* agent it is about to create.                                            *)
Fits(r) ==
  /\ r.at = "tally" => r.seen = MaxAgents[EffectivePlan]
  /\ r.at = "insert" /\ r.arg = FALSE => Cardinality(Live) < MaxAgents[EffectivePlan]

QuotaKept ==
  Cardinality(Live) <= MaxAgents[EffectivePlan] /\ \A c \in Calls : Fits(call[c])

PlanInv ==
  /\ Shaped /\ Alone /\ calm \in BOOLEAN /\ faults \in Nat /\ PlanTypeOK
  /\ \A c \in Calls : PlanCarries(call[c])
  /\ calm => PlansBacked
  /\ calm /\ ~exempt => QuotaKept

LEMMA NoCallCarriesPlan == PlanCarries(NoCall) /\ Subscribes(NoCall) /\ Fits(NoCall) /\ NoCall.at = "idle"
  BY DEF NoCall, PlanCarries, Subscribes, Fits, PlanLabels

LEMMA IdleFits ==
  ASSUME NEW r, r.at = "idle"
  PROVE  Subscribes(r) /\ Fits(r) /\ \A p : ~Owes(r, p)
  BY DEF Subscribes, Fits, Owes

LEMMA LiveFinite == IsFiniteSet(Live) /\ Cardinality(Live) \in Nat
<1>1. IsFiniteSet(Live)
  BY FS_Subset DEF Live
<1> QED
  BY <1>1, FS_CardinalityType

(* A step of a handler: what it has to establish.  While calls do not      *)
(* overlap no other handler carries anything.                              *)
LEMMA PlanMoves ==
  ASSUME PlanInv, NEW c \in Calls, ~At(c, "idle"), Shaped', \A d \in Calls \ {c} : call'[d] = call[d],
         UNCHANGED calm, faults' \in Nat, PlanCarries(call'[c]),
         plan' \in [made: BOOLEAN, id: Plans, end: Nat, cancel: BOOLEAN],
         day' \in 0 .. MaxDays, exempt' \in BOOLEAN,
         granted' \in [Plans -> Nat], billed' \in [Plans -> Nat], begun' \in [Plans -> Nat],
         agents' \in [AgentIds -> AgentRow],
         calm => /\ \A p \in Plans : granted'[p] <= begun'[p]
                 /\ Subscribes(call[c])'
                 /\ faults' = 0 => \A p \in Plans \ {FreePlan} : ~Owes(call[c], p)' => PlanSettled(p)',
         calm /\ ~exempt' => Cardinality(Live') <= MaxAgents[EffectivePlan'] /\ Fits(call[c])'
  PROVE  PlanInv'
<1>1. \A d \in Calls : PlanCarries(call'[d])
  BY DEF PlanInv
<1>2. Alone'
  BY AloneMoves DEF PlanInv
<1>3. ASSUME calm, NEW d \in Calls \ {c}
      PROVE  Subscribes(call[d])' /\ Fits(call[d])'
  <2>1. call'[d].at = "idle"
    BY <1>3 DEF PlanInv, Alone, At
  <2> QED
    BY <2>1 DEF Subscribes, Fits
<1>4. calm' => PlansBacked'
  BY <1>3 DEF PlansBacked
<1>5. calm' /\ ~exempt' => QuotaKept'
  BY <1>3 DEF QuotaKept
<1>6. PlanTypeOK'
  BY <1>1 DEF PlanTypeOK, PlanCarries
<1> QED
  BY <1>1, <1>2, <1>4, <1>5, <1>6 DEF PlanInv

(* What holds of the only handler there is.                                *)
LEMMA OnlyOne ==
  ASSUME PlanInv, NEW c \in Calls, ~At(c, "idle"), calm
  PROVE  /\ \A p \in Plans : granted[p] <= begun[p]
         /\ Subscribes(call[c])
         /\ faults = 0 => \A p \in Plans \ {FreePlan} : ~Owes(call[c], p) => PlanSettled(p)
         /\ ~exempt => QuotaKept /\ Fits(call[c])
<1>1. \A d \in Calls \ {c} : call[d].at = "idle"
  BY DEF PlanInv, Alone, At
<1>2. \A d \in Calls \ {c}, p \in Plans : ~Owes(call[d], p)
  BY <1>1 DEF Owes
<1> QED
  BY <1>2 DEF PlanInv, PlansBacked, QuotaKept

(* A handler that moves, and leaves the rows alone.                        *)
LEMMA PlanReads ==
  ASSUME PlanInv, NEW c \in Calls, ~At(c, "idle"), Shaped', \A d \in Calls \ {c} : call'[d] = call[d],
         UNCHANGED <<planData, calm>>, faults' = faults \/ faults' = faults + 1, PlanCarries(call'[c]),
         calm => Subscribes(call'[c]),
         calm /\ ~exempt => Fits(call'[c]),
         call[c].at \notin {"grant", "invoice"} \/ faults' = faults + 1,
         call'[c].at \notin {"grant", "invoice"}
  PROVE  PlanInv'
<1>1. /\ plan' = plan /\ day' = day /\ exempt' = exempt /\ granted' = granted /\ billed' = billed
      /\ begun' = begun /\ agents' = agents /\ calm' = calm
      /\ PlanTypeOK /\ faults' \in Nat /\ (faults' = 0 => faults = 0 /\ faults' = faults)
  BY DEF planData, planVars, PlanInv
<1>2. /\ Live' = Live /\ EffectivePlan' = EffectivePlan
      /\ \A p : Holds(p)' = Holds(p) /\ PlanSettled(p)' = PlanSettled(p)
  BY <1>1 DEF Live, EffectivePlan, Holds, InForce, Lifecycle, PlanSettled
<1>3. \A p \in Plans : ~Owes(call[c], p) \/ faults' # 0
  BY <1>1 DEF Owes, PlanInv
<1>4. ASSUME calm
      PROVE  /\ \A p \in Plans : granted'[p] <= begun'[p]
             /\ Subscribes(call[c])'
             /\ faults' = 0 => \A p \in Plans \ {FreePlan} : ~Owes(call[c], p)' => PlanSettled(p)'
  <2>1. Subscribes(call[c])'
    BY <1>1, <1>2, <1>4 DEF Subscribes
  <2> QED
    BY <1>1, <1>2, <1>3, <1>4, <2>1, OnlyOne
<1>5. calm /\ ~exempt' => Cardinality(Live') <= MaxAgents[EffectivePlan'] /\ Fits(call[c])'
  BY <1>1, <1>2, OnlyOne DEF Fits, QuotaKept
<1> QED
  BY <1>1, <1>4, <1>5, PlanMoves DEF PlanTypeOK

LEMMA PlanEnds ==
  ASSUME PlanInv, NEW c \in Calls, ~At(c, "idle"), Answer(c), UNCHANGED <<planData, calm>>,
         \/ faults' = faults /\ call[c].at \notin {"grant", "invoice"}
         \/ faults' = faults + 1
  PROVE  PlanInv'
<1>1. /\ Shaped' /\ call'[c] = NoCall /\ \A d \in Calls \ {c} : call'[d] = call[d]
  BY AnswerMoves DEF PlanInv
<1> QED
  BY <1>1, NoCallCarriesPlan, PlanReads

LEMMA PlanBegins ==
  ASSUME PlanInv, NEW c \in Calls, NEW op, NEW x, NEW l \in {"plans", "find", "quota", "insert", "agent", "write"},
         Begin(c, op, Nobody, x, l), UNCHANGED planData,
         l = "plans" => x \in Plans, l = "quota" => x = FALSE, l = "insert" => x = TRUE,
         l \in {"agent", "write"} => x \in AgentIds /\ op \in Changes
  PROVE  PlanInv'
<1>1. /\ Shaped' /\ \A d \in Calls \ {c} : call'[d] = call[d]
      /\ call'[c].at = l /\ call'[c].op = op /\ call'[c].arg = x
      /\ At(c, "idle") /\ faults' = faults /\ calm' = (calm /\ \A d \in Calls : At(d, "idle"))
  BY BeginMoves DEF PlanInv
<1>2. /\ plan' = plan /\ day' = day /\ exempt' = exempt /\ granted' = granted /\ billed' = billed
      /\ begun' = begun /\ agents' = agents
  BY DEF planData, planVars
<1>3. /\ Live' = Live /\ EffectivePlan' = EffectivePlan
      /\ \A p : Holds(p)' = Holds(p) /\ PlanSettled(p)' = PlanSettled(p)
  BY <1>2 DEF Live, EffectivePlan, Holds, InForce, Lifecycle, PlanSettled
<1>4. \A d \in Calls : PlanCarries(call'[d])
  BY <1>1 DEF PlanInv, PlanCarries, PlanLabels
<1>5. Alone' /\ calm' \in BOOLEAN
  BY <1>1, AloneBegins DEF PlanInv
<1>6. \A d \in Calls : \A p : Owes(call[d], p)' = Owes(call[d], p)
  BY <1>1 DEF Owes, At
<1>7. Subscribes(call[c])' /\ Fits(call[c])'
  BY <1>1 DEF Subscribes, Fits
<1>8. \A d \in Calls \ {c} : Subscribes(call[d])' = Subscribes(call[d]) /\ Fits(call[d])' = Fits(call[d])
  BY <1>1, <1>2, <1>3 DEF Subscribes, Fits
<1>9. calm' => PlansBacked'
  BY <1>1, <1>2, <1>3, <1>6, <1>7, <1>8 DEF PlanInv, PlansBacked
<1>10. calm' /\ ~exempt' => QuotaKept'
  BY <1>1, <1>2, <1>3, <1>7, <1>8 DEF PlanInv, QuotaKept
<1>11. PlanTypeOK'
  BY <1>2, <1>4 DEF PlanInv, PlanTypeOK, PlanCarries
<1> QED
  BY <1>1, <1>4, <1>5, <1>9, <1>10, <1>11 DEF PlanInv

-----------------------------------------------------------------------------
(* subscribe, cancel.                                                      *)

LEMMA ReadPlanKeeps == ASSUME PlanInv, NEW c \in Calls, ReadPlan(c) PROVE PlanInv'
<1>1. /\ call[c].at = "plans" /\ PlanCarries(call[c]) /\ ~Holds(call[c].arg) /\ Note(c, "upsert", day)
      /\ UNCHANGED <<planData, calm, faults>> /\ day \in Nat
  BY DEF ReadPlan, OpenTo, At, PlanInv, PlanTypeOK, Steady
<1>2. /\ Shaped' /\ \A d \in Calls \ {c} : call'[d] = call[d]
      /\ call'[c].at = "upsert" /\ call'[c].arg = call[c].arg /\ call'[c].seen = day
  BY <1>1, NoteMoves DEF PlanInv
<1>3. PlanCarries(call'[c]) /\ Subscribes(call'[c]) /\ Fits(call'[c])
  BY <1>1, <1>2 DEF PlanCarries, Subscribes, Fits, PlanLabels
<1> QED
  BY <1>1, <1>2, <1>3, PlanReads DEF At

(* The row: the plan is taken up, and what comes with it is due.           *)
LEMMA UpsertPlanKeeps == ASSUME PlanInv, NEW c \in Calls, UpsertPlan(c) PROVE PlanInv'
<1> DEFINE p == call[c].arg
           l == IF Credits[p] > 0 THEN "grant" ELSE "invoice"
<1>1. /\ call[c].at = "upsert" /\ PlanCarries(call[c]) /\ Shaped /\ Goto(c, l) /\ PlanTypeOK
      /\ UNCHANGED <<granted, billed, day, agents, calm, faults>>
      /\ plan' = [made |-> TRUE, id |-> p, end |-> call[c].seen + Period, cancel |-> FALSE]
      /\ begun' = [begun EXCEPT ![p] = IF Holds(p) THEN begun[p] ELSE begun[p] + 1]
      /\ exempt' = (exempt \/ MaxAgents[p] < MaxAgents[EffectivePlan])
  BY DEF UpsertPlan, At, PlanInv, Steady
<1>2. p \in Plans /\ call[c].seen \in Nat /\ Credits[p] \in Nat
  BY <1>1 DEF PlanCarries
<1>3. /\ plan' \in [made: BOOLEAN, id: Plans, end: Nat, cancel: BOOLEAN] /\ EffectivePlan' = p
  BY <1>1, <1>2 DEF EffectivePlan
<1>4. /\ begun' \in [Plans -> Nat] /\ \A q \in Plans : q # p => begun'[q] = begun[q]
      /\ begun'[p] >= begun[p]
      /\ ~Holds(p) => begun'[p] = begun[p] + 1
  BY <1>1, <1>2 DEF PlanTypeOK
<1>5. /\ Shaped' /\ \A d \in Calls \ {c} : call'[d] = call[d]
      /\ call'[c].at = l /\ call'[c].arg = p
  BY <1>1, GotoMoves
<1>6. PlanCarries(call'[c]) /\ Fits(call[c])'
  BY <1>2, <1>5 DEF PlanCarries, PlanLabels, Fits
<1>7. /\ granted \in [Plans -> Nat] /\ billed \in [Plans -> Nat] /\ begun \in [Plans -> Nat]
  BY <1>1 DEF PlanTypeOK
<1>8. ASSUME calm
      PROVE  /\ \A q \in Plans : granted'[q] <= begun'[q]
             /\ Subscribes(call[c])'
             /\ faults' = 0 => \A q \in Plans \ {FreePlan} : ~Owes(call[c], q)' => PlanSettled(q)'
  <2>1. /\ \A q \in Plans : granted[q] <= begun[q]
        /\ ~Holds(p)
        /\ faults = 0 => \A q \in Plans \ {FreePlan} : ~Owes(call[c], q) => PlanSettled(q)
    BY <1>1, <1>8, OnlyOne DEF At, Subscribes
  <2>2. \A q \in Plans : ~Owes(call[c], q)
    BY <1>1 DEF Owes
  <2>3. \A q \in Plans : granted'[q] <= begun'[q]
    BY <1>1, <1>2, <1>4, <1>7, <2>1
  <2>4. faults = 0 /\ p # FreePlan => billed[p] = begun[p] /\ (Credits[p] > 0 => granted[p] = begun[p])
    BY <1>2, <2>1, <2>2 DEF PlanSettled
  <2>5. Subscribes(call[c])'
    BY <1>1, <1>2, <1>4, <1>5, <1>7, <2>1, <2>4 DEF Subscribes
  <2>6. faults' = 0 => \A q \in Plans \ {FreePlan} : ~Owes(call[c], q)' => PlanSettled(q)'
    BY <1>1, <1>4, <1>5, <2>1, <2>2 DEF Owes, PlanSettled
  <2> QED
    BY <2>3, <2>5, <2>6
<1>9. calm /\ ~exempt' => Cardinality(Live') <= MaxAgents[EffectivePlan'] /\ Fits(call[c])'
  <2> SUFFICES ASSUME calm, ~exempt' PROVE Cardinality(Live') <= MaxAgents[EffectivePlan']
    BY <1>6
  <2>1. ~exempt /\ ~(MaxAgents[p] < MaxAgents[EffectivePlan])
    BY <1>1
  <2>2. Cardinality(Live) <= MaxAgents[EffectivePlan]
    BY <1>1, <2>1, OnlyOne DEF QuotaKept, At
  <2>3. Live' = Live /\ MaxAgents[p] \in Nat /\ MaxAgents[EffectivePlan] \in Nat
    BY <1>1, <1>2 DEF Live, EffectivePlan, PlanTypeOK
  <2> QED
    BY <1>3, <2>1, <2>2, <2>3, LiveFinite
<1>10. exempt' \in BOOLEAN
  BY <1>1
<1> QED
  BY <1>1, <1>3, <1>4, <1>5, <1>6, <1>8, <1>9, <1>10, PlanMoves DEF At, PlanTypeOK, PlanInv

(* What the plan's credits and agents say is not touched by its invoice.   *)
LEMMA GrantCreditsKeeps == ASSUME PlanInv, NEW c \in Calls, GrantCredits(c) PROVE PlanInv'
<1> DEFINE p == call[c].arg
<1>1. /\ call[c].at = "grant" /\ PlanCarries(call[c]) /\ Shaped /\ Goto(c, "invoice") /\ PlanTypeOK
      /\ UNCHANGED <<plan, billed, begun, day, agents, exempt, calm, faults>>
      /\ granted' = [granted EXCEPT ![p] = granted[p] + 1]
  BY DEF GrantCredits, At, PlanInv, Steady
<1>2. p \in Plans
  BY <1>1 DEF PlanCarries
<1>3. /\ granted \in [Plans -> Nat] /\ billed \in [Plans -> Nat] /\ begun \in [Plans -> Nat]
  BY <1>1 DEF PlanTypeOK
<1>4. /\ granted' \in [Plans -> Nat] /\ granted'[p] = granted[p] + 1
      /\ \A q \in Plans : q # p => granted'[q] = granted[q]
  BY <1>1, <1>2, <1>3
<1>5. /\ Shaped' /\ \A d \in Calls \ {c} : call'[d] = call[d]
      /\ call'[c].at = "invoice" /\ call'[c].arg = p
  BY <1>1, GotoMoves
<1>6. PlanCarries(call'[c]) /\ Fits(call[c])'
  BY <1>2, <1>5 DEF PlanCarries, PlanLabels, Fits
<1>7. ASSUME calm
      PROVE  /\ \A q \in Plans : granted'[q] <= begun'[q]
             /\ Subscribes(call[c])'
             /\ faults' = 0 => \A q \in Plans \ {FreePlan} : ~Owes(call[c], q)' => PlanSettled(q)'
  <2>1. /\ \A q \in Plans : granted[q] <= begun[q]
        /\ Subscribes(call[c])
        /\ faults = 0 => \A q \in Plans \ {FreePlan} : ~Owes(call[c], q) => PlanSettled(q)
    BY <1>1, <1>7, OnlyOne DEF At
  <2>2. \A q \in Plans : granted'[q] <= begun'[q]
    BY <1>1, <1>2, <1>3, <1>4, <2>1 DEF Subscribes
  <2>3. Subscribes(call[c])'
    BY <1>1, <1>2, <1>3, <1>4, <1>5, <2>1 DEF Subscribes
  <2>4. faults' = 0 => \A q \in Plans \ {FreePlan} : ~Owes(call[c], q)' => PlanSettled(q)'
    BY <1>1, <1>4, <1>5, <2>1 DEF Owes, PlanSettled
  <2> QED
    BY <2>2, <2>3, <2>4
<1>8. calm /\ ~exempt' => Cardinality(Live') <= MaxAgents[EffectivePlan'] /\ Fits(call[c])'
  <2>1. Live' = Live /\ EffectivePlan' = EffectivePlan
    BY <1>1 DEF Live, EffectivePlan
  <2> QED
    BY <1>1, <1>6, <2>1, OnlyOne DEF QuotaKept, At
<1> QED
  BY <1>1, <1>4, <1>5, <1>6, <1>7, <1>8, PlanMoves DEF At, PlanTypeOK, PlanInv

LEMMA InvoicePlanKeeps == ASSUME PlanInv, NEW c \in Calls, InvoicePlan(c) PROVE PlanInv'
<1> DEFINE p == call[c].arg
<1>1. /\ call[c].at = "invoice" /\ PlanCarries(call[c]) /\ Shaped /\ Answer(c) /\ PlanTypeOK
      /\ UNCHANGED <<plan, granted, begun, day, agents, exempt, calm, faults>>
      /\ billed' = IF p = FreePlan THEN billed ELSE [billed EXCEPT ![p] = billed[p] + 1]
  BY DEF InvoicePlan, At, PlanInv, Steady
<1>2. p \in Plans
  BY <1>1 DEF PlanCarries
<1>3. /\ granted \in [Plans -> Nat] /\ billed \in [Plans -> Nat] /\ begun \in [Plans -> Nat]
  BY <1>1 DEF PlanTypeOK
<1>4. /\ billed' \in [Plans -> Nat] /\ \A q \in Plans : q # p => billed'[q] = billed[q]
      /\ p # FreePlan => billed'[p] = billed[p] + 1
  BY <1>1, <1>2, <1>3
<1>5. /\ Shaped' /\ call'[c] = NoCall /\ \A d \in Calls \ {c} : call'[d] = call[d]
  BY <1>1, AnswerMoves
<1>6. PlanCarries(call'[c]) /\ Subscribes(call[c])' /\ Fits(call[c])'
  BY <1>5, NoCallCarriesPlan DEF Subscribes, Fits
<1>7. ASSUME calm
      PROVE  /\ \A q \in Plans : granted'[q] <= begun'[q]
             /\ faults' = 0 => \A q \in Plans \ {FreePlan} : ~Owes(call[c], q)' => PlanSettled(q)'
  <2>1. /\ \A q \in Plans : granted[q] <= begun[q]
        /\ Subscribes(call[c])
        /\ faults = 0 => \A q \in Plans \ {FreePlan} : ~Owes(call[c], q) => PlanSettled(q)
    BY <1>1, <1>7, OnlyOne DEF At
  <2>2. faults' = 0 => \A q \in Plans \ {FreePlan} : PlanSettled(q)'
    <3> SUFFICES ASSUME faults = 0, NEW q \in Plans \ {FreePlan} PROVE PlanSettled(q)'
      BY <1>1
    <3>1. CASE q = p
      BY <1>1, <1>2, <1>3, <1>4, <2>1, <3>1 DEF Subscribes, PlanSettled
    <3>2. CASE q # p
      BY <1>1, <1>4, <2>1, <3>2 DEF Owes, PlanSettled
    <3> QED
      BY <3>1, <3>2
  <2> QED
    BY <1>1, <2>1, <2>2
<1>8. calm /\ ~exempt' => Cardinality(Live') <= MaxAgents[EffectivePlan'] /\ Fits(call[c])'
  <2>1. Live' = Live /\ EffectivePlan' = EffectivePlan
    BY <1>1 DEF Live, EffectivePlan
  <2> QED
    BY <1>1, <1>6, <2>1, OnlyOne DEF QuotaKept, At
<1> QED
  BY <1>1, <1>4, <1>5, <1>6, <1>7, <1>8, PlanMoves DEF At, PlanTypeOK, PlanInv

LEMMA CancelPlanKeeps == ASSUME PlanInv, NEW c \in Calls, CancelPlan(c) PROVE PlanInv'
<1>1. /\ call[c].at \in {"find", "cancel"} /\ Shaped /\ PlanTypeOK
      /\ UNCHANGED <<granted, billed, begun, day, agents, exempt, calm, faults>>
  BY DEF CancelPlan, At, PlanInv, Steady
<1>2. CASE call[c].at = "find"
  <2>1. Goto(c, "cancel") /\ UNCHANGED <<planData>>
    BY <1>1, <1>2 DEF CancelPlan, At, planData, planVars
  <2>2. /\ Shaped' /\ \A d \in Calls \ {c} : call'[d] = call[d] /\ call'[c].at = "cancel"
    BY <1>1, <2>1, GotoMoves
  <2>3. call'[c].at = "cancel" /\ \A d \in Calls \ {c} : call'[d] = call[d]
    BY <1>1, <2>1, GotoMoves
  <2>4. PlanCarries(call'[c]) /\ Subscribes(call'[c]) /\ Fits(call'[c])
    BY <2>3 DEF PlanCarries, Subscribes, Fits, PlanLabels
  <2> QED
    BY <1>1, <1>2, <2>1, <2>2, <2>3, <2>4, PlanReads DEF At
<1>3. CASE call[c].at = "cancel"
  <2>1. plan' = [plan EXCEPT !.cancel = TRUE] /\ Answer(c)
    BY <1>3 DEF CancelPlan, At
  <2>2. /\ Shaped' /\ call'[c] = NoCall /\ \A d \in Calls \ {c} : call'[d] = call[d]
    BY <1>1, <2>1, AnswerMoves
  <2>3. /\ plan' \in [made: BOOLEAN, id: Plans, end: Nat, cancel: BOOLEAN]
        /\ EffectivePlan' = EffectivePlan
    BY <1>1, <2>1 DEF PlanTypeOK, EffectivePlan
  <2>4. PlanCarries(call'[c]) /\ Subscribes(call[c])' /\ Fits(call[c])'
    BY <2>2, NoCallCarriesPlan DEF Subscribes, Fits
  <2>5. Live' = Live /\ \A p \in Plans : PlanSettled(p)' = PlanSettled(p) /\ ~Owes(call[c], p)
    BY <1>1, <1>3 DEF Live, PlanSettled, Owes
  <2>6. calm => /\ \A p \in Plans : granted'[p] <= begun'[p]
                /\ faults' = 0 => \A p \in Plans \ {FreePlan} : ~Owes(call[c], p)' => PlanSettled(p)'
    BY <1>1, <1>3, <2>5, OnlyOne DEF At
  <2>7. calm /\ ~exempt' => Cardinality(Live') <= MaxAgents[EffectivePlan']
    BY <1>1, <2>3, <2>5, OnlyOne DEF QuotaKept, At
  <2> QED
    BY <1>1, <2>2, <2>3, <2>4, <2>6, <2>7, PlanMoves DEF At, PlanTypeOK, PlanInv
<1> QED
  BY <1>1, <1>2, <1>3

(* A plan that has run out does not come back by itself.                   *)
LEMMA NextDayKeeps == ASSUME PlanInv, NextDay PROVE PlanInv'
<1>1. /\ UNCHANGED <<call, calm, faults, plan, granted, billed, begun, agents, exempt>>
      /\ day' = day + 1 /\ day' \in 0 .. MaxDays /\ day \in Nat
  BY DEF NextDay, handlerVars, planVars, PlanInv, PlanTypeOK
<1>2. plan \in [made: BOOLEAN, id: Plans, end: Nat, cancel: BOOLEAN]
  BY DEF PlanInv, PlanTypeOK
<1>3. \A p : Holds(p)' => Holds(p)
  BY <1>1, <1>2 DEF Holds, InForce, Lifecycle
<1>4. /\ Live' = Live /\ EffectivePlan' = EffectivePlan
      /\ \A p : PlanSettled(p)' = PlanSettled(p)
  BY <1>1 DEF Live, EffectivePlan, PlanSettled
<1>5. calm' => PlansBacked'
  <2> SUFFICES ASSUME PlansBacked PROVE PlansBacked'
    BY <1>1 DEF PlanInv
  <2>1. ASSUME NEW c \in Calls PROVE Subscribes(call[c])'
    BY <1>1, <1>3 DEF PlansBacked, Subscribes
  <2>2. ASSUME faults' = 0, NEW p \in Plans \ {FreePlan}, \A c \in Calls : ~Owes(call[c], p)'
        PROVE  PlanSettled(p)'
    BY <1>1, <1>4, <2>2 DEF PlansBacked, Owes
  <2> QED
    BY <1>1, <2>1, <2>2 DEF PlansBacked
<1>6. calm' /\ ~exempt' => QuotaKept'
  BY <1>1, <1>4 DEF PlanInv, QuotaKept, Fits
<1>7. Shaped' /\ Alone' /\ PlanTypeOK'
  BY <1>1 DEF PlanInv, Shaped, Alone, At, PlanTypeOK
<1> QED
  BY <1>1, <1>5, <1>6, <1>7 DEF PlanInv

-----------------------------------------------------------------------------
(* Agents.                                                                 *)

LEMMA CheckPlanKeeps == ASSUME PlanInv, NEW c \in Calls, CheckPlan(c) PROVE PlanInv'
<1> DEFINE n == MaxAgents[EffectivePlan]
<1>1. /\ call[c].at = "quota" /\ PlanCarries(call[c]) /\ Note(c, "tally", n)
      /\ UNCHANGED <<planData, calm, faults>>
  BY DEF CheckPlan, At, PlanInv, Steady
<1> HIDE DEF n
<1>2. /\ Shaped' /\ \A d \in Calls \ {c} : call'[d] = call[d]
      /\ call'[c].at = "tally" /\ call'[c].arg = call[c].arg /\ call'[c].seen = n
  BY <1>1, NoteMoves DEF PlanInv
<1>3. PlanCarries(call'[c]) /\ Subscribes(call'[c]) /\ Fits(call'[c])
  BY <1>1, <1>2 DEF PlanCarries, Subscribes, Fits, PlanLabels, n
<1> QED
  BY <1>1, <1>2, <1>3, PlanReads DEF At

(* There is room for one more agent.                                       *)
LEMMA CountAgentsKeeps == ASSUME PlanInv, NEW c \in Calls, CountAgents(c) PROVE PlanInv'
<1>1. /\ call[c].at = "tally" /\ PlanCarries(call[c]) /\ Goto(c, "insert")
      /\ Cardinality(Live) < call[c].seen /\ UNCHANGED <<planData, calm, faults>>
  BY DEF CountAgents, At, PlanInv, Steady, Under
<1>2. /\ Shaped' /\ \A d \in Calls \ {c} : call'[d] = call[d]
      /\ call'[c].at = "insert" /\ call'[c].arg = call[c].arg
  BY <1>1, GotoMoves DEF PlanInv
<1>3. PlanCarries(call'[c]) /\ Subscribes(call'[c])
  BY <1>1, <1>2 DEF PlanCarries, Subscribes, PlanLabels
<1>4. calm /\ ~exempt => Fits(call'[c])
  BY <1>1, <1>2, OnlyOne DEF Fits, At
<1> QED
  BY <1>1, <1>2, <1>3, <1>4, PlanReads DEF At

LEMMA FindAgentKeeps == ASSUME PlanInv, NEW c \in Calls, FindAgent(c) PROVE PlanInv'
<1>1. /\ call[c].at = "agent" /\ PlanCarries(call[c]) /\ Goto(c, "write")
      /\ UNCHANGED <<planData, calm, faults>>
  BY DEF FindAgent, At, PlanInv, Steady
<1>2. /\ Shaped' /\ \A d \in Calls \ {c} : call'[d] = call[d]
      /\ call'[c].at = "write" /\ call'[c].arg = call[c].arg /\ call'[c].op = call[c].op
  BY <1>1, GotoMoves DEF PlanInv
<1>3. PlanCarries(call'[c]) /\ Subscribes(call'[c]) /\ Fits(call'[c])
  BY <1>1, <1>2 DEF PlanCarries, Subscribes, Fits, PlanLabels
<1> QED
  BY <1>1, <1>2, <1>3, PlanReads DEF At

(* A write to the agents ends its call; the quota is kept unless it was    *)
(* passed by.                                                              *)
LEMMA AgentsWritten ==
  ASSUME PlanInv, NEW c \in Calls, call[c].at \in {"insert", "write"}, Answer(c),
         UNCHANGED <<plan, granted, billed, begun, day, calm, faults>>,
         exempt' \in BOOLEAN, agents' \in [AgentIds -> AgentRow],
         calm /\ ~exempt' => Cardinality(Live') <= MaxAgents[EffectivePlan]
  PROVE  PlanInv'
<1>1. /\ Shaped' /\ call'[c] = NoCall /\ \A d \in Calls \ {c} : call'[d] = call[d]
  BY AnswerMoves DEF PlanInv
<1>2. PlanCarries(call'[c]) /\ Subscribes(call[c])' /\ Fits(call[c])'
  BY <1>1, NoCallCarriesPlan DEF Subscribes, Fits
<1>3. /\ EffectivePlan' = EffectivePlan
      /\ \A p \in Plans : PlanSettled(p)' = PlanSettled(p) /\ ~Owes(call[c], p)
  BY DEF EffectivePlan, PlanSettled, Owes
<1>4. calm => /\ \A p \in Plans : granted'[p] <= begun'[p]
              /\ faults' = 0 => \A p \in Plans \ {FreePlan} : ~Owes(call[c], p)' => PlanSettled(p)'
  BY <1>3, OnlyOne DEF At
<1> QED
  BY <1>1, <1>2, <1>3, <1>4, PlanMoves DEF At, PlanTypeOK, PlanInv

LEMMA CreateAgentKeeps == ASSUME PlanInv, NEW c \in Calls, CreateAgent(c) PROVE PlanInv'
<1>1. /\ call[c].at = "insert" /\ PlanCarries(call[c]) /\ Answer(c) /\ PlanTypeOK
      /\ UNCHANGED <<plan, granted, billed, begun, day, calm, faults>>
      /\ exempt' = (exempt \/ call[c].arg)
  BY DEF CreateAgent, At, PlanInv, Steady, planVars
<1>2. call[c].arg \in BOOLEAN
  BY <1>1 DEF PlanCarries
<1> DEFINE row == [status |-> "DRAFT", team |-> call[c].arg]
<1>3. row \in AgentRow /\ row.status = "DRAFT"
  BY <1>2 DEF AgentRow, AgentStatus
<1>4. PICK i \in AgentIds : agents' = [agents EXCEPT ![i] = row]
  BY DEF CreateAgent, Unused
<1> HIDE DEF row
<1>5. /\ agents' \in [AgentIds -> AgentRow] /\ Live' \subseteq Live \cup {i}
  BY <1>1, <1>3, <1>4 DEF PlanTypeOK, Live
<1>6. exempt' \in BOOLEAN
  BY <1>1
<1>7. ASSUME calm, ~exempt' PROVE Cardinality(Live') <= MaxAgents[EffectivePlan]
  <2>1. ~exempt /\ call[c].arg = FALSE
    BY <1>1, <1>2, <1>7
  <2>2. Cardinality(Live) < MaxAgents[EffectivePlan]
    BY <1>1, <1>7, <2>1, OnlyOne DEF Fits, At
  <2>3. MaxAgents[EffectivePlan] \in Nat
    BY <1>1 DEF EffectivePlan, PlanTypeOK
  <2>4. Cardinality(Live') \in Nat /\ Cardinality(Live) \in Nat
        /\ Cardinality(Live') <= Cardinality(Live) + 1
    BY <1>5, LiveFinite, GrowsByOne
  <2> QED
    BY <2>2, <2>3, <2>4
<1> QED
  BY <1>1, <1>5, <1>6, <1>7, AgentsWritten

LEMMA WriteAgentKeeps == ASSUME PlanInv, NEW c \in Calls, WriteAgent(c) PROVE PlanInv'
<1> DEFINE i == call[c].arg
           status == StatusOf(call[c].op)
           row == [agents[i] EXCEPT !.status = status]
<1>1. /\ call[c].at = "write" /\ PlanCarries(call[c]) /\ Answer(c) /\ PlanTypeOK
      /\ UNCHANGED <<plan, granted, billed, begun, day, calm, faults>>
      /\ exempt' = (exempt \/ Exempts(i, status)) /\ agents' = [agents EXCEPT ![i].status = status]
  BY DEF WriteAgent, At, PlanInv, Steady, planVars
<1>2. i \in AgentIds /\ call[c].op \in Changes
  BY <1>1 DEF PlanCarries
<1>3. status \in AgentStatus
  BY <1>2 DEF StatusOf, Changes, AgentStatus
<1> HIDE DEF status
<1>4. row \in AgentRow /\ row.status = status /\ agents' = [agents EXCEPT ![i] = row]
  BY <1>1, <1>2, <1>3 DEF PlanTypeOK, AgentRow
<1> HIDE DEF row
<1>5. /\ agents' \in [AgentIds -> AgentRow] /\ agents'[i] = row
      /\ \A j \in AgentIds : j # i => agents'[j] = agents[j]
  BY <1>1, <1>2, <1>4 DEF PlanTypeOK
<1>6. exempt' \in BOOLEAN
  BY <1>1 DEF Exempts, PlanTypeOK
<1>7. ASSUME calm, ~exempt' PROVE Cardinality(Live') <= MaxAgents[EffectivePlan]
  <2>1. ~exempt /\ ~Exempts(i, status)
    BY <1>1, <1>7
  <2>2. Live' \subseteq Live
    BY <1>2, <1>4, <1>5, <2>1 DEF Exempts, Live
  <2>3. Cardinality(Live) <= MaxAgents[EffectivePlan] /\ MaxAgents[EffectivePlan] \in Nat
    BY <1>1, <1>7, <2>1, OnlyOne DEF QuotaKept, At, EffectivePlan, PlanTypeOK
  <2>4. Cardinality(Live') \in Nat /\ Cardinality(Live) \in Nat
        /\ Cardinality(Live') <= Cardinality(Live)
    BY <2>2, LiveFinite, Smaller
  <2> QED
    BY <2>3, <2>4
<1> QED
  BY <1>1, <1>5, <1>6, <1>7, AgentsWritten

-----------------------------------------------------------------------------
LEMMA PlanInitOK == PlanInit => PlanInv
<1> SUFFICES ASSUME PlanInit PROVE PlanInv
  OBVIOUS
<1>1. Shaped /\ Alone /\ calm = TRUE /\ faults = 0 /\ \A c \in Calls : call[c] = NoCall
  BY ShapedAtFirst, AloneAtFirst DEF PlanInit, HandlersInit
<1>2. Live = {} /\ PlanTypeOK
  <2>1. \A c \in Calls : call[c].at \in PlanLabels
    BY <1>1, NoCallCarriesPlan DEF PlanLabels
  <2>2. agents \in [AgentIds -> AgentRow] /\ \A i \in AgentIds : agents[i].status = "NONE"
    BY DEF PlanInit, AgentRow, AgentStatus
  <2>3. Live = {}
    BY <2>2 DEF Live
  <2>4. plan \in [made: BOOLEAN, id: Plans, end: Nat, cancel: BOOLEAN] /\ exempt \in BOOLEAN
    BY DEF PlanInit
  <2>5. /\ granted \in [Plans -> Nat] /\ billed \in [Plans -> Nat] /\ begun \in [Plans -> Nat]
        /\ day \in 0 .. MaxDays
    BY DEF PlanInit
  <2> QED
    BY <2>1, <2>2, <2>3, <2>4, <2>5 DEF PlanTypeOK
<1>3. Cardinality(Live) = 0 /\ MaxAgents[EffectivePlan] \in Nat
  BY <1>2, FS_EmptySet DEF EffectivePlan, PlanTypeOK
<1>4. QuotaKept /\ PlansBacked
  BY <1>1, <1>3, NoCallCarriesPlan DEF PlanInit, QuotaKept, PlansBacked, PlanSettled
<1> QED
  BY <1>1, <1>2, <1>4, NoCallCarriesPlan DEF PlanInv

LEMMA PlanStep == PlanInv /\ [PlanNext]_planAll => PlanInv'
<1> SUFFICES ASSUME PlanInv, [PlanNext]_planAll PROVE PlanInv'
  OBVIOUS
<1>1. ASSUME NEW c \in Calls, ServePlan(c) PROVE PlanInv'
  BY <1>1, PlanBegins DEF ServePlan
<1>2. ASSUME NEW c \in Calls, ServeAgent(c) PROVE PlanInv'
  <2>1. CASE \E team \in BOOLEAN : Begin(c, "create", Nobody, team, IF team THEN "insert" ELSE "quota")
    <3>1. \/ Begin(c, "create", Nobody, TRUE, "insert")
          \/ Begin(c, "create", Nobody, FALSE, "quota")
      BY <2>1
    <3> QED
      BY <1>2, <3>1, PlanBegins DEF ServeAgent
  <2>2. CASE \E op \in {"DRAFT", "ACTIVE", "archive"}, i \in Present : Begin(c, op, Nobody, i, "agent")
    BY <1>2, <2>2, PlanBegins DEF ServeAgent, Present, Changes
  <2>3. CASE \E i \in Present : Begin(c, "hardDelete", Nobody, i, "write")
    BY <1>2, <2>3, PlanBegins DEF ServeAgent, Present, Changes
  <2> QED
    BY <1>2, <2>1, <2>2, <2>3 DEF ServeAgent
<1>3. ASSUME NEW c \in Calls, RefusePlan(c) PROVE PlanInv'
  <2>1. /\ call[c].at \in {"plans", "find", "quota", "tally", "agent", "write"}
        /\ Answer(c) /\ UNCHANGED <<planData, calm, faults>>
    BY <1>3 DEF RefusePlan, Steady
  <2> QED
    BY <2>1, PlanEnds DEF At
<1>4. ASSUME NEW c \in Calls, BreakPlan(c) PROVE PlanInv'
  BY <1>4, PlanEnds DEF BreakPlan, Break
<1>5. CASE UNCHANGED planAll
  <2>1. UNCHANGED <<call, calm, faults, plan, day, granted, billed, begun, agents, exempt>>
    BY <1>5 DEF planAll, planData, planVars, handlerVars
  <2>2. /\ Live' = Live /\ EffectivePlan' = EffectivePlan
        /\ \A p : Holds(p)' = Holds(p) /\ PlanSettled(p)' = PlanSettled(p)
    BY <2>1 DEF Live, EffectivePlan, Holds, InForce, Lifecycle, PlanSettled
  <2>3. \A c \in Calls : /\ Fits(call[c])' = Fits(call[c]) /\ Subscribes(call[c])' = Subscribes(call[c])
                        /\ \A p : Owes(call[c], p)' = Owes(call[c], p)
    BY <2>1, <2>2 DEF Fits, Subscribes, Owes
  <2>4. (calm' => PlansBacked') /\ (calm' /\ ~exempt' => QuotaKept')
    BY <2>1, <2>2, <2>3 DEF PlanInv, PlansBacked, QuotaKept
  <2>5. Shaped' /\ Alone' /\ PlanTypeOK'
    BY <2>1 DEF PlanInv, Shaped, Alone, At, PlanTypeOK
  <2> QED
    BY <2>1, <2>4, <2>5 DEF PlanInv
<1> QED
  BY <1>1, <1>2, <1>3, <1>4, <1>5, ReadPlanKeeps, UpsertPlanKeeps, GrantCreditsKeeps, InvoicePlanKeeps,
     CancelPlanKeeps, NextDayKeeps, CheckPlanKeeps, CountAgentsKeeps, FindAgentKeeps, CreateAgentKeeps,
     WriteAgentKeeps DEF PlanNext

(* While calls do not overlap, billing.service's subscribe grants the      *)
(* credits of a plan no more often than the plan is taken up, and as long  *)
(* as no await fails each time with its invoice.                           *)
THEOREM PlanCreditsAreBacked == PlanSpec => []GrantsAreBacked
<1>1. PlanInv => GrantsAreBacked
  <2> SUFFICES ASSUME PlanInv PROVE GrantsAreBacked
    OBVIOUS
  <2>1. calm => \A p \in Plans : granted[p] <= begun[p]
    BY DEF PlanInv, PlansBacked
  <2>2. Sequential => \A p \in Plans \ {FreePlan} : PlanSettled(p)
    BY DEF PlanInv, PlansBacked, Sequential, Quiet, At, Owes
  <2> QED
    BY <2>1, <2>2 DEF GrantsAreBacked, PlanSettled
<1> QED
  BY <1>1, PlanInitOK, PlanStep, PTL DEF PlanSpec

(* While calls do not overlap, createAgent keeps a user's live agents      *)
(* within the plan's quota, for every quota, unless one of the ways past   *)
(* the check was taken (a team's agent, an archived one taken back, a plan *)
(* that shrank).                                                           *)
THEOREM AgentsWithinQuota == PlanSpec => []QuotaHolds
<1>1. PlanInv => QuotaHolds
  BY DEF PlanInv, QuotaHolds, QuotaKept
<1> QED
  BY <1>1, PlanInitOK, PlanStep, PTL DEF PlanSpec

-----------------------------------------------------------------------------
(* Subscriptions to listings: what a key may run, and what is billed.      *)

(* What a handler carries from one await to the next.                      *)
OfCustomer == {"sub", "create", "renew", "count", "cancel", "uncount", "price", "invoice", "payout",
               "reset", "run", "usage", "mine", "upsert", "delete"}

MarketCarries(k) ==
  /\ k.at \in MarketLabels
  /\ k.at \in OfCustomer => k.user \in Customers
  /\ k.at = "onSale" => k.user \in Users /\ k.op = "subscribe"
  /\ k.at = "sub" => k.op \in {"subscribe", "unsubscribe", "review"}
  /\ k.at \in {"create", "renew", "count"} => k.op = "subscribe"
  /\ k.at \in {"reset", "run", "usage"} => k.seen \in Nat
  /\ k.at = "idle" => k = NoCall

MarketTyped ==
  /\ today \in Nat /\ keys \in Nat
  /\ subs \in [Customers -> Sub] /\ trail \in [Customers -> Trail]
  /\ bills \in [Customers -> [invoices: Nat, payouts: Nat]]

(* A period that began has been billed and paid out, or its bill is due.   *)
PeriodsPaid(u) == faults = 0 => bills[u].payouts = trail[u].begun
PeriodDue(u)   == /\ bills[u].invoices + 1 <= trail[u].begun
                  /\ faults = 0 => bills[u].payouts + 1 = trail[u].begun

Billing(k, u) == k.at \in {"count", "price", "invoice", "payout"} /\ k.user = u
Pending(k, u) == k.at = "usage" /\ k.user = u /\ "sub" \in k.todo

BillsAgree(k, u) ==
  /\ bills[u].payouts <= bills[u].invoices /\ bills[u].invoices <= trail[u].begun
  /\ ~Billing(k, u) => PeriodsPaid(u)

UsesAgree(k, u) ==
  /\ subs[u].daily <= DailyLimit /\ subs[u].day <= today
  /\ subs[u].day # today => trail[u].spent = 0
  /\ trail[u].spent <= subs[u].daily + faults + 1
  /\ ~Pending(k, u) => trail[u].spent <= subs[u].daily + faults

(* What the only call in progress knows about the rows of its subscriber.  *)
Knows(k) ==
  /\ k.at \in {"create", "renew"} => ~subs[k.user].active
  /\ k.at \in {"count", "price"} => IF listing.monthly THEN PeriodDue(k.user) ELSE PeriodsPaid(k.user)
  /\ k.at = "invoice" => PeriodDue(k.user)
  /\ k.at = "payout" => /\ bills[k.user].payouts + 1 <= bills[k.user].invoices
                        /\ faults = 0 => bills[k.user].payouts + 1 = trail[k.user].begun
  /\ k.at = "reset" => k.seen <= today /\ subs[k.user].day < k.seen
  /\ k.at = "run" => subs[k.user].day = k.seen /\ subs[k.user].daily < DailyLimit
  /\ Pending(k, k.user) => subs[k.user].daily < DailyLimit

Calmly(k) == Knows(k) /\ \A u \in Customers : BillsAgree(k, u) /\ UsesAgree(k, u)

MarketInv ==
  /\ Shaped /\ Alone /\ calm \in BOOLEAN /\ faults \in Nat /\ MarketTyped
  /\ \A c \in Calls : MarketCarries(call[c])
  /\ calm => /\ \A c \in Calls : ~At(c, "idle") => Calmly(call[c])
             /\ Quiet => Calmly(NoCall)

-----------------------------------------------------------------------------
LEMMA MarketMoves ==
  ASSUME MarketInv, NEW c \in Calls, Shaped', \A d \in Calls \ {c} : call'[d] = call[d],
         call[c].at # "idle", calm' = calm, faults' \in Nat, MarketTyped',
         MarketCarries(call'[c]), calm => Calmly(call[c])'
  PROVE  MarketInv'
<1>1. Alone' /\ calm' \in BOOLEAN
  BY AloneMoves DEF MarketInv, At
<1>2. \A d \in Calls : MarketCarries(call[d])'
  BY DEF MarketInv, MarketCarries
<1>3. ASSUME calm
      PROVE  /\ \A d \in Calls : ~At(d, "idle")' => Calmly(call[d])'
             /\ Quiet' => Calmly(NoCall)'
  <2>1. \A d \in Calls \ {c} : call'[d].at = "idle"
    BY <1>3 DEF MarketInv, Alone, At
  <2>2. ASSUME NEW d \in Calls, ~At(d, "idle")' PROVE Calmly(call[d])'
    <3>1. d = c
      BY <2>1, <2>2 DEF At
    <3> QED
      BY <1>3, <3>1
  <2>3. ASSUME Quiet' PROVE Calmly(NoCall)'
    <3>1. call'[c] = NoCall
      BY <2>3 DEF Quiet, At, MarketCarries
    <3>2. Calmly(call[c])'
      BY <1>3
    <3> QED
      BY <3>1, <3>2 DEF Calmly, Knows, BillsAgree, UsesAgree, Billing, Pending, NoCall
  <2> QED
    BY <2>2, <2>3
<1> QED
  BY <1>1, <1>2, <1>3 DEF MarketInv

(* A step that leaves the subscriptions, the bills and the price alone.    *)
MarketRests == UNCHANGED <<listing, subs, keys, bills, today, trail, calm, faults>>

LEMMA MarketGoes ==
  ASSUME MarketInv, NEW c \in Calls, Shaped', \A d \in Calls \ {c} : call'[d] = call[d],
         call[c].at # "idle", MarketRests, MarketCarries(call'[c]),
         \A u \in Customers : /\ Billing(call[c], u) => Billing(call'[c], u)
                              /\ Pending(call[c], u) => Pending(call'[c], u),
         calm => Knows(call'[c])
  PROVE  MarketInv'
<1>1. MarketTyped' /\ faults' \in Nat /\ calm' = calm
  BY DEF MarketInv, MarketTyped, MarketRests
<1>2. ASSUME calm PROVE Calmly(call[c])'
  <2>1. Calmly(call[c])
    BY <1>2 DEF MarketInv, At
  <2>2. ASSUME NEW u \in Customers PROVE BillsAgree(call[c], u)' /\ UsesAgree(call[c], u)'
    BY <2>1 DEF Calmly, BillsAgree, UsesAgree, MarketRests, PeriodsPaid, Billing, Pending
  <2>3. Knows(call[c])'
    BY <1>2 DEF Knows, MarketRests, PeriodDue, PeriodsPaid, Pending
  <2> QED
    BY <2>2, <2>3 DEF Calmly
<1> QED
  BY <1>1, <1>2, MarketMoves

LEMMA NoCallKnowsNothing ==
  /\ MarketCarries(NoCall) /\ Knows(NoCall)
  /\ \A u : ~Billing(NoCall, u) /\ ~Pending(NoCall, u)
  BY DEF MarketCarries, NoCall, MarketLabels, OfCustomer, Knows, Billing, Pending

(* A call that answers, and had no bill and no count to come.              *)
LEMMA MarketAnswers ==
  ASSUME MarketInv, NEW c \in Calls, Answer(c), MarketRests,
         call[c].at \notin {"idle", "count", "price", "invoice", "payout", "usage"}
  PROVE  MarketInv'
<1>1. Shaped' /\ (\A d \in Calls \ {c} : call'[d] = call[d]) /\ call'[c] = NoCall
  BY AnswerMoves DEF MarketInv
<1>2. \A u : ~Billing(call[c], u) /\ ~Pending(call[c], u)
  BY DEF Billing, Pending
<1> QED
  BY <1>1, <1>2, NoCallKnowsNothing, MarketGoes

(* A call that goes on to an await at which nothing need be known.         *)
LEMMA MarketGoto ==
  ASSUME MarketInv, NEW c \in Calls, NEW l, Goto(c, l), MarketRests,
         call[c].at \notin {"idle", "count", "price", "invoice", "payout", "usage"},
         l \in {"agent", "write", "sub", "cancel", "uncount", "upsert", "delete", "aggregate"},
         l \in OfCustomer => call[c].user \in Customers,
         l = "sub" => call[c].op \in {"subscribe", "unsubscribe", "review"}
  PROVE  MarketInv'
<1>1. /\ Shaped' /\ \A d \in Calls \ {c} : call'[d] = call[d]
      /\ call'[c].at = l /\ call'[c].op = call[c].op /\ call'[c].user = call[c].user
  BY GotoMoves DEF MarketInv
<1>2. \A u : ~Billing(call[c], u) /\ ~Pending(call[c], u)
  BY DEF Billing, Pending
<1>3. MarketCarries(call'[c])
  BY <1>1 DEF MarketCarries, MarketLabels
<1>4. Knows(call'[c])
  BY <1>1 DEF Knows, Pending
<1> QED
  BY <1>1, <1>2, <1>3, <1>4, MarketGoes

LEMMA ServeMarketKeeps ==
  ASSUME MarketInv, NEW c \in Calls,
         ServeListing(c) \/ ServeSubscription(c) \/ ServeUse(c) \/ ServeReview(c)
  PROVE  MarketInv'
<1>1. /\ UNCHANGED marketData
      /\ \E op, u, x, l : /\ Begin(c, op, u, x, l)
                          /\ l \in {"listing", "onSale", "sub", "key", "mine"}
                          /\ l = "onSale" => u \in Users /\ op = "subscribe"
                          /\ l \in {"sub", "mine"} => u \in Customers
                          /\ l = "sub" => op \in {"unsubscribe", "review"}
  <2>1. CASE ServeListing(c)
    BY <2>1 DEF ServeListing
  <2>2. CASE ServeSubscription(c)
    BY <2>2 DEF ServeSubscription
  <2>3. CASE ServeUse(c)
    BY <2>3 DEF ServeUse
  <2>4. CASE ServeReview(c)
    BY <2>4 DEF ServeReview
  <2> QED
    BY <2>1, <2>2, <2>3, <2>4
<1>2. PICK op, u, x, l : /\ Begin(c, op, u, x, l)
                         /\ l \in {"listing", "onSale", "sub", "key", "mine"}
                         /\ l = "onSale" => u \in Users /\ op = "subscribe"
                         /\ l \in {"sub", "mine"} => u \in Customers
                         /\ l = "sub" => op \in {"unsubscribe", "review"}
  BY <1>1
<1>3. /\ Shaped' /\ (\A d \in Calls \ {c} : call'[d] = call[d]) /\ call[c].at = "idle"
      /\ call'[c].at = l /\ call'[c].op = op /\ call'[c].user = u
      /\ faults' = faults /\ calm' = (calm /\ \A d \in Calls : At(d, "idle"))
  BY <1>2, BeginMoves DEF MarketInv, At
<1>4. Alone' /\ calm' \in BOOLEAN /\ faults' \in Nat
  BY <1>3, AloneBegins DEF MarketInv
<1>5. MarketCarries(call'[c])
  BY <1>2, <1>3 DEF MarketCarries, MarketLabels, OfCustomer
<1>6. \A d \in Calls : MarketCarries(call[d])'
  BY <1>3, <1>5 DEF MarketInv, MarketCarries
<1>7. MarketTyped'
  BY <1>1 DEF MarketInv, MarketTyped, marketData
<1>8. ASSUME calm' PROVE \A d \in Calls : ~At(d, "idle")' => Calmly(call[d])'
  <2>1. calm /\ Quiet
    BY <1>3, <1>8 DEF Quiet
  <2>2. Calmly(NoCall)
    BY <2>1 DEF MarketInv
  <2>3. ASSUME NEW v \in Customers PROVE BillsAgree(call[c], v)' /\ UsesAgree(call[c], v)'
    BY <1>1, <1>2, <1>3, <2>2, NoCallKnowsNothing DEF Calmly, BillsAgree, UsesAgree, PeriodsPaid, Billing, Pending, marketData
  <2>4. Knows(call[c])'
    BY <1>2, <1>3 DEF Knows, Pending
  <2>5. Calmly(call[c])'
    BY <2>3, <2>4 DEF Calmly
  <2>6. ASSUME NEW d \in Calls, ~At(d, "idle")' PROVE d = c
    BY <1>3, <2>1, <2>6 DEF Quiet, At
  <2> QED
    BY <2>5, <2>6
<1>9. ~Quiet'
  BY <1>2, <1>3 DEF Quiet, At
<1> QED
  BY <1>3, <1>4, <1>6, <1>7, <1>8, <1>9 DEF MarketInv

-----------------------------------------------------------------------------
(* The listing.                                                            *)

LEMMA WriteListingKeeps == ASSUME MarketInv, NEW c \in Calls, WriteListing(c) PROVE MarketInv'
<1>1. /\ call[c].at = "write" /\ Answer(c) /\ Shaped /\ MarketTyped /\ faults \in Nat
      /\ UNCHANGED <<subs, keys, bills, today, trail, calm, faults>>
  BY DEF WriteListing, At, MarketInv, Steady
<1>2. Shaped' /\ (\A d \in Calls \ {c} : call'[d] = call[d]) /\ call'[c] = NoCall
  BY <1>1, AnswerMoves
<1>3. MarketTyped' /\ MarketCarries(call'[c])
  BY <1>1, <1>2, NoCallKnowsNothing DEF MarketTyped
<1>4. ASSUME calm PROVE Calmly(call[c])'
  <2>1. Calmly(call[c])
    BY <1>1, <1>4 DEF MarketInv, At
  <2>2. ASSUME NEW u \in Customers PROVE BillsAgree(call[c], u)' /\ UsesAgree(call[c], u)'
    BY <1>1, <1>2, <2>1 DEF Calmly, BillsAgree, UsesAgree, PeriodsPaid, Billing, Pending
  <2>3. Knows(call[c])'
    BY <1>2 DEF Knows, NoCall, Pending
  <2> QED
    BY <2>2, <2>3 DEF Calmly
<1> QED
  BY <1>1, <1>2, <1>3, <1>4, MarketMoves

LEMMA ListingKeeps == ASSUME MarketInv, NEW c \in Calls, ListingStep(c) PROVE MarketInv'
<1>1. CASE FindListing(c)
  <2>1. /\ call[c].at = "listing" /\ MarketRests /\ (Goto(c, "agent") \/ Goto(c, "write"))
    BY <1>1 DEF FindListing, At, Steady, MarketRests, marketData
  <2> QED
    BY <2>1, MarketGoto DEF OfCustomer
<1>2. CASE CheckAgent(c)
  <2>1. /\ call[c].at = "agent" /\ MarketRests /\ Goto(c, "write")
    BY <1>2 DEF CheckAgent, At, Steady, MarketRests, marketData
  <2> QED
    BY <2>1, MarketGoto DEF OfCustomer
<1> QED
  BY <1>1, <1>2, WriteListingKeeps, ServeMarketKeeps DEF ListingStep

-----------------------------------------------------------------------------
(* Subscriptions and their bills.                                          *)

LEMMA FindSubKeeps == ASSUME MarketInv, NEW c \in Calls, FindSub(c) PROVE MarketInv'
<1>1. PICK u : /\ u = call[c].user /\ call[c].at = "sub" /\ u \in Customers /\ MarketRests /\ Shaped
               /\ call[c].op \in {"subscribe", "unsubscribe", "review"}
               /\ subs[u].active <=> call[c].op # "subscribe"
               /\ Goto(c, NextOfSub(subs[u], call[c].op))
  BY DEF FindSub, At, Is, MarketInv, MarketCarries, OfCustomer, Steady, MarketRests, marketData
<1>2. CASE call[c].op = "subscribe"
  <2>1. PICK l \in {"renew", "create"} : Goto(c, l)
    BY <1>1, <1>2 DEF NextOfSub
  <2>2. /\ Shaped' /\ \A d \in Calls \ {c} : call'[d] = call[d]
        /\ call'[c].at = l /\ call'[c].op = "subscribe" /\ call'[c].user = u
    BY <1>1, <1>2, <2>1, GotoMoves
  <2>3. MarketCarries(call'[c])
    BY <1>1, <2>2 DEF MarketCarries, MarketLabels
  <2>4. Knows(call'[c])
    BY <1>1, <1>2, <2>2 DEF Knows, Pending
  <2>5. \A v : ~Billing(call[c], v) /\ ~Pending(call[c], v)
    BY <1>1 DEF Billing, Pending
  <2> QED
    BY <1>1, <2>2, <2>3, <2>4, <2>5, MarketGoes
<1>3. CASE call[c].op # "subscribe"
  <2>1. PICK l \in {"cancel", "upsert"} : Goto(c, l)
    BY <1>1, <1>3 DEF NextOfSub
  <2> QED
    BY <1>1, <2>1, MarketGoto
<1> QED
  BY <1>2, <1>3

LEMMA OpenSubKeeps == ASSUME MarketInv, NEW c \in Calls, OpenSub(c) PROVE MarketInv'
<1>1. PICK u, row, l, b, r :
        /\ u = call[c].user /\ call[c].at \in {"create", "renew"} /\ u \in Customers
        /\ call[c].op = "subscribe" /\ l \in {"price", "count"} /\ row \in {subs[u], NoSub}
        /\ subs' = [subs EXCEPT ![u] = Opened(row)]
        /\ keys' = Fresh(keys)
        /\ trail' = [trail EXCEPT ![u].spent = 0, ![u].begun = b, ![u].renewed = r]
        /\ b = IF listing.monthly /\ ~subs[u].active THEN trail[u].begun + 1 ELSE trail[u].begun
        /\ r \in {trail[u].renewed, trail[u].renewed + 1}
        /\ Goto(c, l)
  <2>1. call[c].at \in {"create", "renew"} /\ MarketCarries(call[c])
    BY DEF OpenSub, At, MarketInv
  <2>2. call[c].user \in Customers /\ call[c].op = "subscribe"
    BY <2>1 DEF MarketCarries, OfCustomer
  <2>3. CASE call[c].at = "create"
    BY <2>2, <2>3 DEF OpenSub, At
  <2>4. CASE call[c].at = "renew"
    BY <2>2, <2>4 DEF OpenSub, At
  <2> QED
    BY <2>1, <2>3, <2>4
<1>2. /\ Shaped /\ MarketTyped /\ faults \in Nat
      /\ UNCHANGED <<listing, bills, today, calm, faults>>
  BY DEF OpenSub, MarketInv, Steady
<1>3. /\ Shaped' /\ \A d \in Calls \ {c} : call'[d] = call[d]
      /\ call'[c].at = l /\ call'[c].op = "subscribe" /\ call'[c].user = u
  BY <1>1, <1>2, GotoMoves
<1>4. subs[u] \in Sub /\ NoSub \in Sub /\ trail[u] \in Trail
  BY <1>1, <1>2 DEF MarketTyped, NoSub, Sub
<1>5. /\ Opened(row) \in Sub /\ Opened(row).daily = 0 /\ Opened(row).day = today
  <2>1. row \in Sub
    BY <1>1, <1>4
  <2>2. today \in Nat /\ keys + 1 \in Nat
    BY <1>2 DEF MarketTyped
  <2> QED
    BY <2>1, <2>2 DEF Opened, Sub, Fresh
<1>6. /\ subs' \in [Customers -> Sub] /\ subs'[u].daily = 0 /\ subs'[u].day = today
      /\ \A v \in Customers \ {u} : subs'[v] = subs[v]
  BY <1>1, <1>2, <1>5 DEF MarketTyped
<1>7. /\ trail' \in [Customers -> Trail] /\ trail'[u].spent = 0 /\ trail'[u].begun = b
      /\ \A v \in Customers \ {u} : trail'[v] = trail[v]
  <2> DEFINE t1 == [trail EXCEPT ![u].spent = 0]
             t2 == [t1 EXCEPT ![u].begun = b]
             t3 == [t2 EXCEPT ![u].renewed = r]
  <2>1. b \in Nat /\ r \in Nat
    BY <1>1, <1>4 DEF Trail
  <2>2. /\ t1 \in [Customers -> Trail] /\ t1[u].spent = 0
        /\ \A v \in Customers \ {u} : t1[v] = trail[v]
    BY <1>1, <1>2 DEF MarketTyped, Trail
  <2>3. /\ t2 \in [Customers -> Trail] /\ t2[u].spent = 0 /\ t2[u].begun = b
        /\ \A v \in Customers \ {u} : t2[v] = trail[v]
    <3> HIDE DEF t1
    <3> QED
      BY <1>1, <2>1, <2>2 DEF Trail
  <2>4. /\ t3 \in [Customers -> Trail] /\ t3[u].spent = 0 /\ t3[u].begun = b
        /\ \A v \in Customers \ {u} : t3[v] = trail[v]
    <3> HIDE DEF t2
    <3> QED
      BY <1>1, <2>1, <2>3 DEF Trail
  <2>5. trail' = t3
    BY <1>1
  <2> HIDE DEF t3
  <2> QED
    BY <2>4, <2>5
<1>8. MarketTyped'
  <2>1. today' = today /\ bills' = bills /\ keys' = keys + 1
    BY <1>1, <1>2 DEF Fresh
  <2> QED
    BY <1>2, <1>6, <1>7, <2>1 DEF MarketTyped
<1>9. MarketCarries(call'[c])
  BY <1>1, <1>3 DEF MarketCarries, MarketLabels
<1>10. ASSUME calm PROVE Calmly(call[c])'
  <2>1. Calmly(call[c])
    BY <1>1, <1>10 DEF MarketInv, At
  <2>2. ~subs[u].active /\ \A v \in Customers : ~Billing(call[c], v) /\ ~Pending(call[c], v)
    BY <1>1, <2>1 DEF Calmly, Knows, Billing, Pending
  <2>3. ASSUME NEW v \in Customers \ {u} PROVE BillsAgree(call[c], v)' /\ UsesAgree(call[c], v)'
    BY <1>2, <1>6, <1>7, <2>1, <2>2 DEF Calmly, BillsAgree, UsesAgree, PeriodsPaid
  <2>4. UsesAgree(call[c], u)'
    <3>1. /\ today \in Nat /\ faults \in Nat /\ today' = today /\ faults' = faults
          /\ subs'[u].daily = 0 /\ subs'[u].day = today /\ trail'[u].spent = 0
      BY <1>2, <1>6, <1>7 DEF MarketTyped
    <3> QED
      BY <3>1 DEF UsesAgree
  <2>5. /\ bills[u].payouts \in Nat /\ bills[u].invoices \in Nat /\ trail[u].begun \in Nat
        /\ bills[u].payouts <= bills[u].invoices /\ bills[u].invoices <= trail[u].begun /\ PeriodsPaid(u)
    BY <1>1, <1>2, <1>4, <2>1, <2>2 DEF Calmly, BillsAgree, MarketTyped, Trail
  <2>6. IF listing.monthly THEN PeriodDue(u)' ELSE PeriodsPaid(u)'
    <3>1. bills' = bills /\ faults' = faults
          /\ trail'[u].begun = IF listing.monthly THEN trail[u].begun + 1 ELSE trail[u].begun
      BY <1>1, <1>2, <1>7, <2>2
    <3>2. CASE listing.monthly
      BY <2>5, <3>1, <3>2 DEF PeriodDue, PeriodsPaid
    <3>3. CASE ~listing.monthly
      BY <2>5, <3>1, <3>3 DEF PeriodsPaid
    <3> QED
      BY <3>2, <3>3
  <2>7. BillsAgree(call[c], u)'
    <3>1. bills' = bills /\ trail'[u].begun \in {trail[u].begun, trail[u].begun + 1}
      BY <1>1, <1>2, <1>7
    <3>2. call'[c].at \in {"price", "count"} /\ call'[c].user = u
      BY <1>1, <1>3
    <3> QED
      BY <2>5, <3>1, <3>2 DEF BillsAgree, Billing
  <2>8. Knows(call[c])'
    BY <1>1, <1>2, <1>3, <2>6 DEF Knows, Pending, PeriodDue, PeriodsPaid
  <2> QED
    BY <2>3, <2>4, <2>7, <2>8 DEF Calmly
<1> QED
  BY <1>1, <1>2, <1>3, <1>8, <1>9, <1>10, MarketMoves

(* Switching a row off keeps the rest of it.                               *)
LEMMA SwitchedOff ==
  ASSUME NEW s \in Sub
  PROVE  LET row == [s EXCEPT !.active = FALSE]
         IN row \in Sub /\ row.daily = s.daily /\ row.day = s.day
BY DEF Sub

LEMMA CancelSubKeeps == ASSUME MarketInv, NEW c \in Calls, CancelSub(c) PROVE MarketInv'
<1>1. PICK u : /\ u = call[c].user /\ call[c].at = "cancel" /\ u \in Customers
               /\ Shaped /\ MarketTyped /\ faults \in Nat /\ Goto(c, "uncount")
               /\ subs' = [subs EXCEPT ![u].active = FALSE]
               /\ UNCHANGED <<listing, keys, bills, today, trail, calm, faults>>
  BY DEF CancelSub, At, MarketInv, MarketCarries, OfCustomer, Steady
<1>2. /\ Shaped' /\ \A d \in Calls \ {c} : call'[d] = call[d]
      /\ call'[c].at = "uncount" /\ call'[c].user = u
  BY <1>1, GotoMoves
<1>3. /\ subs' \in [Customers -> Sub]
      /\ \A v \in Customers : subs'[v].daily = subs[v].daily /\ subs'[v].day = subs[v].day
  <2> DEFINE row == [subs[u] EXCEPT !.active = FALSE]
  <2>1. row \in Sub /\ row.daily = subs[u].daily /\ row.day = subs[u].day
    <3>1. subs[u] \in Sub
      BY <1>1 DEF MarketTyped
    <3> QED
      BY <3>1, SwitchedOff
  <2>2. subs' = [subs EXCEPT ![u] = row]
    BY <1>1
  <2> HIDE DEF row
  <2> QED
    BY <1>1, <2>1, <2>2 DEF MarketTyped
<1>4. MarketTyped' /\ MarketCarries(call'[c])
  BY <1>1, <1>2, <1>3 DEF MarketTyped, MarketCarries, MarketLabels
<1>5. ASSUME calm PROVE Calmly(call[c])'
  <2>1. Calmly(call[c])
    BY <1>1, <1>5 DEF MarketInv, At
  <2>2. ASSUME NEW v \in Customers PROVE BillsAgree(call[c], v)' /\ UsesAgree(call[c], v)'
    BY <1>1, <1>2, <1>3, <2>1 DEF Calmly, BillsAgree, UsesAgree, PeriodsPaid, Billing, Pending
  <2>3. Knows(call[c])'
    BY <1>2 DEF Knows, Pending
  <2> QED
    BY <2>2, <2>3 DEF Calmly
<1> QED
  BY <1>1, <1>2, <1>4, <1>5, MarketMoves

LEMMA CountSubKeeps == ASSUME MarketInv, NEW c \in Calls, CountSub(c) PROVE MarketInv'
<1>1. PICK u : /\ u = call[c].user /\ call[c].at = "count" /\ u \in Customers /\ Shaped
               /\ Goto(c, "price") /\ MarketRests
  BY DEF CountSub, At, MarketInv, MarketCarries, OfCustomer, Steady, MarketRests
<1>2. /\ Shaped' /\ \A d \in Calls \ {c} : call'[d] = call[d]
      /\ call'[c].at = "price" /\ call'[c].user = u
  BY <1>1, GotoMoves
<1>3. MarketCarries(call'[c])
  BY <1>1, <1>2 DEF MarketCarries, MarketLabels
<1>4. \A v : /\ Billing(call[c], v) => Billing(call'[c], v)
             /\ Pending(call[c], v) => Pending(call'[c], v)
  BY <1>1, <1>2 DEF Billing, Pending
<1>5. ASSUME calm PROVE Knows(call'[c])
  <2>1. Knows(call[c])
    BY <1>1, <1>5 DEF MarketInv, At, Calmly
  <2> QED
    BY <1>1, <1>2, <2>1 DEF Knows, Pending
<1> QED
  BY <1>1, <1>2, <1>3, <1>4, <1>5, MarketGoes

LEMMA ReadPriceKeeps == ASSUME MarketInv, NEW c \in Calls, ReadPrice(c) PROVE MarketInv'
<1>1. PICK u : /\ u = call[c].user /\ call[c].at = "price" /\ u \in Customers /\ Shaped /\ MarketRests
               /\ MarketTyped /\ faults \in Nat
               /\ IF listing.monthly THEN Goto(c, "invoice") ELSE Answer(c)
  BY DEF ReadPrice, Priced, At, MarketInv, MarketCarries, OfCustomer, Steady, MarketRests, marketData
<1>2. calm => Calmly(call[c])
  BY <1>1 DEF MarketInv, At
<1>3. CASE listing.monthly
  <2>1. /\ Shaped' /\ \A d \in Calls \ {c} : call'[d] = call[d]
        /\ call'[c].at = "invoice" /\ call'[c].user = u
    BY <1>1, <1>3, GotoMoves
  <2>2. MarketCarries(call'[c])
    BY <1>1, <2>1 DEF MarketCarries, MarketLabels
  <2>3. \A v : /\ Billing(call[c], v) => Billing(call'[c], v)
               /\ Pending(call[c], v) => Pending(call'[c], v)
    BY <1>1, <2>1 DEF Billing, Pending
  <2>4. calm => Knows(call'[c])
    BY <1>1, <1>2, <1>3, <2>1 DEF Calmly, Knows, Pending
  <2> QED
    BY <1>1, <2>1, <2>2, <2>3, <2>4, MarketGoes
<1>4. CASE ~listing.monthly
  <2>1. Shaped' /\ (\A d \in Calls \ {c} : call'[d] = call[d]) /\ call'[c] = NoCall
    BY <1>1, <1>4, AnswerMoves
  <2>2. MarketTyped' /\ MarketCarries(call'[c]) /\ calm' = calm /\ faults' = faults
    BY <1>1, <2>1, NoCallKnowsNothing DEF MarketTyped, MarketRests
  <2>3. ASSUME calm PROVE Calmly(call[c])'
    <3>1. PeriodsPaid(u)
      BY <1>1, <1>2, <1>4, <2>3 DEF Calmly, Knows
    <3>2. ASSUME NEW v \in Customers PROVE BillsAgree(call[c], v)'
      <4>1. BillsAgree(call[c], v) /\ (v # u => ~Billing(call[c], v))
        BY <1>1, <1>2, <2>3 DEF Calmly, Billing
      <4>2. PeriodsPaid(v)
        BY <3>1, <4>1 DEF BillsAgree
      <4> QED
        BY <1>1, <4>1, <4>2 DEF BillsAgree, PeriodsPaid, MarketRests
    <3>3. ASSUME NEW v \in Customers PROVE UsesAgree(call[c], v)'
      BY <1>1, <1>2, <2>1, <2>3 DEF Calmly, UsesAgree, MarketRests, Pending
    <3>4. Knows(call[c])'
      BY <2>1 DEF Knows, NoCall, Pending
    <3> QED
      BY <3>2, <3>3, <3>4 DEF Calmly
  <2> QED
    BY <1>1, <2>1, <2>2, <2>3, MarketMoves
<1> QED
  BY <1>3, <1>4

LEMMA BillKeeps == ASSUME MarketInv, NEW c \in Calls, Bill(c) PROVE MarketInv'
<1>1. PICK u : /\ u = call[c].user /\ call[c].at \in {"invoice", "payout"} /\ u \in Customers
               /\ Shaped /\ MarketTyped /\ faults \in Nat
               /\ UNCHANGED <<listing, subs, keys, today, trail, calm, faults>>
               /\ \/ /\ call[c].at = "invoice" /\ Goto(c, "payout")
                     /\ bills' = [bills EXCEPT ![u].invoices = @ + 1]
                  \/ /\ call[c].at = "payout" /\ Answer(c)
                     /\ bills' = [bills EXCEPT ![u].payouts = @ + 1]
  BY DEF Bill, At, MarketInv, MarketCarries, OfCustomer, Steady
<1>2. /\ bills[u].invoices \in Nat /\ bills[u].payouts \in Nat /\ trail[u].begun \in Nat
      /\ calm => Calmly(call[c])
  BY <1>1 DEF MarketInv, At, MarketTyped, Trail
<1>3. CASE call[c].at = "invoice"
  <2>1. /\ Shaped' /\ \A d \in Calls \ {c} : call'[d] = call[d]
        /\ call'[c].at = "payout" /\ call'[c].user = u
    BY <1>1, <1>3, GotoMoves
  <2>2. bills' = [bills EXCEPT ![u].invoices = @ + 1]
    BY <1>1, <1>3
  <2>3. /\ MarketTyped' /\ bills'[u].invoices = bills[u].invoices + 1
        /\ bills'[u].payouts = bills[u].payouts
        /\ \A v \in Customers \ {u} : bills'[v] = bills[v]
    BY <1>1, <2>2 DEF MarketTyped
  <2>4. MarketCarries(call'[c])
    BY <1>1, <2>1 DEF MarketCarries, MarketLabels
  <2>5. ASSUME calm PROVE Calmly(call[c])'
    <3>1. PeriodDue(u) /\ bills[u].payouts <= bills[u].invoices
      BY <1>1, <1>2, <1>3, <2>5 DEF Calmly, Knows, BillsAgree
    <3>2. BillsAgree(call[c], u)'
      BY <1>1, <1>2, <2>1, <2>3, <3>1 DEF BillsAgree, PeriodDue, Billing
    <3>3. ASSUME NEW v \in Customers \ {u} PROVE BillsAgree(call[c], v)'
      BY <1>1, <1>2, <2>3, <2>5 DEF Calmly, BillsAgree, Billing, PeriodsPaid
    <3>4. ASSUME NEW v \in Customers PROVE UsesAgree(call[c], v)'
      BY <1>1, <1>2, <1>3, <2>5 DEF Calmly, UsesAgree, Pending
    <3>5. Knows(call[c])'
      BY <1>1, <1>2, <2>1, <2>3, <3>1 DEF Knows, PeriodDue, Pending
    <3> QED
      BY <3>2, <3>3, <3>4, <3>5 DEF Calmly
  <2> QED
    BY <1>1, <2>1, <2>3, <2>4, <2>5, MarketMoves
<1>4. CASE call[c].at = "payout"
  <2>1. Shaped' /\ (\A d \in Calls \ {c} : call'[d] = call[d]) /\ call'[c] = NoCall
    BY <1>1, <1>4, AnswerMoves
  <2>2. bills' = [bills EXCEPT ![u].payouts = @ + 1]
    BY <1>1, <1>4
  <2>3. /\ MarketTyped' /\ bills'[u].invoices = bills[u].invoices
        /\ bills'[u].payouts = bills[u].payouts + 1
        /\ \A v \in Customers \ {u} : bills'[v] = bills[v]
    BY <1>1, <2>2 DEF MarketTyped
  <2>4. MarketCarries(call'[c])
    BY <2>1, NoCallKnowsNothing
  <2>5. ASSUME calm PROVE Calmly(call[c])'
    <3>1. /\ bills[u].payouts + 1 <= bills[u].invoices /\ bills[u].invoices <= trail[u].begun
          /\ faults = 0 => bills[u].payouts + 1 = trail[u].begun
      BY <1>1, <1>2, <1>4, <2>5 DEF Calmly, Knows, BillsAgree
    <3>2. BillsAgree(call[c], u)'
      BY <1>1, <1>2, <2>3, <3>1 DEF BillsAgree, PeriodsPaid
    <3>3. ASSUME NEW v \in Customers \ {u} PROVE BillsAgree(call[c], v)'
      BY <1>1, <1>2, <2>3, <2>5 DEF Calmly, BillsAgree, Billing, PeriodsPaid
    <3>4. ASSUME NEW v \in Customers PROVE UsesAgree(call[c], v)'
      BY <1>1, <1>2, <1>4, <2>5 DEF Calmly, UsesAgree, Pending
    <3>5. Knows(call[c])'
      BY <2>1 DEF Knows, NoCall, Pending
    <3> QED
      BY <3>2, <3>3, <3>4, <3>5 DEF Calmly
  <2> QED
    BY <1>1, <2>1, <2>3, <2>4, <2>5, MarketMoves
<1> QED
  BY <1>1, <1>3, <1>4

LEMMA SubKeeps == ASSUME MarketInv, NEW c \in Calls, SubStep(c) PROVE MarketInv'
<1>1. CASE FindOnSale(c)
  <2>1. /\ call[c].at = "onSale" /\ MarketRests /\ Goto(c, "sub") /\ call[c].user \in Customers
        /\ call[c].op = "subscribe"
    BY <1>1 DEF FindOnSale, At, Steady, MarketRests, marketData, MarketInv, MarketCarries, Customers
  <2> QED
    BY <2>1, MarketGoto
<1>2. CASE UncountSub(c)
  <2>1. call[c].at = "uncount" /\ MarketRests /\ Answer(c)
    BY <1>2 DEF UncountSub, At, Steady, MarketRests
  <2> QED
    BY <2>1, MarketAnswers
<1> QED
  BY <1>1, <1>2, ServeMarketKeeps, FindSubKeeps, OpenSubKeeps, CountSubKeeps, CancelSubKeeps,
     ReadPriceKeeps, BillKeeps DEF SubStep

-----------------------------------------------------------------------------
(* The use of a key.                                                       *)

LEMMA FindByKeyKeeps == ASSUME MarketInv, NEW c \in Calls, FindByKey(c) PROVE MarketInv'
<1>1. PICK u \in Customers, l \in {"run", "reset"} :
        /\ call[c].at = "key" /\ MarketRests /\ Shaped /\ MarketTyped
        /\ subs[u].day = today => Within(subs[u].daily)
        /\ l = IF subs[u].day = today THEN "run" ELSE "reset"
        /\ call' = [call EXCEPT ![c].user = u, ![c].seen = today, ![c].at = l]
  BY DEF FindByKey, Active, At, MarketInv, Steady, MarketRests, marketData
<1> DEFINE k1 == [call[c] EXCEPT !.user = u]
           k2 == [k1 EXCEPT !.seen = today]
           k == [k2 EXCEPT !.at = l]
           e1 == [call EXCEPT ![c].user = u]
           e2 == [e1 EXCEPT ![c].seen = today]
<1>2. Shape(k) /\ k.at = l /\ k.user = u /\ k.seen = today
  BY <1>1 DEF Shaped, Shape, Fields
<1>3. call' = [call EXCEPT ![c] = k]
  <2>1. e1 = [call EXCEPT ![c] = k1] /\ e1[c] = k1 /\ e1 = [d \in Calls |-> e1[d]]
    BY <1>1 DEF Shaped
  <2>2. e2 = [call EXCEPT ![c] = k2] /\ e2[c] = k2 /\ e2 = [d \in Calls |-> e2[d]]
    <3> HIDE DEF e1, k1
    <3> QED
      BY <1>1, <2>1 DEF Shaped
  <2>3. [e2 EXCEPT ![c].at = l] = [call EXCEPT ![c] = k]
    <3> HIDE DEF e2, k2
    <3> QED
      BY <1>1, <2>2 DEF Shaped
  <2> QED
    BY <1>1, <2>3
<1> HIDE DEF k
<1>4. Shaped' /\ call'[c] = k /\ \A d \in Calls \ {c} : call'[d] = call[d]
  BY <1>1, <1>2, <1>3, CallMoves
<1>5. MarketCarries(call'[c])
  BY <1>1, <1>2, <1>4 DEF MarketCarries, MarketLabels, MarketTyped
<1>6. \A v : ~Billing(call[c], v) /\ ~Pending(call[c], v)
  BY <1>1 DEF Billing, Pending
<1>7. ASSUME calm PROVE Knows(call'[c])
  <2>1. subs[u].day <= today /\ subs[u].day \in Nat /\ today \in Nat
    BY <1>1, <1>7 DEF MarketInv, At, Calmly, UsesAgree, MarketTyped, Sub
  <2> QED
    BY <1>1, <1>2, <1>4, <2>1 DEF Knows, Within, Pending
<1> QED
  BY <1>1, <1>4, <1>5, <1>6, <1>7, MarketGoes

LEMMA ResetDayKeeps == ASSUME MarketInv, NEW c \in Calls, ResetDay(c) PROVE MarketInv'
<1>1. PICK u, date :
        /\ u = call[c].user /\ date = call[c].seen /\ call[c].at = "reset" /\ u \in Customers
        /\ date \in Nat /\ Shaped /\ MarketTyped /\ faults \in Nat /\ Goto(c, "run")
        /\ subs' = [subs EXCEPT ![u].daily = 0, ![u].day = date]
        /\ UNCHANGED <<listing, keys, bills, today, trail, calm, faults>>
  BY DEF ResetDay, At, MarketInv, MarketCarries, OfCustomer, Steady
<1>2. /\ Shaped' /\ \A d \in Calls \ {c} : call'[d] = call[d]
      /\ call'[c].at = "run" /\ call'[c].user = u /\ call'[c].seen = date
  BY <1>1, GotoMoves
<1>3. /\ subs' \in [Customers -> Sub] /\ subs'[u].daily = 0 /\ subs'[u].day = date
      /\ \A v \in Customers \ {u} : subs'[v] = subs[v]
  <2> DEFINE row == [subs[u] EXCEPT !.daily = 0, !.day = date]
  <2>1. row \in Sub /\ row.daily = 0 /\ row.day = date
    BY <1>1 DEF MarketTyped, Sub
  <2>2. subs' = [subs EXCEPT ![u] = row]
    BY <1>1 DEF MarketTyped
  <2> HIDE DEF row
  <2> QED
    BY <1>1, <2>1, <2>2 DEF MarketTyped
<1>4. MarketTyped' /\ MarketCarries(call'[c])
  BY <1>1, <1>2, <1>3 DEF MarketTyped, MarketCarries, MarketLabels
<1>5. ASSUME calm PROVE Calmly(call[c])'
  <2>1. Calmly(call[c])
    BY <1>1, <1>5 DEF MarketInv, At
  <2>2. /\ subs[u].day < date /\ date <= today /\ UsesAgree(call[c], u)
        /\ \A v \in Customers : ~Billing(call[c], v) /\ ~Pending(call[c], v)
    BY <1>1, <2>1 DEF Calmly, Knows, Billing, Pending
  <2>3. ASSUME NEW v \in Customers PROVE BillsAgree(call[c], v)'
    BY <1>1, <2>1, <2>2 DEF Calmly, BillsAgree, PeriodsPaid
  <2>4. ASSUME NEW v \in Customers \ {u} PROVE UsesAgree(call[c], v)'
    BY <1>1, <1>3, <2>1, <2>2 DEF Calmly, UsesAgree
  <2>5. UsesAgree(call[c], u)'
    <3>1. trail[u].spent = 0 /\ today \in Nat /\ subs[u].day \in Nat
      BY <1>1, <2>2 DEF UsesAgree, MarketTyped, Sub
    <3> QED
      BY <1>1, <1>3, <2>2, <3>1 DEF UsesAgree
  <2>6. Knows(call[c])'
    BY <1>1, <1>2, <1>3 DEF Knows, Pending
  <2> QED
    BY <2>3, <2>4, <2>5, <2>6 DEF Calmly
<1> QED
  BY <1>1, <1>2, <1>4, <1>5, MarketMoves

LEMMA RunAgentKeeps == ASSUME MarketInv, NEW c \in Calls, RunAgent(c) PROVE MarketInv'
<1>1. PICK u, n :
        /\ u = call[c].user /\ call[c].at = "run" /\ u \in Customers
        /\ call[c].seen \in Nat /\ Shaped /\ MarketTyped /\ faults \in Nat
        /\ trail' = [trail EXCEPT ![u].spent = n]
        /\ n = IF call[c].seen = today /\ call[c].arg = subs[u].key
               THEN trail[u].spent + 1 ELSE trail[u].spent
        /\ call' = [call EXCEPT ![c].at = "usage", ![c].todo = {"sub", "listing"}]
        /\ UNCHANGED <<listing, subs, keys, bills, today, calm, faults>>
  BY DEF RunAgent, At, MarketInv, MarketCarries, OfCustomer, Steady
<1> DEFINE k == [call[c] EXCEPT !.at = "usage", !.todo = {"sub", "listing"}]
<1>2. Shape(k) /\ k.at = "usage" /\ k.user = u /\ k.seen = call[c].seen /\ k.todo = {"sub", "listing"}
  BY <1>1 DEF Shaped, Shape, Fields
<1>3. call' = [call EXCEPT ![c] = k]
  BY <1>1 DEF Shaped
<1> HIDE DEF k
<1>4. Shaped' /\ call'[c] = k /\ \A d \in Calls \ {c} : call'[d] = call[d]
  BY <1>1, <1>2, <1>3, CallMoves
<1>5. /\ trail' \in [Customers -> Trail] /\ trail'[u].spent = n /\ trail'[u].begun = trail[u].begun
      /\ \A v \in Customers \ {u} : trail'[v] = trail[v]
  BY <1>1 DEF MarketTyped, Trail
<1>6. MarketTyped' /\ MarketCarries(call'[c])
  BY <1>1, <1>2, <1>4, <1>5 DEF MarketTyped, MarketCarries, MarketLabels
<1>7. ASSUME calm PROVE Calmly(call[c])'
  <2>1. Calmly(call[c])
    BY <1>1, <1>7 DEF MarketInv, At
  <2>2. /\ subs[u].day = call[c].seen /\ subs[u].daily < DailyLimit /\ UsesAgree(call[c], u)
        /\ \A v \in Customers : ~Billing(call[c], v) /\ ~Pending(call[c], v)
    BY <1>1, <2>1 DEF Calmly, Knows, Billing, Pending
  <2>3. ASSUME NEW v \in Customers PROVE BillsAgree(call[c], v)'
    <3>1. trail'[v].begun = trail[v].begun
      BY <1>5
    <3> QED
      BY <1>1, <2>1, <2>2, <3>1 DEF Calmly, BillsAgree, PeriodsPaid
  <2>4. ASSUME NEW v \in Customers \ {u} PROVE UsesAgree(call[c], v)'
    BY <1>1, <1>5, <2>1, <2>2 DEF Calmly, UsesAgree
  <2>5. UsesAgree(call[c], u)'
    <3>1. /\ trail[u].spent \in Nat /\ subs[u].daily \in Nat /\ today \in Nat /\ subs[u].day \in Nat
          /\ trail[u].spent <= subs[u].daily + faults
      BY <1>1, <2>2 DEF UsesAgree, MarketTyped, Trail, Sub
    <3>2. Pending(call'[c], u)
      BY <1>2, <1>4 DEF Pending
    <3> QED
      BY <1>1, <1>5, <2>2, <3>1, <3>2 DEF UsesAgree, Pending
  <2>6. Knows(call[c])'
    BY <1>1, <1>2, <1>4, <2>2 DEF Knows, Pending
  <2> QED
    BY <2>3, <2>4, <2>5, <2>6 DEF Calmly
<1> QED
  BY <1>1, <1>4, <1>6, <1>7, MarketMoves

LEMMA RecordUseKeeps ==
  ASSUME MarketInv, NEW c \in Calls, NEW w \in {"sub", "listing"}, RecordUse(c, w)
  PROVE  MarketInv'
<1>1. PICK u :
        /\ u = call[c].user /\ call[c].at = "usage" /\ u \in Customers /\ w \in call[c].todo
        /\ call[c].seen \in Nat /\ Shaped /\ MarketTyped /\ faults \in Nat
        /\ IF w = "sub" THEN subs' = [subs EXCEPT ![u].daily = @ + 1, ![u].total = @ + 1]
           ELSE UNCHANGED subs
        /\ IF call[c].todo = {w} THEN Answer(c) ELSE call' = [call EXCEPT ![c].todo = @ \ {w}]
        /\ UNCHANGED <<listing, keys, bills, today, trail, calm, faults>>
  BY DEF RecordUse, At, MarketInv, MarketCarries, OfCustomer, Steady
<1>2. /\ Shaped' /\ \A d \in Calls \ {c} : call'[d] = call[d]
      /\ \/ call'[c] = NoCall /\ call[c].todo = {w}
         \/ /\ call'[c].at = "usage" /\ call'[c].user = u /\ call'[c].seen = call[c].seen
            /\ call'[c].todo = call[c].todo \ {w}
  <2>1. CASE call[c].todo = {w}
    BY <1>1, <2>1, AnswerMoves
  <2>2. CASE call[c].todo # {w}
    <3> DEFINE k == [call[c] EXCEPT !.todo = @ \ {w}]
    <3>1. /\ Shape(k) /\ k.at = "usage" /\ k.user = u /\ k.seen = call[c].seen
          /\ k.todo = call[c].todo \ {w}
      BY <1>1 DEF Shaped, Shape, Fields
    <3>2. call' = [call EXCEPT ![c] = k]
      BY <1>1, <2>2
    <3> HIDE DEF k
    <3> QED
      BY <1>1, <3>1, <3>2, CallMoves
  <2> QED
    BY <2>1, <2>2
<1>3. MarketCarries(call'[c])
  <2>1. CASE call'[c] = NoCall
    BY <2>1, NoCallKnowsNothing
  <2>2. CASE call'[c].at = "usage" /\ call'[c].user = u /\ call'[c].seen = call[c].seen
    BY <1>1, <2>2 DEF MarketCarries, MarketLabels
  <2> QED
    BY <1>2, <2>1, <2>2
<1>4. \A v : ~Billing(call[c], v) /\ ~Billing(call'[c], v)
  BY <1>1, <1>2, NoCallKnowsNothing DEF Billing
<1>5. \A v : w # "sub" => (Pending(call[c], v) => Pending(call'[c], v))
  BY <1>1, <1>2 DEF Pending
<1>6. CASE w = "listing"
  <2>1. MarketRests
    BY <1>1, <1>6 DEF MarketRests
  <2>2. calm => Knows(call[c])
    BY <1>1 DEF MarketInv, At, Calmly
  <2>3. calm => Knows(call'[c])
    <3>1. CASE call'[c] = NoCall
      BY <3>1, NoCallKnowsNothing
    <3>2. CASE call'[c].at = "usage" /\ call'[c].user = u /\ call'[c].todo = call[c].todo \ {w}
      BY <1>1, <2>2, <3>2 DEF Knows, Pending
    <3> QED
      BY <1>2, <3>1, <3>2
  <2> QED
    BY <1>1, <1>2, <1>3, <1>4, <1>5, <1>6, <2>1, <2>3, MarketGoes
<1>7. CASE w = "sub"
  <2>1. /\ subs' \in [Customers -> Sub] /\ subs'[u].daily = subs[u].daily + 1
        /\ subs'[u].day = subs[u].day /\ \A v \in Customers \ {u} : subs'[v] = subs[v]
    <3> DEFINE row == [subs[u] EXCEPT !.daily = @ + 1, !.total = @ + 1]
    <3>0. subs[u] \in Sub /\ subs[u].daily + 1 \in Nat /\ subs[u].total + 1 \in Nat
      BY <1>1 DEF MarketTyped, Sub
    <3>1. row \in Sub /\ row.daily = subs[u].daily + 1 /\ row.day = subs[u].day
      BY <3>0 DEF Sub
    <3>2. subs' = [subs EXCEPT ![u] = row]
      BY <1>1, <1>7 DEF MarketTyped
    <3> HIDE DEF row
    <3> QED
      BY <1>1, <3>1, <3>2 DEF MarketTyped
  <2>2. MarketTyped'
    BY <1>1, <2>1 DEF MarketTyped
  <2>3. ASSUME calm PROVE Calmly(call[c])'
    <3>1. Calmly(call[c])
      BY <1>1, <2>3 DEF MarketInv, At
    <3>2. subs[u].daily < DailyLimit /\ UsesAgree(call[c], u)
      BY <1>1, <1>7, <3>1 DEF Calmly, Knows, Pending
    <3>3. ASSUME NEW v \in Customers PROVE BillsAgree(call[c], v)'
      BY <1>1, <1>4, <3>1 DEF Calmly, BillsAgree, PeriodsPaid
    <3>4. ASSUME NEW v \in Customers \ {u} PROVE UsesAgree(call[c], v)'
      BY <1>1, <2>1, <3>1 DEF Calmly, UsesAgree, Pending
    <3>5. UsesAgree(call[c], u)'
      <4>1. /\ trail[u].spent \in Nat /\ subs[u].daily \in Nat
            /\ subs[u].daily <= DailyLimit /\ subs[u].day <= today
            /\ subs[u].day # today => trail[u].spent = 0
            /\ trail[u].spent <= subs[u].daily + faults + 1
        BY <1>1, <3>2 DEF UsesAgree, MarketTyped, Trail, Sub
      <4> QED
        BY <1>1, <2>1, <3>2, <4>1 DEF UsesAgree
    <3>6. Knows(call[c])'
      <4>1. call'[c].at \in {"idle", "usage"} /\ ~Pending(call'[c], call'[c].user)
        BY <1>2, <1>7, NoCallKnowsNothing DEF NoCall, Pending
      <4> QED
        BY <4>1 DEF Knows, Pending
    <3> QED
      BY <3>3, <3>4, <3>5, <3>6 DEF Calmly
  <2> QED
    BY <1>1, <1>2, <1>3, <2>2, <2>3, MarketMoves
<1> QED
  BY <1>6, <1>7

LEMMA UseKeeps == ASSUME MarketInv, NEW c \in Calls, UseStep(c) PROVE MarketInv'
  BY ServeMarketKeeps, FindByKeyKeeps, ResetDayKeeps, RunAgentKeeps, RecordUseKeeps DEF UseStep

-----------------------------------------------------------------------------
(* The reviews, a failure, a midnight.                                     *)

LEMMA ReviewKeeps == ASSUME MarketInv, NEW c \in Calls, ReviewStep(c) PROVE MarketInv'
<1>1. CASE FindReview(c)
  <2>1. call[c].at = "mine" /\ MarketRests /\ Goto(c, "delete") /\ call[c].user \in Customers
    BY <1>1 DEF FindReview, At, Steady, MarketRests, marketData, MarketInv, MarketCarries, OfCustomer
  <2> QED
    BY <2>1, MarketGoto
<1>2. CASE WriteReview(c)
  <2>1. /\ call[c].at \in {"upsert", "delete"} /\ MarketRests /\ Goto(c, "aggregate")
    BY <1>2 DEF WriteReview, At, Steady, MarketRests
  <2> QED
    BY <2>1, MarketGoto DEF OfCustomer
<1>3. CASE ReadRating(c)
  <2>1. call[c].at = "aggregate" /\ MarketRests /\ Shaped /\ Note(c, "rate", Aggregate(reviews))
    BY <1>3 DEF ReadRating, At, Steady, MarketRests, marketData, MarketInv
  <2>2. /\ Shaped' /\ (\A d \in Calls \ {c} : call'[d] = call[d]) /\ call'[c].at = "rate"
    BY <2>1, NoteMoves
  <2>3. MarketCarries(call'[c]) /\ Knows(call'[c])
    BY <2>2 DEF MarketCarries, MarketLabels, OfCustomer, Knows, Pending
  <2>4. \A v : ~Billing(call[c], v) /\ ~Pending(call[c], v)
    BY <2>1 DEF Billing, Pending
  <2> QED
    BY <2>1, <2>2, <2>3, <2>4, MarketGoes
<1>4. CASE WriteRating(c)
  <2>1. call[c].at = "rate" /\ MarketRests /\ Answer(c)
    BY <1>4 DEF WriteRating, At, Steady, MarketRests
  <2> QED
    BY <2>1, MarketAnswers
<1> QED
  BY <1>1, <1>2, <1>3, <1>4, ServeMarketKeeps DEF ReviewStep

LEMMA BreakMarketKeeps == ASSUME MarketInv, NEW c \in Calls, BreakMarket(c) PROVE MarketInv'
<1>1. /\ call[c].at # "idle" /\ Answer(c) /\ Shaped /\ MarketTyped /\ faults \in Nat
      /\ faults' = faults + 1 /\ UNCHANGED <<listing, subs, keys, bills, today, trail, calm>>
  BY DEF BreakMarket, Break, At, MarketInv, marketData
<1>2. Shaped' /\ (\A d \in Calls \ {c} : call'[d] = call[d]) /\ call'[c] = NoCall
  BY <1>1, AnswerMoves
<1>3. MarketTyped' /\ MarketCarries(call'[c]) /\ faults' \in Nat /\ faults' # 0
  BY <1>1, <1>2, NoCallKnowsNothing DEF MarketTyped
<1>4. ASSUME calm PROVE Calmly(call[c])'
  <2>1. Calmly(call[c])
    BY <1>1, <1>4 DEF MarketInv, At
  <2>2. ASSUME NEW v \in Customers PROVE BillsAgree(call[c], v)'
    BY <1>1, <1>3, <2>1 DEF Calmly, BillsAgree, PeriodsPaid
  <2>3. ASSUME NEW v \in Customers PROVE UsesAgree(call[c], v)'
    <3>1. /\ trail[v].spent \in Nat /\ subs[v].daily \in Nat /\ UsesAgree(call[c], v)
      BY <1>1, <2>1 DEF Calmly, MarketTyped, Trail, Sub
    <3> QED
      BY <1>1, <3>1 DEF UsesAgree
  <2>4. Knows(call[c])'
    BY <1>2 DEF Knows, NoCall, Pending
  <2> QED
    BY <2>2, <2>3, <2>4 DEF Calmly
<1> QED
  BY <1>1, <1>2, <1>3, <1>4, MarketMoves

LEMMA MidnightKeeps == ASSUME MarketInv, Midnight PROVE MarketInv'
<1>1. /\ today' = today + 1 /\ trail' = [u \in Customers |-> [trail[u] EXCEPT !.spent = 0]]
      /\ UNCHANGED <<call, calm, faults, listing, subs, keys, bills>>
      /\ MarketTyped /\ today \in Nat /\ faults \in Nat
  BY DEF Midnight, handlerVars, MarketInv, MarketTyped
<1>2. /\ trail' \in [Customers -> Trail]
      /\ \A u \in Customers : trail'[u].spent = 0 /\ trail'[u].begun = trail[u].begun
  BY <1>1 DEF MarketTyped, Trail
<1>3. MarketTyped'
  BY <1>1, <1>2 DEF MarketTyped
<1>4. ASSUME NEW k, Calmly(k), MarketCarries(k) PROVE Calmly(k)'
  <2>1. ASSUME NEW v \in Customers PROVE BillsAgree(k, v)'
    BY <1>1, <1>2, <1>4, <2>1 DEF Calmly, BillsAgree, PeriodsPaid, Billing
  <2>2. ASSUME NEW v \in Customers PROVE UsesAgree(k, v)'
    <3>1. /\ subs[v].daily \in Nat /\ subs[v].day \in Nat /\ subs[v].daily <= DailyLimit
          /\ subs[v].day <= today
      BY <1>1, <1>4 DEF Calmly, UsesAgree, MarketTyped, Sub
    <3> QED
      BY <1>1, <1>2, <3>1 DEF UsesAgree
  <2>3. Knows(k)'
    <3>1. k.at \in {"count", "price", "invoice", "payout"} => k.user \in Customers
      BY <1>4 DEF MarketCarries, OfCustomer
    <3>2. k.at = "reset" => k.seen \in Nat
      BY <1>4 DEF MarketCarries
    <3> QED
      BY <1>1, <1>2, <1>4, <3>1, <3>2 DEF Calmly, Knows, PeriodDue, PeriodsPaid, Pending
  <2> QED
    BY <2>1, <2>2, <2>3 DEF Calmly
<1>5. ASSUME calm
      PROVE  /\ \A c \in Calls : ~At(c, "idle")' => Calmly(call[c])'
             /\ Quiet' => Calmly(NoCall)'
  <2>1. ASSUME NEW c \in Calls, ~At(c, "idle")' PROVE Calmly(call[c])'
    <3>1. Calmly(call[c]) /\ MarketCarries(call[c]) /\ call'[c] = call[c]
      BY <1>1, <1>5, <2>1 DEF MarketInv, At
    <3>2. PICK k : k = call[c]
      OBVIOUS
    <3>3. Calmly(k)'
      BY <1>4, <3>1, <3>2
    <3> QED
      BY <3>1, <3>2, <3>3 DEF Calmly, Knows, BillsAgree, UsesAgree, Billing, Pending, PeriodDue, PeriodsPaid
  <2>2. ASSUME Quiet' PROVE Calmly(NoCall)'
    <3>1. Calmly(NoCall) /\ MarketCarries(NoCall)
      BY <1>1, <1>5, <2>2, NoCallKnowsNothing DEF MarketInv, Quiet, At
    <3>2. PICK k : k = NoCall
      OBVIOUS
    <3>3. Calmly(k)'
      BY <1>4, <3>1, <3>2
    <3> QED
      BY <3>2, <3>3
  <2> QED
    BY <2>1, <2>2
<1>6. Shaped' /\ Alone' /\ \A c \in Calls : MarketCarries(call[c])'
  BY <1>1 DEF MarketInv, Shaped, Alone, At, MarketCarries
<1> QED
  BY <1>1, <1>3, <1>5, <1>6 DEF MarketInv

-----------------------------------------------------------------------------
LEMMA MarketInitOK == MarketInit => MarketInv
<1> SUFFICES ASSUME MarketInit PROVE MarketInv
  OBVIOUS
<1>1. Shaped /\ Alone /\ (\A c \in Calls : call[c] = NoCall) /\ faults = 0 /\ calm = TRUE
  BY ShapedAtFirst, AloneAtFirst DEF MarketInit, HandlersInit
<1>2. PICK already \in SUBSET Customers :
        /\ keys = Cardinality(already)
        /\ \E rank \in [already -> 1 .. Cardinality(already)] :
             subs = [u \in Customers |->
                 IF u \in already THEN [NoSub EXCEPT !.made = TRUE, !.active = TRUE, !.key = rank[u]]
                 ELSE NoSub]
  BY DEF MarketInit
<1>3. /\ today = 0 /\ bills = [u \in Customers |-> [invoices |-> 0, payouts |-> 0]]
      /\ trail = [u \in Customers |-> NoTrail]
  BY DEF MarketInit
<1>4. keys \in Nat
  <2>1. IsFiniteSet(already)
    BY FS_Subset DEF Customers
  <2> QED
    BY <1>2, <2>1, FS_CardinalityType
<1>5. subs \in [Customers -> Sub] /\ \A u \in Customers : subs[u].daily = 0 /\ subs[u].day = 0
  <2>1. PICK rank \in [already -> 1 .. Cardinality(already)] :
          subs = [u \in Customers |->
                 IF u \in already THEN [NoSub EXCEPT !.made = TRUE, !.active = TRUE, !.key = rank[u]]
                 ELSE NoSub]
    BY <1>2
  <2>2. \A u \in already : rank[u] \in Nat
    <3>1. \A u \in already : rank[u] \in 1 .. Cardinality(already)
      OBVIOUS
    <3>2. Cardinality(already) \in Nat
      BY <1>2, <1>4
    <3> QED
      BY <3>1, <3>2
  <2> DEFINE made(u) == [NoSub EXCEPT !.made = TRUE, !.active = TRUE, !.key = rank[u]]
  <2>3. \A u \in already : made(u) \in Sub /\ made(u).daily = 0 /\ made(u).day = 0
    BY <2>2 DEF NoSub, Sub
  <2>4. NoSub \in Sub /\ NoSub.daily = 0 /\ NoSub.day = 0
    BY DEF NoSub, Sub
  <2>5. subs = [u \in Customers |-> IF u \in already THEN made(u) ELSE NoSub]
    BY <2>1
  <2> HIDE DEF made
  <2> QED
    BY <2>3, <2>4, <2>5
<1>6. MarketTyped
  BY <1>3, <1>4, <1>5 DEF MarketTyped, NoTrail, Trail
<1>7. ASSUME NEW u \in Customers PROVE BillsAgree(NoCall, u) /\ UsesAgree(NoCall, u)
  BY <1>1, <1>3, <1>5 DEF BillsAgree, UsesAgree, PeriodsPaid, NoTrail
<1>8. Calmly(NoCall)
  BY <1>7, NoCallKnowsNothing DEF Calmly
<1>9. \A c \in Calls : MarketCarries(call[c]) /\ At(c, "idle")
  BY <1>1, NoCallKnowsNothing DEF At, NoCall
<1> QED
  BY <1>1, <1>6, <1>8, <1>9 DEF MarketInv

LEMMA MarketStep == MarketInv /\ [MarketNext]_marketVars => MarketInv'
<1> SUFFICES ASSUME MarketInv, [MarketNext]_marketVars PROVE MarketInv'
  OBVIOUS
<1>1. ASSUME NEW c \in Calls, RefuseMarket(c) PROVE MarketInv'
  <2>1. /\ call[c].at \notin {"idle", "count", "price", "invoice", "payout", "usage"}
        /\ MarketRests /\ Answer(c)
    BY <1>1 DEF RefuseMarket, Steady, MarketRests, marketData
  <2> QED
    BY <2>1, MarketAnswers
<1>2. CASE UNCHANGED marketVars
  <2>1. UNCHANGED <<call, calm, faults, listing, subs, keys, bills, today, trail>>
    BY <1>2 DEF marketVars, marketData, handlerVars
  <2>2. Shaped' /\ Alone' /\ (\A c \in Calls : MarketCarries(call[c])') /\ MarketTyped'
    BY <2>1 DEF MarketInv, Shaped, Alone, At, MarketCarries, MarketTyped
  <2>3. ASSUME calm
        PROVE  /\ \A c \in Calls : ~At(c, "idle")' => Calmly(call[c])'
               /\ Quiet' => Calmly(NoCall)'
    BY <2>1, <2>3 DEF MarketInv, At, Quiet, Calmly, Knows, BillsAgree, UsesAgree, Billing, Pending, PeriodDue, PeriodsPaid
  <2> QED
    BY <2>1, <2>2, <2>3 DEF MarketInv
<1> QED
  BY <1>1, <1>2, ListingKeeps, SubKeeps, UseKeeps, ReviewKeeps, BreakMarketKeeps, MidnightKeeps DEF MarketNext

(* While calls do not overlap, useApi lets no subscriber run the agent     *)
(* more often in a day than the listing's limit, for every limit, but for  *)
(* one run for each failure that lost the count.                           *)
THEOREM KeysAreLimited == MarketSpec => []KeysWithinDailyLimit
<1>1. MarketInv => KeysWithinDailyLimit
  <2> SUFFICES ASSUME MarketInv, calm, Quiet, NEW u \in Customers
               PROVE  trail[u].spent <= DailyLimit + faults
    BY DEF KeysWithinDailyLimit
  <2>1. UsesAgree(NoCall, u) /\ ~Pending(NoCall, u)
    BY NoCallKnowsNothing DEF MarketInv, Calmly
  <2>2. trail[u].spent \in Nat /\ subs[u].daily \in Nat /\ faults \in Nat
    BY DEF MarketInv, MarketTyped, Trail, Sub
  <2> QED
    BY <2>1, <2>2 DEF UsesAgree
<1> QED
  BY <1>1, MarketInitOK, MarketStep, PTL DEF MarketSpec

(* While calls do not overlap, the marketplace's subscribe bills a period  *)
(* at most once and pays the seller nothing that was not billed; and as    *)
(* long as no await fails every monthly period is billed and paid out.     *)
THEOREM PeriodsAreBilledOnce == MarketSpec => []PeriodsBilledOnce
<1>1. MarketInv => PeriodsBilledOnce
  <2> SUFFICES ASSUME MarketInv, calm, NEW u \in Customers
               PROVE  /\ bills[u].payouts <= bills[u].invoices
                      /\ bills[u].invoices <= trail[u].begun
                      /\ Sequential => bills[u].payouts = trail[u].begun
    BY DEF PeriodsBilledOnce
  <2>1. CASE Quiet
    BY <2>1, NoCallKnowsNothing DEF MarketInv, Calmly, BillsAgree, PeriodsPaid, Sequential
  <2>2. CASE ~Quiet
    BY <2>2 DEF MarketInv, Quiet, Calmly, BillsAgree, Sequential
  <2> QED
    BY <2>1, <2>2
<1> QED
  BY <1>1, MarketInitOK, MarketStep, PTL DEF MarketSpec

-----------------------------------------------------------------------------
(* The counters of the listing and the rows they count.                    *)

(* A row is made before it is active or used, and is never unmade.         *)
MadeFirst ==
  /\ \A u \in Customers : ~subs[u].made => ~subs[u].active /\ subs[u].total = 0
  /\ \A c \in Calls : call[c].at \in {"reset", "run", "usage"} => subs[call[c].user].made

StatsShaped ==
  /\ stats = [subscribers |-> stats.subscribers, runs |-> stats.runs, rating |-> stats.rating]
  /\ stats.subscribers \in Int /\ stats.runs \in Nat
  /\ IsFiniteSet(Units(Uses)) /\ IsFiniteSet(Units(Renewals))

UsesCounted == stats.runs + InFlight("listing") = SumOver(Uses) + InFlight("sub")

(* What the counters lack while k is the only call, and none has failed.   *)
Ahead(k) == IF k.at = "count" THEN -1 ELSE IF k.at = "uncount" THEN 1 ELSE 0

RowsCounted(k) ==
  /\ k.at \notin {"aggregate", "rate"} => stats.rating = Aggregate(reviews)
  /\ k.at = "rate" => k.seen = Aggregate(reviews)
  /\ k.at = "cancel" => subs[k.user].active
  /\ stats.subscribers + SumOver(Renewals) = Cardinality(Active) + Ahead(k)

StatsInv ==
  /\ MadeFirst /\ StatsShaped
  /\ faults = 0 => UsesCounted
  /\ calm /\ faults = 0 => /\ \A c \in Calls : ~At(c, "idle") => RowsCounted(call[c])
                           /\ Quiet => RowsCounted(NoCall)

(* A sum that one customer adds to.                                        *)
LEMMA SumOfNothing ==
  ASSUME NEW f, \A u \in Customers : f[u] = 0
  PROVE  Units(f) = {} /\ IsFiniteSet(Units(f)) /\ SumOver(f) = 0
<1>1. Units(f) = {}
  BY DEF Units
<1> QED
  BY <1>1, FS_EmptySet DEF SumOver

LEMMA SumGrows ==
  ASSUME NEW f \in [Customers -> Nat], NEW g, NEW u \in Customers, IsFiniteSet(Units(f)),
         g[u] = f[u] + 1, \A v \in Customers \ {u} : g[v] = f[v]
  PROVE  IsFiniteSet(Units(g)) /\ SumOver(g) = SumOver(f) + 1
<1>0. f[u] \in Nat
  OBVIOUS
<1>1. <<u, f[u] + 1>> \notin Units(f)
  BY <1>0 DEF Units
<1>2. Units(g) = Units(f) \cup {<<u, f[u] + 1>>}
  <2>1. 1 .. g[u] = (1 .. f[u]) \cup {f[u] + 1}
    BY <1>0
  <2>2. ASSUME NEW x PROVE x \in Units(g) <=> x \in Units(f) \/ x = <<u, f[u] + 1>>
    <3>1. x \in Units(g) <=> \E v \in Customers : x \in {v} \X (1 .. g[v])
      BY DEF Units
    <3>2. x \in Units(f) <=> \E v \in Customers : x \in {v} \X (1 .. f[v])
      BY DEF Units
    <3>3. x \in {u} \X (1 .. g[u]) <=> x \in {u} \X (1 .. f[u]) \/ x = <<u, f[u] + 1>>
      BY <2>1
    <3> QED
      BY <3>1, <3>2, <3>3
  <2> QED
    BY <2>2
<1>3. PICK S : S = Units(f) /\ IsFiniteSet(S) /\ <<u, f[u] + 1>> \notin S
  BY <1>1
<1>4. IsFiniteSet(S \cup {<<u, f[u] + 1>>}) /\ Cardinality(S \cup {<<u, f[u] + 1>>}) = Cardinality(S) + 1
  BY <1>3, FS_AddElement
<1> QED
  BY <1>2, <1>3, <1>4 DEF SumOver

LEMMA SumSame ==
  ASSUME NEW f, NEW g, \A v \in Customers : g[v] = f[v]
  PROVE  Units(g) = Units(f) /\ SumOver(g) = SumOver(f)
<1>1. Units(g) = Units(f)
  BY DEF Units
<1> QED
  BY <1>1 DEF SumOver

LEMMA SumsAreNat ==
  ASSUME StatsShaped
  PROVE  SumOver(Uses) \in Nat /\ SumOver(Renewals) \in Nat
  BY FS_CardinalityType DEF StatsShaped, SumOver

LEMMA ActiveFinite == IsFiniteSet(Active) /\ Cardinality(Active) \in Nat
<1>1. Active \subseteq Users /\ IsFiniteSet(Users)
  BY DEF Active, Customers
<1> QED
  BY <1>1, FS_Subset, FS_CardinalityType

(* Any step of one call.                                                   *)
LEMMA StatsMoves ==
  ASSUME MarketInv, MarketInv', StatsInv, NEW c \in Calls,
         \A d \in Calls \ {c} : call'[d] = call[d],
         call[c].at # "idle", calm' = calm, faults' = 0 => faults = 0,
         \A u \in Customers : subs[u].made => subs'[u].made,
         \A u \in Customers : ~subs'[u].made => ~subs'[u].active /\ subs'[u].total = 0,
         call'[c].at \in {"reset", "run", "usage"} => subs'[call'[c].user].made,
         StatsShaped', faults' = 0 => UsesCounted',
         calm /\ faults = 0 /\ faults' = 0 /\ RowsCounted(call[c]) => RowsCounted(call[c])'
  PROVE  StatsInv'
<1>1. MadeFirst'
  <2>1. ASSUME NEW d \in Calls \ {c}, call'[d].at \in {"reset", "run", "usage"}
        PROVE  subs'[call'[d].user].made
    <3>1. call'[d] = call[d] /\ call[d].user \in Customers
      BY <2>1 DEF MarketInv, MarketCarries, OfCustomer
    <3> QED
      BY <2>1, <3>1 DEF StatsInv, MadeFirst
  <2> QED
    BY <2>1 DEF MadeFirst
<1>2. ASSUME calm', faults' = 0
      PROVE  /\ \A d \in Calls : ~At(d, "idle")' => RowsCounted(call[d])'
             /\ Quiet' => RowsCounted(NoCall)'
  <2>1. RowsCounted(call[c])'
    BY <1>2 DEF StatsInv, At
  <2>2. \A d \in Calls \ {c} : call'[d].at = "idle"
    BY <1>2 DEF MarketInv, Alone, At
  <2>3. ASSUME NEW d \in Calls, ~At(d, "idle")' PROVE RowsCounted(call[d])'
    <3>1. d = c
      BY <2>2, <2>3 DEF At
    <3> QED
      BY <2>1, <3>1
  <2>4. ASSUME Quiet' PROVE RowsCounted(NoCall)'
    <3>1. call'[c] = NoCall
      BY <2>4 DEF Quiet, At, MarketInv, MarketCarries
    <3> QED
      BY <2>1, <3>1 DEF RowsCounted, NoCall, Ahead
  <2> QED
    BY <2>3, <2>4
<1> QED
  BY <1>1, <1>2 DEF StatsInv

(* A step that runs nothing leaves the counts of runs as they are.         *)
LEMMA NoUse ==
  ASSUME StatsInv, NEW c \in Calls, \A d \in Calls \ {c} : call'[d] = call[d],
         call[c].at # "usage", call'[c].at # "usage", faults' = 0 => faults = 0,
         \A u \in Customers : subs'[u].total = subs[u].total, stats'.runs = stats.runs
  PROVE  /\ Units(Uses') = Units(Uses) /\ SumOver(Uses') = SumOver(Uses)
         /\ faults' = 0 => UsesCounted'
<1>1. \A v \in Customers : Uses'[v] = Uses[v]
  BY DEF Uses
<1>2. Units(Uses') = Units(Uses) /\ SumOver(Uses') = SumOver(Uses)
  BY <1>1, SumSame
<1>3. Adding("sub")' = Adding("sub") /\ Adding("listing")' = Adding("listing")
  BY DEF Adding, At
<1> QED
  BY <1>2, <1>3 DEF StatsInv, UsesCounted, InFlight

(* A step that leaves the rows and the counters alone.                     *)
RowsRest ==
  /\ stats' = stats /\ reviews' = reviews /\ calm' = calm /\ faults' = faults
  /\ \A u \in Customers : /\ subs'[u].made = subs[u].made /\ subs'[u].total = subs[u].total
                          /\ subs'[u].active = subs[u].active
                          /\ trail'[u].renewed = trail[u].renewed

LEMMA RestingRows ==
  ASSUME StatsInv, RowsRest
  PROVE  /\ SumOver(Renewals') = SumOver(Renewals) /\ Active' = Active
         /\ Units(Uses') = Units(Uses) /\ SumOver(Uses') = SumOver(Uses) /\ StatsShaped'
<1>1. \A v \in Customers : Renewals'[v] = Renewals[v] /\ Uses'[v] = Uses[v]
  BY DEF RowsRest, Renewals, Uses
<1>2. /\ Units(Renewals') = Units(Renewals) /\ SumOver(Renewals') = SumOver(Renewals)
      /\ Units(Uses') = Units(Uses) /\ SumOver(Uses') = SumOver(Uses)
  BY <1>1, SumSame
<1>3. Active' = Active
  BY DEF RowsRest, Active
<1> QED
  BY <1>2, <1>3 DEF StatsInv, StatsShaped, RowsRest

LEMMA StatsRest ==
  ASSUME MarketInv, MarketInv', StatsInv, NEW c \in Calls, RowsRest,
         \A d \in Calls \ {c} : call'[d] = call[d],
         call[c].at \notin {"idle", "usage", "count", "uncount"}, call'[c].at # "usage",
         call'[c].at \notin {"count", "uncount", "aggregate"},
         call[c].at \in {"aggregate", "rate"} => call'[c].at = "rate" /\ call'[c].seen = Aggregate(reviews),
         call'[c].at = "rate" => call[c].at = "aggregate",
         call'[c].at = "cancel" => subs[call'[c].user].active /\ call'[c].user \in Customers,
         call'[c].at \in {"reset", "run"} =>
           subs[call'[c].user].made /\ call'[c].user \in Customers
  PROVE  StatsInv'
<1>1. /\ SumOver(Renewals') = SumOver(Renewals) /\ Active' = Active /\ StatsShaped'
  BY RestingRows
<1>2. faults' = 0 => UsesCounted'
  BY NoUse DEF RowsRest
<1>3. Aggregate(reviews)' = Aggregate(reviews)
  BY DEF RowsRest
<1>4. ASSUME RowsCounted(call[c]) PROVE RowsCounted(call[c])'
  BY <1>1, <1>3, <1>4 DEF RowsCounted, RowsRest, Ahead
<1>5. \A u \in Customers : ~subs'[u].made => ~subs'[u].active /\ subs'[u].total = 0
  BY DEF RowsRest, StatsInv, MadeFirst
<1> QED
  BY <1>1, <1>2, <1>4, <1>5, StatsMoves DEF RowsRest

LEMMA BeginCounts ==
  ASSUME MarketInv, MarketInv', StatsInv, NEW c \in Calls,
         ServeListing(c) \/ ServeSubscription(c) \/ ServeUse(c) \/ ServeReview(c)
  PROVE  StatsInv'
<1>1. /\ UNCHANGED marketData
      /\ \E op, u, x, l : Begin(c, op, u, x, l) /\ l \in {"listing", "onSale", "sub", "key", "mine"}
  BY DEF ServeListing, ServeSubscription, ServeUse, ServeReview
<1>2. PICK op, u, x, l : Begin(c, op, u, x, l) /\ l \in {"listing", "onSale", "sub", "key", "mine"}
  BY <1>1
<1>3. /\ (\A d \in Calls \ {c} : call'[d] = call[d]) /\ call[c].at = "idle" /\ call'[c].at = l
      /\ faults' = faults /\ calm' = (calm /\ \A d \in Calls : At(d, "idle"))
  BY <1>2, BeginMoves DEF MarketInv, At
<1>4. UNCHANGED <<subs, trail, reviews, stats>>
  BY <1>1 DEF marketData
<1>5. Uses' = Uses /\ Renewals' = Renewals /\ Active' = Active /\ StatsShaped'
  BY <1>4 DEF Uses, Renewals, Active, StatsInv, StatsShaped
<1>6. faults' = 0 => UsesCounted'
  BY <1>2, <1>3, <1>4, NoUse
<1>7. MadeFirst'
  <2>1. \A d \in Calls \ {c} : call'[d].at \in {"reset", "run", "usage"} => subs'[call'[d].user].made
    BY <1>3, <1>4 DEF StatsInv, MadeFirst
  <2> QED
    BY <1>2, <1>3, <1>4, <2>1 DEF StatsInv, MadeFirst
<1>8. ASSUME calm', faults' = 0 PROVE \A d \in Calls : ~At(d, "idle")' => RowsCounted(call[d])'
  <2>1. RowsCounted(NoCall)
    BY <1>3, <1>8 DEF StatsInv, Quiet
  <2>2. RowsCounted(call[c])'
    BY <1>2, <1>3, <1>4, <1>5, <2>1 DEF RowsCounted, Ahead, NoCall
  <2>3. \A d \in Calls : ~At(d, "idle")' => d = c
    BY <1>3, <1>8 DEF At
  <2> QED
    BY <2>2, <2>3
<1>9. ~Quiet'
  BY <1>2, <1>3 DEF Quiet, At
<1> QED
  BY <1>5, <1>6, <1>7, <1>8, <1>9 DEF StatsInv

(* The calls that only read, and those that write elsewhere.               *)
LEMMA ReadCounts ==
  ASSUME MarketInv, MarketInv', StatsInv, NEW c \in Calls,
         \/ FindListing(c) \/ CheckAgent(c) \/ WriteListing(c) \/ FindOnSale(c) \/ FindSub(c)
         \/ ReadPrice(c) \/ Bill(c) \/ FindReview(c) \/ RefuseMarket(c)
  PROVE  StatsInv'
<1>1. RowsRest
  BY DEF RowsRest, FindListing, CheckAgent, WriteListing, FindOnSale, FindSub, ReadPrice, Bill,
     FindReview, RefuseMarket, Steady, marketData
<1>2. call[c].at \in {"listing", "agent", "write", "onSale", "sub", "create", "key", "mine", "delete",
                      "price", "invoice", "payout"}
  BY DEF FindListing, CheckAgent, WriteListing, FindOnSale, FindSub, ReadPrice, Bill,
     FindReview, RefuseMarket, At
<1>3. \/ Answer(c)
      \/ \E l \in {"agent", "write", "sub", "invoice", "payout", "delete"} : Goto(c, l)
      \/ FindSub(c)
  BY DEF FindListing, CheckAgent, WriteListing, FindOnSale, ReadPrice, Bill, FindReview,
     RefuseMarket
<1>4. Shaped
  BY DEF MarketInv
<1>5. CASE Answer(c)
  <2>1. /\ \A d \in Calls \ {c} : call'[d] = call[d]
        /\ call'[c].at = "idle"
    BY <1>4, <1>5, AnswerMoves
  <2> QED
    BY <1>1, <1>2, <2>1, StatsRest
<1>6. CASE \E l \in {"agent", "write", "sub", "invoice", "payout", "delete"} : Goto(c, l)
  <2>1. PICK l \in {"agent", "write", "sub", "invoice", "payout", "delete"} : Goto(c, l)
    BY <1>6
  <2>2. /\ \A d \in Calls \ {c} : call'[d] = call[d]
        /\ call'[c].at = l
    BY <1>4, <2>1, GotoMoves
  <2> QED
    BY <1>1, <1>2, <2>2, StatsRest
<1>7. CASE FindSub(c)
  <2>1. /\ call[c].user \in Customers /\ call[c].at = "sub"
        /\ call[c].op \in {"subscribe", "unsubscribe", "review"}
        /\ subs[call[c].user].active <=> call[c].op # "subscribe"
        /\ Goto(c, NextOfSub(subs[call[c].user], call[c].op))
    BY <1>7 DEF FindSub, At, Is, MarketInv, MarketCarries, OfCustomer
  <2>2. PICK l \in {"renew", "create", "cancel", "upsert"} :
          Goto(c, l) /\ (l = "cancel" => call[c].op = "unsubscribe")
    BY <2>1 DEF NextOfSub
  <2>3. /\ \A d \in Calls \ {c} : call'[d] = call[d]
        /\ call'[c].at = l /\ call'[c].user = call[c].user
    BY <1>4, <2>2, GotoMoves
  <2> QED
    BY <1>1, <2>1, <2>2, <2>3, StatsRest
<1> QED
  BY <1>3, <1>5, <1>6, <1>7

LEMMA ReadRatingCounts ==
  ASSUME MarketInv, MarketInv', StatsInv, NEW c \in Calls, ReadRating(c)
  PROVE  StatsInv'
<1>1. RowsRest /\ call[c].at = "aggregate" /\ Note(c, "rate", Aggregate(reviews)) /\ Shaped
  BY DEF ReadRating, RowsRest, Steady, marketData, At, MarketInv
<1>2. /\ \A d \in Calls \ {c} : call'[d] = call[d]
      /\ call'[c].at = "rate" /\ call'[c].seen = Aggregate(reviews)
  BY <1>1, NoteMoves
<1> QED
  BY <1>1, <1>2, StatsRest

LEMMA FindByKeyCounts ==
  ASSUME MarketInv, MarketInv', StatsInv, NEW c \in Calls, FindByKey(c)
  PROVE  StatsInv'
<1>1. PICK u \in Customers, l \in {"run", "reset"} :
        /\ subs[u].active
        /\ call' = [call EXCEPT ![c].user = u, ![c].seen = today, ![c].at = l]
  BY DEF FindByKey, Active
<1>2. RowsRest /\ call[c].at = "key" /\ Shaped /\ Shape(call[c])
  BY DEF FindByKey, RowsRest, Steady, marketData, At, MarketInv, Shaped
<1>3. \A d \in Calls \ {c} : call'[d] = call[d]
  BY <1>1, <1>2 DEF Shaped
<1>4. call'[c].at = l /\ call'[c].user = u
  BY <1>1, <1>2 DEF Shaped, Shape, Fields
<1>5. subs[u].made
  BY <1>1 DEF StatsInv, MadeFirst
<1> QED
  BY <1>2, <1>3, <1>4, <1>5, StatsRest

LEMMA ResetDayCounts ==
  ASSUME MarketInv, MarketInv', StatsInv, NEW c \in Calls, ResetDay(c)
  PROVE  StatsInv'
<1>1. /\ call[c].at = "reset" /\ call[c].user \in Customers /\ Shaped /\ Goto(c, "run")
      /\ MarketTyped
  BY DEF ResetDay, At, MarketInv, MarketCarries, OfCustomer
<1>2. /\ \A d \in Calls \ {c} : call'[d] = call[d]
      /\ call'[c].at = "run" /\ call'[c].user = call[c].user
  BY <1>1, GotoMoves
<1>3. RowsRest
  <2>1. subs \in [Customers -> Sub]
    BY <1>1 DEF MarketTyped
  <2>2. \A u \in Customers : /\ subs'[u].made = subs[u].made /\ subs'[u].total = subs[u].total
                             /\ subs'[u].active = subs[u].active
    <3> DEFINE e == [subs EXCEPT ![call[c].user].daily = 0]
    <3>1. \A u \in Customers : /\ e[u].made = subs[u].made /\ e[u].total = subs[u].total
                               /\ e[u].active = subs[u].active
      BY <1>1, <2>1 DEF Sub
    <3>2. e \in [Customers -> Sub]
      BY <1>1, <2>1 DEF Sub
    <3>3. subs' = [e EXCEPT ![call[c].user].day = call[c].seen]
      BY DEF ResetDay
    <3> HIDE DEF e
    <3> QED
      BY <1>1, <3>1, <3>2, <3>3 DEF Sub
  <2>3. UNCHANGED <<trail, stats, reviews, calm, faults>>
    BY DEF ResetDay, Steady
  <2> QED
    BY <2>2, <2>3 DEF RowsRest
<1>4. subs[call[c].user].made
  BY <1>1 DEF StatsInv, MadeFirst
<1> QED
  BY <1>1, <1>2, <1>3, <1>4, StatsRest

(* The two counters of a use are increased in either order.                *)
LEMMA RunAgentCounts ==
  ASSUME MarketInv, MarketInv', StatsInv, NEW c \in Calls, RunAgent(c)
  PROVE  StatsInv'
<1>1. /\ call[c].at = "run" /\ call[c].user \in Customers /\ Shaped /\ MarketTyped
      /\ call' = [call EXCEPT ![c].at = "usage", ![c].todo = {"sub", "listing"}]
      /\ UNCHANGED <<subs, stats, reviews, calm, faults>>
  BY DEF RunAgent, At, Steady, MarketInv, MarketCarries, OfCustomer
<1>2. /\ \A d \in Calls \ {c} : call'[d] = call[d]
      /\ call'[c].at = "usage" /\ call'[c].user = call[c].user
      /\ call'[c].todo = {"sub", "listing"}
  BY <1>1 DEF Shaped, Shape, Fields
<1>3. RowsRest
  <2>1. trail' = [trail EXCEPT ![call[c].user].spent =
          IF call[c].seen = today /\ call[c].arg = subs[call[c].user].key THEN @ + 1 ELSE @]
    BY DEF RunAgent
  <2>2. \A u \in Customers : trail'[u].renewed = trail[u].renewed
    BY <1>1, <2>1 DEF MarketTyped, Trail
  <2> QED
    BY <1>1, <2>2 DEF RowsRest
<1>4. /\ SumOver(Renewals') = SumOver(Renewals) /\ Active' = Active
      /\ SumOver(Uses') = SumOver(Uses) /\ StatsShaped'
  BY <1>3, RestingRows
<1>5. /\ InFlight("sub") \in Nat /\ InFlight("listing") \in Nat
      /\ InFlight("sub")' = InFlight("sub") + 1 /\ InFlight("listing")' = InFlight("listing") + 1
  <2>1. ASSUME NEW w \in {"sub", "listing"}
        PROVE  /\ Adding(w) \in SUBSET Calls /\ Adding(w)' \in SUBSET Calls
               /\ \A d \in Calls \ {c} : d \in Adding(w) <=> d \in Adding(w)'
               /\ c \notin Adding(w) /\ c \in Adding(w)'
    BY <1>1, <1>2 DEF Adding, At
  <2> QED
    BY <2>1, OneDiffers DEF InFlight
<1>6. faults' = 0 => UsesCounted'
  <2>1. SumOver(Uses) \in Nat /\ stats.runs \in Nat
    BY SumsAreNat DEF StatsInv, StatsShaped
  <2>2. SumOver(Uses)' = SumOver(Uses) /\ stats'.runs = stats.runs
    BY <1>1, <1>4
  <2> QED
    BY <1>1, <1>5, <2>1, <2>2 DEF UsesCounted, StatsInv
<1>7. ASSUME RowsCounted(call[c]) PROVE RowsCounted(call[c])'
  BY <1>1, <1>2, <1>4, <1>7 DEF RowsCounted, Ahead
<1>8. subs'[call'[c].user].made
  BY <1>1, <1>2 DEF StatsInv, MadeFirst
<1>9. \A u \in Customers : ~subs'[u].made => ~subs'[u].active /\ subs'[u].total = 0
  BY <1>1 DEF StatsInv, MadeFirst
<1> QED
  BY <1>1, <1>2, <1>4, <1>6, <1>7, <1>8, <1>9, StatsMoves

(* The counters of the listing, written one at a time.                     *)
LEMMA StatsRow ==
  ASSUME NEW n, NEW r, NEW t, NEW s, s = [subscribers |-> n, runs |-> r, rating |-> t], NEW x
  PROVE  /\ [s EXCEPT !.subscribers = x] = [subscribers |-> x, runs |-> r, rating |-> t]
         /\ [s EXCEPT !.runs = x] = [subscribers |-> n, runs |-> x, rating |-> t]
         /\ [s EXCEPT !.rating = x] = [subscribers |-> n, runs |-> r, rating |-> x]
  OBVIOUS

(* A step that leaves the subscriptions alone, and no run to be counted.   *)
LEMMA StatsWrites ==
  ASSUME MarketInv, MarketInv', StatsInv, NEW c \in Calls, NEW n \in Int, NEW t,
         \A d \in Calls \ {c} : call'[d] = call[d], UNCHANGED <<subs, trail>>,
         call[c].at \notin {"idle", "usage"}, call'[c].at \notin {"reset", "run", "usage"},
         calm' = calm, faults' = 0 => faults = 0,
         stats' = [subscribers |-> n, runs |-> stats.runs, rating |-> t],
         calm /\ faults = 0 /\ faults' = 0 /\ RowsCounted(call[c]) =>
           /\ call'[c].at \notin {"aggregate", "rate"} => t = Aggregate(reviews')
           /\ call'[c].at # "rate" /\ call'[c].at # "cancel"
           /\ n - stats.subscribers = Ahead(call'[c]) - Ahead(call[c])
  PROVE  StatsInv'
<1>1. Active' = Active /\ Renewals' = Renewals /\ Uses' = Uses
  BY DEF Active, Renewals, Uses
<1>2. stats'.runs = stats.runs /\ stats'.subscribers = n /\ stats'.rating = t
  OBVIOUS
<1>3. StatsShaped'
  BY <1>1, <1>2 DEF StatsInv, StatsShaped
<1>4. faults' = 0 => UsesCounted'
  BY <1>2, NoUse
<1>5. ASSUME calm, faults = 0, faults' = 0, RowsCounted(call[c]) PROVE RowsCounted(call[c])'
  <2>1. /\ SumOver(Renewals) \in Nat /\ Cardinality(Active) \in Nat /\ stats.subscribers \in Int
        /\ Ahead(call[c]) \in Int /\ Ahead(call'[c]) \in Int
    BY SumsAreNat, ActiveFinite DEF StatsInv, StatsShaped, Ahead
  <2>2. n + SumOver(Renewals) = Cardinality(Active) + Ahead(call'[c])
    BY <1>5, <2>1 DEF RowsCounted
  <2>3. SumOver(Renewals)' = SumOver(Renewals) /\ Cardinality(Active)' = Cardinality(Active)
    BY <1>1
  <2> QED
    BY <1>2, <1>5, <2>2, <2>3 DEF RowsCounted, Aggregate, Ahead
<1>6. \A v \in Customers : ~subs'[v].made => ~subs'[v].active /\ subs'[v].total = 0
  BY DEF StatsInv, MadeFirst
<1> QED
  BY <1>3, <1>4, <1>5, <1>6, StatsMoves

LEMMA CountSubCounts ==
  ASSUME MarketInv, MarketInv', StatsInv, NEW c \in Calls, CountSub(c)
  PROVE  StatsInv'
<1>1. /\ call[c].at = "count" /\ Goto(c, "price") /\ Shaped
      /\ UNCHANGED <<subs, trail, reviews, calm, faults>>
  BY DEF CountSub, At, Steady, MarketInv
<1>2. (\A d \in Calls \ {c} : call'[d] = call[d]) /\ call'[c].at = "price"
  BY <1>1, GotoMoves
<1>3. /\ stats.subscribers \in Int
      /\ stats = [subscribers |-> stats.subscribers, runs |-> stats.runs, rating |-> stats.rating]
  BY DEF StatsInv, StatsShaped
<1>4. stats' = [subscribers |-> stats.subscribers + 1, runs |-> stats.runs, rating |-> stats.rating]
  <2>1. stats' = [stats EXCEPT !.subscribers = stats.subscribers + 1]
    BY DEF CountSub
  <2> QED
    BY <1>3, <2>1, StatsRow
<1>5. Ahead(call'[c]) = 0 /\ Ahead(call[c]) = -1
  BY <1>1, <1>2 DEF Ahead
<1>6. RowsCounted(call[c]) => stats.rating = Aggregate(reviews')
  BY <1>1 DEF RowsCounted
<1> QED
  BY <1>1, <1>2, <1>3, <1>4, <1>5, <1>6, StatsWrites

LEMMA UncountSubCounts ==
  ASSUME MarketInv, MarketInv', StatsInv, NEW c \in Calls, UncountSub(c)
  PROVE  StatsInv'
<1>1. /\ call[c].at = "uncount" /\ Answer(c) /\ Shaped
      /\ UNCHANGED <<subs, trail, reviews, calm, faults>>
  BY DEF UncountSub, At, Steady, MarketInv
<1>2. (\A d \in Calls \ {c} : call'[d] = call[d]) /\ call'[c].at = "idle"
  BY <1>1, AnswerMoves
<1>3. /\ stats.subscribers \in Int
      /\ stats = [subscribers |-> stats.subscribers, runs |-> stats.runs, rating |-> stats.rating]
  BY DEF StatsInv, StatsShaped
<1>4. stats' = [subscribers |-> stats.subscribers - 1, runs |-> stats.runs, rating |-> stats.rating]
  <2>1. stats' = [stats EXCEPT !.subscribers = stats.subscribers - 1]
    BY DEF UncountSub, Uncounted
  <2> QED
    BY <1>3, <2>1, StatsRow
<1>5. Ahead(call'[c]) = 0 /\ Ahead(call[c]) = 1
  BY <1>1, <1>2 DEF Ahead
<1>6. RowsCounted(call[c]) => stats.rating = Aggregate(reviews')
  BY <1>1 DEF RowsCounted
<1> QED
  BY <1>1, <1>2, <1>3, <1>4, <1>5, <1>6, StatsWrites

LEMMA WriteReviewCounts ==
  ASSUME MarketInv, MarketInv', StatsInv, NEW c \in Calls, WriteReview(c)
  PROVE  StatsInv'
<1>1. /\ call[c].at \in {"upsert", "delete"} /\ Goto(c, "aggregate") /\ Shaped
      /\ UNCHANGED <<subs, trail, stats, calm, faults>>
  BY DEF WriteReview, At, Steady, MarketInv
<1>2. (\A d \in Calls \ {c} : call'[d] = call[d]) /\ call'[c].at = "aggregate"
  BY <1>1, GotoMoves
<1>3. /\ stats.subscribers \in Int
      /\ stats' = [subscribers |-> stats.subscribers, runs |-> stats.runs, rating |-> stats.rating]
  BY <1>1 DEF StatsInv, StatsShaped
<1>4. Ahead(call'[c]) = 0 /\ Ahead(call[c]) = 0
  BY <1>1, <1>2 DEF Ahead
<1> QED
  BY <1>1, <1>2, <1>3, <1>4, StatsWrites

LEMMA WriteRatingCounts ==
  ASSUME MarketInv, MarketInv', StatsInv, NEW c \in Calls, WriteRating(c)
  PROVE  StatsInv'
<1>1. /\ call[c].at = "rate" /\ Answer(c) /\ Shaped
      /\ UNCHANGED <<subs, trail, reviews, calm, faults>>
  BY DEF WriteRating, At, Steady, MarketInv
<1>2. (\A d \in Calls \ {c} : call'[d] = call[d]) /\ call'[c].at = "idle"
  BY <1>1, AnswerMoves
<1>3. /\ stats.subscribers \in Int
      /\ stats = [subscribers |-> stats.subscribers, runs |-> stats.runs, rating |-> stats.rating]
  BY DEF StatsInv, StatsShaped
<1>4. stats' = [subscribers |-> stats.subscribers, runs |-> stats.runs, rating |-> call[c].seen]
  <2>1. stats' = [stats EXCEPT !.rating = call[c].seen]
    BY DEF WriteRating
  <2> QED
    BY <1>3, <2>1, StatsRow
<1>5. Ahead(call'[c]) = 0 /\ Ahead(call[c]) = 0
  BY <1>1, <1>2 DEF Ahead
<1>6. RowsCounted(call[c]) => call[c].seen = Aggregate(reviews')
  BY <1>1 DEF RowsCounted
<1> QED
  BY <1>1, <1>2, <1>3, <1>4, <1>5, <1>6, StatsWrites

LEMMA BreakMarketCounts ==
  ASSUME MarketInv, MarketInv', StatsInv, NEW c \in Calls, BreakMarket(c)
  PROVE  StatsInv'
<1>1. /\ call[c].at # "idle" /\ Answer(c) /\ Shaped /\ calm' = calm /\ faults' = faults + 1
      /\ faults \in Nat /\ UNCHANGED <<subs, trail, stats>>
  BY DEF BreakMarket, Break, At, MarketInv, marketData
<1>2. (\A d \in Calls \ {c} : call'[d] = call[d]) /\ call'[c].at = "idle" /\ faults' # 0
  BY <1>1, AnswerMoves
<1>3. StatsShaped'
  BY <1>1 DEF StatsInv, StatsShaped, Uses, Renewals
<1>4. \A v \in Customers : ~subs'[v].made => ~subs'[v].active /\ subs'[v].total = 0
  BY <1>1 DEF StatsInv, MadeFirst
<1> QED
  BY <1>1, <1>2, <1>3, <1>4, StatsMoves

(* A row that stops being active, and one that starts.                     *)
LEMMA SwitchedRow ==
  ASSUME NEW s \in Sub
  PROVE  LET row == [s EXCEPT !.active = FALSE]
         IN row.made = s.made /\ row.total = s.total /\ ~row.active
BY DEF Sub

LEMMA CancelSubCounts ==
  ASSUME MarketInv, MarketInv', StatsInv, NEW c \in Calls, CancelSub(c)
  PROVE  StatsInv'
<1>1. PICK u : /\ u = call[c].user /\ call[c].at = "cancel" /\ u \in Customers
               /\ Shaped /\ MarketTyped /\ Goto(c, "uncount")
               /\ subs' = [subs EXCEPT ![u].active = FALSE]
               /\ UNCHANGED <<trail, stats, reviews, calm, faults>>
  BY DEF CancelSub, At, MarketInv, MarketCarries, OfCustomer, Steady
<1>2. (\A d \in Calls \ {c} : call'[d] = call[d]) /\ call'[c].at = "uncount"
  BY <1>1, GotoMoves
<1>3. /\ \A v \in Customers : subs'[v].made = subs[v].made /\ subs'[v].total = subs[v].total
      /\ ~subs'[u].active /\ \A v \in Customers \ {u} : subs'[v] = subs[v]
  <2> DEFINE row == [subs[u] EXCEPT !.active = FALSE]
  <2>1. row.made = subs[u].made /\ row.total = subs[u].total /\ ~row.active
    <3>1. subs[u] \in Sub
      BY <1>1 DEF MarketTyped
    <3> QED
      BY <3>1, SwitchedRow
  <2>2. subs' = [subs EXCEPT ![u] = row]
    BY <1>1
  <2> HIDE DEF row
  <2> QED
    BY <1>1, <2>1, <2>2 DEF MarketTyped
<1>4. /\ Units(Uses') = Units(Uses) /\ SumOver(Uses') = SumOver(Uses)
      /\ faults' = 0 => UsesCounted'
  BY <1>1, <1>2, <1>3, NoUse
<1>5. StatsShaped' /\ Renewals' = Renewals
  BY <1>1, <1>4 DEF StatsInv, StatsShaped, Renewals
<1>6. ASSUME RowsCounted(call[c]) PROVE RowsCounted(call[c])'
  <2>1. u \in Active /\ Active' = Active \ {u}
    BY <1>1, <1>3, <1>6 DEF RowsCounted, Active
  <2>2. Cardinality(Active') = Cardinality(Active) - 1 /\ Cardinality(Active) \in Nat
    BY <2>1, ActiveFinite, FS_RemoveElement
  <2>3. stats.subscribers + SumOver(Renewals) = Cardinality(Active) /\ stats.rating = Aggregate(reviews)
    BY <1>1, <1>6, <2>2 DEF RowsCounted, Ahead
  <2>4. stats'.subscribers + SumOver(Renewals)' = Cardinality(Active)' + 1
    BY <1>1, <1>5, <2>2, <2>3
  <2> QED
    BY <1>1, <1>2, <2>3, <2>4 DEF RowsCounted, Ahead, Aggregate
<1>7. \A v \in Customers : ~subs'[v].made => ~subs'[v].active /\ subs'[v].total = 0
  BY <1>3 DEF StatsInv, MadeFirst
<1> QED
  BY <1>1, <1>2, <1>3, <1>4, <1>5, <1>6, <1>7, StatsMoves

LEMMA OpenedRow ==
  ASSUME NEW s \in Sub
  PROVE  Opened(s).made /\ Opened(s).active /\ Opened(s).total = s.total
BY DEF Sub, Opened

LEMMA OpenSubCounts ==
  ASSUME MarketInv, MarketInv', StatsInv, NEW c \in Calls, OpenSub(c)
  PROVE  StatsInv'
<1>1. PICK u, row, l, b, r :
        /\ u = call[c].user /\ u \in Customers
        /\ \/ /\ call[c].at = "create" /\ ~subs[u].made /\ row = NoSub
              /\ l = "count" /\ r = trail[u].renewed
           \/ /\ call[c].at = "renew" /\ row = subs[u]
              /\ l = "price" /\ r = trail[u].renewed + 1
        /\ subs' = [subs EXCEPT ![u] = Opened(row)]
        /\ trail' = [trail EXCEPT ![u].spent = 0, ![u].begun = b, ![u].renewed = r]
        /\ b \in {trail[u].begun, trail[u].begun + 1}
        /\ Goto(c, l)
  <2>1. call[c].at \in {"create", "renew"} /\ MarketCarries(call[c])
    BY DEF OpenSub, At, MarketInv
  <2>2. call[c].user \in Customers
    BY <2>1 DEF MarketCarries, OfCustomer
  <2>3. CASE call[c].at = "create"
    BY <2>2, <2>3 DEF OpenSub, At
  <2>4. CASE call[c].at = "renew"
    BY <2>2, <2>4 DEF OpenSub, At
  <2> QED
    BY <2>1, <2>3, <2>4
<1>2. Shaped /\ MarketTyped /\ UNCHANGED <<reviews, stats, calm, faults>>
  BY DEF OpenSub, MarketInv, Steady
<1>3. (\A d \in Calls \ {c} : call'[d] = call[d]) /\ call'[c].at = l
  BY <1>1, <1>2, GotoMoves
<1>4. subs[u] \in Sub /\ NoSub \in Sub /\ trail[u] \in Trail
  BY <1>1, <1>2 DEF MarketTyped, NoSub, Sub
<1>5. Opened(row).made /\ Opened(row).active /\ Opened(row).total = subs[u].total
  <2>1. row \in Sub
    BY <1>1, <1>4
  <2>2. row.total = subs[u].total
    BY <1>1 DEF StatsInv, MadeFirst, NoSub
  <2> QED
    BY <2>1, <2>2, OpenedRow
<1>6. /\ subs'[u].made /\ subs'[u].active /\ \A v \in Customers \ {u} : subs'[v] = subs[v]
      /\ \A v \in Customers : subs'[v].total = subs[v].total
  BY <1>1, <1>2, <1>5 DEF MarketTyped
<1>7. /\ trail'[u].renewed = r /\ r \in Nat
      /\ \A v \in Customers \ {u} : trail'[v] = trail[v]
  <2> DEFINE t1 == [trail EXCEPT ![u].spent = 0]
             t2 == [t1 EXCEPT ![u].begun = b]
             t3 == [t2 EXCEPT ![u].renewed = r]
  <2>1. b \in Nat /\ r \in Nat
    BY <1>1, <1>4 DEF Trail
  <2>2. t1 \in [Customers -> Trail] /\ \A v \in Customers \ {u} : t1[v] = trail[v]
    BY <1>1, <1>2 DEF MarketTyped, Trail
  <2>3. t2 \in [Customers -> Trail] /\ \A v \in Customers \ {u} : t2[v] = trail[v]
    <3> HIDE DEF t1
    <3> QED
      BY <1>1, <2>1, <2>2 DEF Trail
  <2>4. t3[u].renewed = r /\ \A v \in Customers \ {u} : t3[v] = trail[v]
    <3> HIDE DEF t2
    <3> QED
      BY <1>1, <2>1, <2>3 DEF Trail
  <2>5. trail' = t3
    BY <1>1
  <2> HIDE DEF t3
  <2> QED
    BY <2>1, <2>4, <2>5
<1>8. /\ Units(Uses') = Units(Uses) /\ SumOver(Uses') = SumOver(Uses)
      /\ faults' = 0 => UsesCounted'
  BY <1>1, <1>2, <1>3, <1>6, NoUse
<1>9. /\ IsFiniteSet(Units(Renewals'))
      /\ SumOver(Renewals') = SumOver(Renewals) + (IF l = "price" THEN 1 ELSE 0)
  <2>1. /\ \A v \in Customers \ {u} : Renewals'[v] = Renewals[v]
        /\ Renewals'[u] = r /\ Renewals[u] = trail[u].renewed
        /\ Renewals \in [Customers -> Nat] /\ IsFiniteSet(Units(Renewals))
    BY <1>1, <1>2, <1>7 DEF Renewals, MarketTyped, Trail, StatsInv, StatsShaped
  <2>2. CASE l = "price"
    <3>1. Renewals'[u] = Renewals[u] + 1
      BY <1>1, <2>1, <2>2
    <3> QED
      BY <1>1, <2>1, <2>2, <3>1, SumGrows
  <2>3. CASE l = "count"
    <3>1. \A v \in Customers : Renewals'[v] = Renewals[v]
      BY <1>1, <2>1, <2>3
    <3>2. Units(Renewals') = Units(Renewals) /\ SumOver(Renewals') = SumOver(Renewals)
      BY <3>1, SumSame
    <3> QED
      BY <2>1, <2>3, <3>2, SumsAreNat DEF StatsInv
  <2> QED
    BY <1>1, <2>2, <2>3
<1>10. StatsShaped'
  BY <1>2, <1>8, <1>9 DEF StatsInv, StatsShaped
<1>11. ASSUME calm, RowsCounted(call[c]) PROVE RowsCounted(call[c])'
  <2>1. ~subs[u].active
    BY <1>1, <1>11 DEF MarketInv, At, Calmly, Knows
  <2>2. u \notin Active /\ Active' = Active \cup {u}
    BY <1>1, <1>6, <2>1 DEF Active
  <2>3. /\ Cardinality(Active') = Cardinality(Active) + 1 /\ Cardinality(Active) \in Nat
        /\ SumOver(Renewals) \in Nat /\ stats.subscribers \in Int
    BY <2>2, ActiveFinite, FS_AddElement, SumsAreNat DEF StatsInv, StatsShaped
  <2>4. stats.subscribers + SumOver(Renewals) = Cardinality(Active) /\ stats.rating = Aggregate(reviews)
    BY <1>1, <1>11, <2>3 DEF RowsCounted, Ahead
  <2>5. stats'.subscribers + SumOver(Renewals') = Cardinality(Active') + Ahead(call'[c])
    BY <1>1, <1>2, <1>3, <1>9, <2>3, <2>4 DEF Ahead
  <2> QED
    BY <1>1, <1>2, <1>3, <2>4, <2>5 DEF RowsCounted, Aggregate
<1>12. \A v \in Customers : ~subs'[v].made => ~subs'[v].active /\ subs'[v].total = 0
  BY <1>1, <1>6 DEF StatsInv, MadeFirst
<1>13. \A v \in Customers : subs[v].made => subs'[v].made
  BY <1>1, <1>6
<1> QED
  BY <1>1, <1>2, <1>3, <1>8, <1>10, <1>11, <1>12, <1>13, StatsMoves

(* A use is counted twice: by the subscription and by the listing.         *)
LEMMA RecordUseCounts ==
  ASSUME MarketInv, MarketInv', StatsInv, NEW c \in Calls, NEW w \in {"sub", "listing"},
         RecordUse(c, w)
  PROVE  StatsInv'
<1>1. PICK u :
        /\ u = call[c].user /\ call[c].at = "usage" /\ u \in Customers /\ w \in call[c].todo
        /\ Shaped /\ MarketTyped
        /\ IF w = "sub"
           THEN subs' = [subs EXCEPT ![u].daily = @ + 1, ![u].total = @ + 1] /\ stats' = stats
           ELSE stats' = [stats EXCEPT !.runs = @ + 1] /\ subs' = subs
        /\ IF call[c].todo = {w} THEN Answer(c) ELSE call' = [call EXCEPT ![c].todo = @ \ {w}]
        /\ UNCHANGED <<reviews, trail, calm, faults>>
  BY DEF RecordUse, At, MarketInv, MarketCarries, OfCustomer, Steady
<1>2. /\ \A d \in Calls \ {c} : call'[d] = call[d]
      /\ \/ call'[c].at = "idle" /\ call[c].todo = {w}
         \/ call'[c].at = "usage" /\ call'[c].user = u /\ call'[c].todo = call[c].todo \ {w}
  <2>1. CASE call[c].todo = {w}
    BY <1>1, <2>1, AnswerMoves
  <2>2. CASE call[c].todo # {w}
    BY <1>1, <2>2 DEF Shaped, Shape, Fields
  <2> QED
    BY <2>1, <2>2
<1>3. subs[u].made /\ subs[u] \in Sub /\ \A v \in Customers : subs[v] \in Sub
  BY <1>1 DEF StatsInv, MadeFirst, MarketTyped
<1>4. ASSUME NEW x \in {"sub", "listing"}
      PROVE  /\ InFlight(x) \in Nat /\ InFlight(x)' \in Nat
             /\ x = w => InFlight(x)' = InFlight(x) - 1
             /\ x # w => InFlight(x)' = InFlight(x)
  <2>1. /\ Adding(x) \in SUBSET Calls /\ Adding(x)' \in SUBSET Calls
        /\ \A d \in Calls \ {c} : d \in Adding(x) <=> d \in Adding(x)'
        /\ c \in Adding(x) <=> x \in call[c].todo
        /\ c \in Adding(x)' <=> x \in call[c].todo \ {w}
    BY <1>1, <1>2 DEF Adding, At
  <2> QED
    BY <1>1, <2>1, OneDiffers DEF InFlight
<1>5. SumOver(Uses) \in Nat /\ SumOver(Renewals) \in Nat /\ stats.runs \in Nat
  BY SumsAreNat DEF StatsInv, StatsShaped
<1>6. Renewals' = Renewals /\ Aggregate(reviews)' = Aggregate(reviews)
  BY <1>1 DEF Renewals
<1>7. /\ \A v \in Customers : subs'[v].made = subs[v].made /\ subs'[v].active = subs[v].active
      /\ \A v \in Customers \ {u} : subs'[v].total = subs[v].total
      /\ subs'[u].total = IF w = "sub" THEN subs[u].total + 1 ELSE subs[u].total
  <2>1. CASE w = "sub"
    <3> DEFINE row == [subs[u] EXCEPT !.daily = @ + 1, !.total = @ + 1]
    <3>1. row.made = subs[u].made /\ row.active = subs[u].active /\ row.total = subs[u].total + 1
      BY <1>3 DEF Sub
    <3>2. subs' = [subs EXCEPT ![u] = row]
      BY <1>1, <2>1 DEF MarketTyped
    <3> HIDE DEF row
    <3> QED
      BY <1>1, <2>1, <3>1, <3>2 DEF MarketTyped
  <2>2. CASE w = "listing"
    BY <1>1, <2>2
  <2> QED
    BY <2>1, <2>2
<1>8. /\ IsFiniteSet(Units(Uses'))
      /\ SumOver(Uses') = SumOver(Uses) + (IF w = "sub" THEN 1 ELSE 0)
  <2>1. /\ \A v \in Customers \ {u} : Uses'[v] = Uses[v]
        /\ Uses'[u] = IF w = "sub" THEN Uses[u] + 1 ELSE Uses[u]
        /\ Uses \in [Customers -> Nat] /\ IsFiniteSet(Units(Uses))
    BY <1>1, <1>3, <1>7 DEF Uses, Sub, StatsInv, StatsShaped
  <2>2. CASE w = "sub"
    BY <1>1, <2>1, <2>2, SumGrows
  <2>3. CASE w = "listing"
    <3>1. Units(Uses') = Units(Uses) /\ SumOver(Uses') = SumOver(Uses)
      BY <1>1, <2>1, <2>3, SumSame
    <3> QED
      BY <1>5, <2>1, <2>3, <3>1
  <2> QED
    BY <2>2, <2>3
<1>9. /\ stats' = [subscribers |-> stats.subscribers, rating |-> stats.rating,
                   runs |-> IF w = "listing" THEN stats.runs + 1 ELSE stats.runs]
  <2>1. stats = [subscribers |-> stats.subscribers, runs |-> stats.runs, rating |-> stats.rating]
    BY DEF StatsInv, StatsShaped
  <2>2. CASE w = "listing"
    <3>1. stats' = [stats EXCEPT !.runs = stats.runs + 1]
      BY <1>1, <2>2
    <3> QED
      BY <2>1, <2>2, <3>1, StatsRow
  <2>3. CASE w = "sub"
    BY <1>1, <2>1, <2>3
  <2> QED
    BY <2>2, <2>3
<1>10. StatsShaped'
  BY <1>5, <1>6, <1>8, <1>9 DEF StatsInv, StatsShaped
<1>11. ASSUME faults' = 0 PROVE UsesCounted'
  <2>1. stats.runs + InFlight("listing") = SumOver(Uses) + InFlight("sub")
    BY <1>1, <1>11 DEF StatsInv, UsesCounted
  <2>2. stats'.runs = IF w = "listing" THEN stats.runs + 1 ELSE stats.runs
    BY <1>9
  <2>3. stats'.runs + InFlight("listing")' = SumOver(Uses') + InFlight("sub")'
    BY <1>4, <1>5, <1>8, <2>1, <2>2
  <2> QED
    BY <2>3 DEF UsesCounted
<1>12. ASSUME RowsCounted(call[c]) PROVE RowsCounted(call[c])'
  <2>1. stats'.subscribers = stats.subscribers /\ stats'.rating = stats.rating /\ Active' = Active
    BY <1>7, <1>9 DEF Active
  <2> QED
    BY <1>1, <1>2, <1>6, <1>12, <2>1 DEF RowsCounted, Ahead
<1>13. \A v \in Customers : ~subs'[v].made => ~subs'[v].active /\ subs'[v].total = 0
  BY <1>1, <1>3, <1>7 DEF StatsInv, MadeFirst
<1> QED
  BY <1>1, <1>2, <1>3, <1>7, <1>10, <1>11, <1>12, <1>13, StatsMoves

(* Midnight ends the runs of a day, and no count of them.                  *)
LEMMA MidnightCounts == ASSUME MarketInv, StatsInv, Midnight PROVE StatsInv'
<1>1. /\ trail' = [u \in Customers |-> [trail[u] EXCEPT !.spent = 0]]
      /\ UNCHANGED <<call, calm, faults, subs, stats, reviews>> /\ trail \in [Customers -> Trail]
  BY DEF Midnight, handlerVars, MarketInv, MarketTyped
<1>2. RowsRest
  BY <1>1 DEF RowsRest, Trail
<1>3. /\ SumOver(Renewals') = SumOver(Renewals) /\ Active' = Active
      /\ SumOver(Uses') = SumOver(Uses) /\ StatsShaped'
  BY <1>2, RestingRows
<1>4. InFlight("sub")' = InFlight("sub") /\ InFlight("listing")' = InFlight("listing")
  BY <1>1 DEF InFlight, Adding, At
<1>5. (UsesCounted' <=> UsesCounted) /\ (MadeFirst' <=> MadeFirst) /\ (Quiet' <=> Quiet)
  BY <1>1, <1>3, <1>4 DEF UsesCounted, MadeFirst, Quiet, At
<1>6. ASSUME NEW k, RowsCounted(k) PROVE RowsCounted(k)'
  BY <1>1, <1>3, <1>6 DEF RowsCounted, Aggregate, Ahead
<1>7. ASSUME NEW c \in Calls, RowsCounted(call[c]) PROVE RowsCounted(call[c])'
  BY <1>1, <1>3, <1>7 DEF RowsCounted, Aggregate, Ahead
<1>8. RowsCounted(NoCall) => RowsCounted(NoCall)'
  BY <1>6
<1> QED
  BY <1>1, <1>3, <1>5, <1>7, <1>8 DEF StatsInv, At

LEMMA StatsInitOK == MarketInit => StatsInv
<1> SUFFICES ASSUME MarketInit PROVE StatsInv
  OBVIOUS
<1>1. PICK already \in SUBSET Customers :
        /\ \E rank \in [already -> 1 .. Cardinality(already)] :
             subs = [u \in Customers |->
                 IF u \in already THEN [NoSub EXCEPT !.made = TRUE, !.active = TRUE, !.key = rank[u]]
                 ELSE NoSub]
        /\ stats = [subscribers |-> Cardinality(already), runs |-> 0,
                    rating |-> [sum |-> 0, count |-> 0]]
  BY DEF MarketInit
<1>2. \A u \in Customers : /\ (subs[u].made <=> u \in already) /\ (subs[u].active <=> u \in already)
                           /\ subs[u].total = 0
  <2>1. PICK rank \in [already -> 1 .. Cardinality(already)] :
          subs = [u \in Customers |->
                 IF u \in already THEN [NoSub EXCEPT !.made = TRUE, !.active = TRUE, !.key = rank[u]]
                 ELSE NoSub]
    BY <1>1
  <2> DEFINE row(u) == [NoSub EXCEPT !.made = TRUE, !.active = TRUE, !.key = rank[u]]
  <2>2. \A u \in already : row(u).made /\ row(u).active /\ row(u).total = 0
    BY DEF NoSub
  <2>3. ~NoSub.made /\ ~NoSub.active /\ NoSub.total = 0
    BY DEF NoSub
  <2>4. subs = [u \in Customers |-> IF u \in already THEN row(u) ELSE NoSub]
    BY <2>1
  <2> HIDE DEF row
  <2>5. ASSUME NEW u \in Customers
        PROVE  /\ (subs[u].made <=> u \in already) /\ (subs[u].active <=> u \in already)
               /\ subs[u].total = 0
    <3>1. subs[u] = IF u \in already THEN row(u) ELSE NoSub
      BY <2>4
    <3> QED
      BY <2>2, <2>3, <3>1
  <2> QED
    BY <2>5
<1>3. (\A u \in Customers : reviews[u] = 0 /\ trail[u].renewed = 0) /\ \A c \in Calls : call[c] = NoCall
  BY DEF MarketInit, NoTrail, HandlersInit
<1>4. /\ SumOver(Uses) = 0 /\ IsFiniteSet(Units(Uses))
      /\ SumOver(Renewals) = 0 /\ IsFiniteSet(Units(Renewals))
  <2>1. \A u \in Customers : Uses[u] = 0 /\ Renewals[u] = 0
    BY <1>2, <1>3 DEF Uses, Renewals
  <2> QED
    BY <2>1, SumOfNothing
<1>5. Active = already
  BY <1>2 DEF Active
<1>6. Aggregate(reviews) = [sum |-> 0, count |-> 0]
  <2>1. SumOver(reviews) = 0 /\ {u \in Customers : reviews[u] # 0} = {}
    BY <1>3, SumOfNothing
  <2> QED
    BY <2>1, FS_EmptySet DEF Aggregate
<1>7. StatsShaped /\ Cardinality(already) \in Nat
  <2>1. Cardinality(already) \in Nat
    BY <1>5, ActiveFinite
  <2>2. PICK n : n = Cardinality(already)
    OBVIOUS
  <2>3. stats = [subscribers |-> n, runs |-> 0, rating |-> [sum |-> 0, count |-> 0]] /\ n \in Nat
    BY <1>1, <2>1, <2>2
  <2>4. stats.subscribers = n /\ stats.runs = 0 /\ stats.rating = [sum |-> 0, count |-> 0]
    BY <2>3
  <2> QED
    BY <1>4, <2>1, <2>3, <2>4 DEF StatsShaped
<1>8. UsesCounted
  <2>1. Adding("sub") = {} /\ Adding("listing") = {}
    BY <1>3 DEF Adding, At, NoCall
  <2> QED
    BY <1>1, <1>4, <2>1, FS_EmptySet DEF UsesCounted, InFlight
<1>9. MadeFirst
  BY <1>2, <1>3 DEF MadeFirst, NoCall
<1>10. RowsCounted(NoCall)
  BY <1>1, <1>4, <1>5, <1>6, <1>7 DEF RowsCounted, NoCall, Ahead
<1>11. \A c \in Calls : At(c, "idle")
  BY <1>3 DEF At, NoCall
<1> QED
  BY <1>7, <1>8, <1>9, <1>10, <1>11 DEF StatsInv

LEMMA StatsStep ==
  MarketInv /\ MarketInv' /\ StatsInv /\ [MarketNext]_marketVars => StatsInv'
<1> SUFFICES ASSUME MarketInv, MarketInv', StatsInv, [MarketNext]_marketVars PROVE StatsInv'
  OBVIOUS
<1>1. CASE UNCHANGED marketVars
  <2>1. /\ Active' = Active /\ Renewals' = Renewals /\ Uses' = Uses
        /\ InFlight("sub")' = InFlight("sub") /\ InFlight("listing")' = InFlight("listing")
        /\ UNCHANGED <<call, calm, faults, subs, stats, reviews>>
    BY <1>1 DEF marketVars, marketData, handlerVars, Active, Renewals, Uses, InFlight, Adding, At
  <2>2. /\ StatsShaped' /\ (UsesCounted' <=> UsesCounted) /\ MadeFirst' /\ (Quiet' <=> Quiet)
    BY <2>1 DEF StatsInv, StatsShaped, UsesCounted, MadeFirst, Quiet, At
  <2>3. /\ \A c \in Calls : RowsCounted(call[c]) => RowsCounted(call[c])'
        /\ RowsCounted(NoCall) => RowsCounted(NoCall)'
    BY <2>1 DEF RowsCounted, Aggregate, Ahead
  <2> QED
    BY <2>1, <2>2, <2>3 DEF StatsInv, At
<1>2. ASSUME NEW c \in Calls, ListingStep(c) PROVE StatsInv'
  BY <1>2, BeginCounts, ReadCounts DEF ListingStep
<1>3. ASSUME NEW c \in Calls, SubStep(c) PROVE StatsInv'
  BY <1>3, BeginCounts, ReadCounts, OpenSubCounts, CountSubCounts, CancelSubCounts,
     UncountSubCounts DEF SubStep
<1>4. ASSUME NEW c \in Calls, UseStep(c) PROVE StatsInv'
  BY <1>4, BeginCounts, FindByKeyCounts, ResetDayCounts, RunAgentCounts, RecordUseCounts DEF UseStep
<1>5. ASSUME NEW c \in Calls, ReviewStep(c) PROVE StatsInv'
  BY <1>5, BeginCounts, ReadCounts, WriteReviewCounts, ReadRatingCounts, WriteRatingCounts
     DEF ReviewStep
<1> QED
  BY <1>1, <1>2, <1>3, <1>4, <1>5, ReadCounts, BreakMarketCounts, MidnightCounts DEF MarketNext

(* However calls overlap, the listing's count of runs and those of its     *)
(* subscriptions differ by the increments in flight until one is lost; and *)
(* while calls neither overlap nor fail, the listing's rating is the       *)
(* average of its reviews and its subscribers the active subscriptions,    *)
(* less the renewed ones: for all users, limits and ratings.               *)
THEOREM StatisticsAgree == MarketSpec => []QuietStatistics
<1>1. StatsInv => QuietStatistics
  <2> SUFFICES ASSUME StatsInv PROVE QuietStatistics
    OBVIOUS
  <2>1. Cardinality(Active) \in Nat
    BY ActiveFinite
  <2> QED
    BY <2>1 DEF StatsInv, UsesCounted, QuietStatistics, Sequential, RowsCounted, NoCall, Ahead
<1>2. MarketInit => MarketInv /\ StatsInv
  BY MarketInitOK, StatsInitOK
<1>3. (MarketInv /\ StatsInv) /\ [MarketNext]_marketVars => (MarketInv /\ StatsInv)'
  BY MarketStep, StatsStep
<1> QED
  BY <1>1, <1>2, <1>3, PTL DEF MarketSpec
=============================================================================
