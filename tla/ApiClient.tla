------------------------------ MODULE ApiClient -----------------------------
(***************************************************************************)
(* The browser's ApiClient: a request that is answered 401 makes the       *)
(* client exchange its refresh token for a new access token, once for all  *)
(* requests that meet a 401 meanwhile; these subscribe to the new token    *)
(* and are sent again with it.                                             *)
(***************************************************************************)
EXTENDS Integers, FiniteSets

CONSTANTS
  ApiCalls,    \* requests that may be under way at once
  MaxRequests, \* bound: requests that are made
  MaxExpiries  \* bound: times the access token expires

ASSUME ApiCallsFinite == IsFiniteSet(ApiCalls)
ASSUME ExpiriesAreNat == MaxRequests \in Nat /\ MaxExpiries \in Nat

VARIABLES
  request,       \* where each request is, the token it was sent with, and
                 \* whether it is the one that had the token refreshed
  stored,        \* localStorage: the access token; a token is its number
  oldest,        \* the oldest token that has not expired
  isRefreshing,  \* ApiClient.isRefreshing
  subscribers,   \* ApiClient.refreshSubscribers
  made,          \* how many requests have been made
  expiries       \* how often the token has expired

clientVars == <<request, stored, oldest, isRefreshing, subscribers, made, expiries>>

NoRequest == [at |-> "none", token |-> 0, first |-> FALSE]
Places    == {"none", "sent", "ok", "denied", "refreshing", "waiting"}

ClientInit ==
  /\ request = [r \in ApiCalls |-> NoRequest]
  /\ stored = 1 /\ oldest = 1
  /\ isRefreshing = FALSE /\ subscribers = {}
  /\ made = 0 /\ expiries = 0

Sent(token) == [at |-> "sent", token |-> token, first |-> FALSE]

(* request reads the token from localStorage and fetches.                  *)
Fetching(r) ==
  /\ request[r].at = "none" /\ made < MaxRequests
  /\ request' = [request EXCEPT ![r] = Sent(stored)]
  /\ made' = made + 1
  /\ UNCHANGED <<stored, oldest, isRefreshing, subscribers, expiries>>

(* The backend checks the token: verifyUser.                               *)
Check(r) ==
  /\ request[r].at = "sent"
  /\ request' = [request EXCEPT ![r].at = IF request[r].token >= oldest
                                          THEN "ok" ELSE "denied"]
  /\ UNCHANGED <<stored, oldest, isRefreshing, subscribers, made, expiries>>

(* Any answer but 401 settles the promise.                                 *)
Settle(r) ==
  /\ request[r].at = "ok"
  /\ request' = [request EXCEPT ![r] = NoRequest]
  /\ UNCHANGED <<stored, oldest, isRefreshing, subscribers, made, expiries>>

(* A 401: the first one fetches a new token, the others subscribe.         *)
Denied(r) ==
  /\ request[r].at = "denied"
  /\ IF isRefreshing
     THEN /\ request' = [request EXCEPT ![r].at = "waiting"]
          /\ subscribers' = subscribers \cup {r}
          /\ UNCHANGED isRefreshing
     ELSE /\ request' = [request EXCEPT ![r].at = "refreshing", ![r].first = TRUE]
          /\ isRefreshing' = TRUE
          /\ UNCHANGED subscribers
  /\ UNCHANGED <<stored, oldest, made, expiries>>

(* Slip: the flag is left set when the new token has come.                 *)
LeftBusy == TRUE
Released == FALSE

(* The new token: stored, announced to the subscribers, who send their     *)
(* requests again; only then does the request that fetched it subscribe.   *)
Refreshed(r) ==
  /\ request[r].at = "refreshing"
  /\ stored' = stored + 1
  /\ isRefreshing' = Released
  /\ request' = [q \in ApiCalls |->
       IF q = r THEN [request[q] EXCEPT !.at = "waiting"]
       ELSE IF q \in subscribers THEN Sent(stored + 1) ELSE request[q]]
  /\ subscribers' = {r}
  /\ UNCHANGED <<oldest, made, expiries>>

(* The session is no longer valid: the store is emptied and the browser    *)
(* goes to the login page, where the user logs in again.                   *)
RefreshRefused(r) ==
  /\ request[r].at = "refreshing"
  /\ request' = [q \in ApiCalls |-> NoRequest]
  /\ isRefreshing' = FALSE /\ subscribers' = {}
  /\ stored' = stored + 1
  /\ UNCHANGED <<oldest, made, expiries>>

(* Tokens expire in the order they were issued in.                         *)
Expire ==
  /\ expiries < MaxExpiries /\ expiries' = expiries + 1
  /\ oldest' \in oldest + 1 .. stored + 1
  /\ UNCHANGED <<request, stored, isRefreshing, subscribers, made>>

Progress(r) == Check(r) \/ Settle(r) \/ Denied(r) \/ Refreshed(r) \/ RefreshRefused(r)

ClientNext == Expire \/ \E r \in ApiCalls : Fetching(r) \/ Progress(r)

ClientSpec == ClientInit /\ [][ClientNext]_clientVars

(* The network and the backend answer, and the event loop runs every       *)
(* callback: no request is passed over for ever.                           *)
FairClientSpec == ClientSpec /\ \A r \in ApiCalls : WF_clientVars(Progress(r))

-----------------------------------------------------------------------------
(* Properties.                                                             *)

(* Types of the requests and of the client's fields.                       *)
ClientTypeOK ==
  /\ request \in [ApiCalls -> [at: Places, token: Nat, first: BOOLEAN]]
  /\ stored \in Nat /\ oldest \in 1 .. stored + 1 /\ isRefreshing \in BOOLEAN
  /\ subscribers \subseteq ApiCalls
  /\ made \in 0 .. MaxRequests /\ expiries \in 0 .. MaxExpiries

(* A request that met a 401 is sent again with the new token, however the  *)
(* answers cross: one that waits is waiting for a refresh that is under    *)
(* way, or is the very one that had the token refreshed.                   *)
SubscribersResume ==
  \A r \in ApiCalls :
    request[r].at = "waiting" =>
      /\ r \in subscribers
      /\ request[r].first \/ \E q \in ApiCalls : request[q].at = "refreshing"

(* "Updated frontend `ApiClient` to perform automatic background token     *)
(* refreshing on 401s": every request is answered in the end.              *)
RequestsSettle == \A r \in ApiCalls : request[r].at = "sent" ~> request[r].at = "none"
=============================================================================
