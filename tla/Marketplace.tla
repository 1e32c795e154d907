----------------------------- MODULE Marketplace ----------------------------
(***************************************************************************)
(* One marketplace listing: its life cycle, its subscriptions with their   *)
(* API keys and daily limit, the charges, the reviews, and the counters    *)
(* the listing row keeps beside the rows they count.                       *)
(***************************************************************************)
EXTENDS Handlers

CONSTANTS
  Users,       \* registered users
  Seller,      \* who owns the agent and the listing
  DailyLimit,  \* Listing.rateLimitPerDay
  Stars,       \* the ratings a review may give
  MaxDay       \* bound: midnights that pass

ASSUME SellerIsUser == Seller \in Users /\ IsFiniteSet(Users) /\ Nobody \notin Users
ASSUME LimitIsNat   == DailyLimit \in Nat \ {0} /\ MaxDay \in Nat
ASSUME StarsAreNat  == Stars \subseteq Nat \ {0}

VARIABLES
  listing,    \* Listing.status, and whether the price is SUBSCRIPTION_MONTHLY
  subs,       \* Subscription rows; an API key is the number it was drawn as
  keys,       \* API keys drawn so far
  reviews,    \* ListingReview rows: the rating, 0 for none
  stats,      \* Listing.subscribersCount, totalRunsCount, avgRating, reviewsCount
  bills,      \* per subscriber: invoices and payouts of the subscription
  today,      \* the date
  trail       \* history, per subscriber: see Trail

marketData == <<listing, subs, keys, reviews, stats, bills, today, trail>>
marketVars == <<marketData, handlerVars>>

Customers == Users \ {Seller}
Statuses  == {"NONE", "DRAFT", "PUBLISHED", "DEPRECATED"}

NoSub == [made |-> FALSE, active |-> FALSE, key |-> 0, daily |-> 0, total |-> 0, day |-> 0]
Sub   == [made: BOOLEAN, active: BOOLEAN, key: Nat, daily: Nat, total: Nat, day: Nat]

(* The history of a subscriber: runs today under the present key, periods  *)
(* that began (the subscription went from inactive to active) on a listing *)
(* sold by the month, and reactivations of a cancelled row.                *)
NoTrail == [spent |-> 0, begun |-> 0, renewed |-> 0]
Trail   == [spent: Nat, begun: Nat, renewed: Nat]

Fresh(i) == i + 1   \* generateApiKey draws a key nobody has had

(* A subscription that create has made or renewed under a new key.         *)
Opened(row) == [row EXCEPT !.made = TRUE, !.active = TRUE, !.key = Fresh(keys),
                           !.daily = 0, !.day = today]

(* A sum over the customers is the number of units in it.                  *)
Units(f)   == UNION {{u} \X (1 .. f[u]) : u \in Customers}
SumOver(f) == Cardinality(Units(f))

(* listingRepo.updateRating aggregates the rows: their sum and number      *)
(* stand for the average and the count.                                    *)
Aggregate(rows) ==
  [sum |-> SumOver(rows), count |-> Cardinality({u \in Customers : rows[u] # 0})]

Active == {u \in Customers : subs[u].active}

(* The listing is new, or on sale for some time with subscribers.          *)
MarketInit ==
  /\ HandlersInit
  /\ \E status \in {"NONE", "PUBLISHED"}, monthly \in BOOLEAN, already \in SUBSET Customers :
       /\ status = "NONE" => already = {} /\ ~monthly
       /\ listing = [status |-> status, monthly |-> monthly]
       /\ keys = Cardinality(already)
       /\ \E rank \in [already -> 1 .. Cardinality(already)] :
            /\ \A u, v \in already : rank[u] = rank[v] => u = v
            /\ subs = [u \in Customers |->
                 IF u \in already THEN [NoSub EXCEPT !.made = TRUE, !.active = TRUE, !.key = rank[u]]
                 ELSE NoSub]
       /\ stats = [subscribers |-> Cardinality(already), runs |-> 0,
                   rating |-> [sum |-> 0, count |-> 0]]
  /\ today = 0
  /\ reviews = [u \in Customers |-> 0]
  /\ bills = [u \in Customers |-> [invoices |-> 0, payouts |-> 0]]
  /\ trail = [u \in Customers |-> NoTrail]

-----------------------------------------------------------------------------
(* The listing: createListing, updateListing, publish, unpublish.          *)

ListingOps == {"create", "reprice", "publish", "unpublish"}

ServeListing(c) ==
  /\ \E op \in ListingOps : Begin(c, op, Seller, Nobody, "listing")
  /\ UNCHANGED marketData

(* findById, or findByAgentId for a new listing: one listing per agent.    *)
FindListing(c) ==
  /\ At(c, "listing") /\ Is(c, ListingOps)
  /\ Is(c, {"create"}) <=> listing.status = "NONE"
  /\ Is(c, {"publish"}) => listing.status # "PUBLISHED"
  /\ Goto(c, IF Is(c, {"publish"}) THEN "agent" ELSE "write")
  /\ Steady /\ UNCHANGED marketData

(* The agent is ACTIVE, or else publish is refused: its row belongs to the *)
(* agents service.                                                         *)
CheckAgent(c) ==
  /\ At(c, "agent")
  /\ Goto(c, "write")
  /\ Steady /\ UNCHANGED marketData

Written(op) ==
  CASE op = "create"    -> [listing EXCEPT !.status = "DRAFT"]
    [] op = "reprice"   -> [listing EXCEPT !.monthly = ~listing.monthly]
    [] op = "publish"   -> [listing EXCEPT !.status = "PUBLISHED"]
    [] op = "unpublish" -> [listing EXCEPT !.status = "DEPRECATED"]

(* A second listing of the agent is refused by the unique index.           *)
WriteListing(c) ==
  /\ At(c, "write")
  /\ Is(c, {"create"}) => listing.status = "NONE"
  /\ listing' = Written(call[c].op)
  /\ Answer(c) /\ Steady
  /\ UNCHANGED <<subs, keys, reviews, stats, bills, today, trail>>

-----------------------------------------------------------------------------
(* Subscriptions: subscribe, unsubscribe and the monthly charge.           *)

ServeSubscription(c) ==
  /\ \E u \in Users :
       \/ Begin(c, "subscribe", u, Nobody, "onSale")
       \/ u \in Customers /\ Begin(c, "unsubscribe", u, Nobody, "sub")
  /\ UNCHANGED marketData

(* The listing is published, and not the caller's own.                     *)
FindOnSale(c) ==
  /\ At(c, "onSale") /\ listing.status = "PUBLISHED" /\ call[c].user # Seller
  /\ Goto(c, "sub")
  /\ Steady /\ UNCHANGED marketData

(* findUserSub: an active subscription is refused to subscribe and needed  *)
(* by the others.                                                          *)
NextOfSub(row, op) ==
  CASE op = "subscribe"   -> IF row.made THEN "renew" ELSE "create"
    [] op = "unsubscribe" -> "cancel"
    [] op = "review"      -> "upsert"

FindSub(c) ==
  LET row == subs[call[c].user]
  IN /\ At(c, "sub")
     /\ row.active <=> ~Is(c, {"subscribe"})
     /\ Goto(c, NextOfSub(row, call[c].op))
     /\ Steady /\ UNCHANGED marketData

(* The new row, or the cancelled one with a fresh key and a fresh day.     *)
OpenSub(c) ==
  LET u == call[c].user
  IN /\ At(c, "create") \/ At(c, "renew")
     /\ At(c, "create") => ~subs[u].made
     /\ subs' = [subs EXCEPT ![u] = IF At(c, "renew") THEN Opened(subs[u]) ELSE Opened(NoSub)]
     /\ keys' = Fresh(keys)
     /\ trail' = [trail EXCEPT
          ![u].spent = 0,
          ![u].begun = IF listing.monthly /\ ~subs[u].active THEN @ + 1 ELSE @,
          ![u].renewed = IF At(c, "renew") THEN @ + 1 ELSE @]
     /\ Goto(c, IF At(c, "renew") THEN "price" ELSE "count")
     /\ Steady
     /\ UNCHANGED <<listing, reviews, stats, bills, today>>

(* subscribersCount follows a creation and a cancellation, not a renewal.  *)
CountSub(c) ==
  /\ At(c, "count") /\ Is(c, {"subscribe"})
  /\ stats' = [stats EXCEPT !.subscribers = @ + 1]
  /\ Goto(c, "price")
  /\ Steady
  /\ UNCHANGED <<listing, subs, keys, reviews, bills, today, trail>>

CancelSub(c) ==
  /\ At(c, "cancel")
  /\ subs' = [subs EXCEPT ![call[c].user].active = FALSE]
  /\ Goto(c, "uncount")
  /\ Steady
  /\ UNCHANGED <<listing, keys, reviews, stats, bills, today, trail>>

(* Slip: unsubscribe forgets the listing's counter.                        *)
CountNobody(c) == stats' = stats
Uncounted(c)   == stats' = [stats EXCEPT !.subscribers = @ - 1]

UncountSub(c) ==
  /\ At(c, "uncount")
  /\ Uncounted(c)
  /\ Answer(c) /\ Steady
  /\ UNCHANGED <<listing, subs, keys, reviews, bills, today, trail>>

(* recordListingSubscriptionCharge: the price, the invoice, the payout.    *)
(* Slip: the invoice is raised for every subscription.                     *)
AlwaysPriced == TRUE
Priced == listing.monthly

ReadPrice(c) ==
  /\ At(c, "price")
  /\ IF Priced THEN Goto(c, "invoice") ELSE Answer(c)
  /\ Steady /\ UNCHANGED marketData

Bill(c) ==
  LET u == call[c].user
  IN /\ \/ /\ At(c, "invoice") /\ Goto(c, "payout")
           /\ bills' = [bills EXCEPT ![u].invoices = @ + 1]
        \/ /\ At(c, "payout") /\ Answer(c)
           /\ bills' = [bills EXCEPT ![u].payouts = @ + 1]
     /\ Steady
     /\ UNCHANGED <<listing, subs, keys, reviews, stats, today, trail>>

-----------------------------------------------------------------------------
(* useApi: a run of the listed agent on a subscriber's key.                *)

ServeUse(c) ==
  /\ \E k \in 1 .. keys : Begin(c, "use", Nobody, k, "key")
  /\ UNCHANGED marketData

(* The row is read once.  On a new day its counter is reset before it is   *)
(* compared; otherwise what was read is compared.                          *)
(* Slip: the comparison lets one run too many through.                     *)
WithinInclusive(used) == used <= DailyLimit
Within(used) == used < DailyLimit

FindByKey(c) ==
  /\ At(c, "key") /\ listing.status = "PUBLISHED"
  /\ \E u \in Active :
       /\ subs[u].key = call[c].arg
       /\ subs[u].day = today => Within(subs[u].daily)
       /\ call' = [call EXCEPT ![c].user = u, ![c].seen = today,
                               ![c].at = IF subs[u].day = today THEN "run" ELSE "reset"]
  /\ Steady /\ UNCHANGED marketData

ResetDay(c) ==
  /\ At(c, "reset")
  /\ subs' = [subs EXCEPT ![call[c].user].daily = 0, ![call[c].user].day = call[c].seen]
  /\ Goto(c, "run")
  /\ Steady
  /\ UNCHANGED <<listing, keys, reviews, stats, bills, today, trail>>

(* RuntimeEngine.execute has answered; the two counters follow together.   *)
RunAgent(c) ==
  LET u == call[c].user
  IN /\ At(c, "run")
     /\ trail' = [trail EXCEPT ![u].spent =
          IF call[c].seen = today /\ call[c].arg = subs[u].key THEN @ + 1 ELSE @]
     /\ call' = [call EXCEPT ![c].at = "usage", ![c].todo = {"sub", "listing"}]
     /\ Steady
     /\ UNCHANGED <<listing, subs, keys, reviews, stats, bills, today>>

RecordUse(c, w) ==
  LET u == call[c].user
  IN /\ At(c, "usage") /\ w \in call[c].todo
     /\ IF w = "sub"
        THEN /\ subs' = [subs EXCEPT ![u].daily = @ + 1, ![u].total = @ + 1]
             /\ UNCHANGED stats
        ELSE /\ stats' = [stats EXCEPT !.runs = @ + 1]
             /\ UNCHANGED subs
     /\ IF call[c].todo = {w} THEN Answer(c)
        ELSE call' = [call EXCEPT ![c].todo = @ \ {w}]
     /\ Steady
     /\ UNCHANGED <<listing, keys, reviews, bills, today, trail>>

-----------------------------------------------------------------------------
(* Reviews: submitReview, deleteReview, and the rating of the listing.     *)

ServeReview(c) ==
  /\ \E u \in Customers :
       \/ \E r \in Stars : Begin(c, "review", u, r, "sub")
       \/ Begin(c, "unreview", u, Nobody, "mine")
  /\ UNCHANGED marketData

FindReview(c) ==
  /\ At(c, "mine") /\ reviews[call[c].user] # 0
  /\ Goto(c, "delete")
  /\ Steady /\ UNCHANGED marketData

(* The upsert, or the delete, which throws when the row has gone.          *)
WriteReview(c) ==
  LET u == call[c].user
  IN /\ \/ At(c, "upsert") /\ reviews' = [reviews EXCEPT ![u] = call[c].arg]
        \/ At(c, "delete") /\ reviews[u] # 0 /\ reviews' = [reviews EXCEPT ![u] = 0]
     /\ Goto(c, "aggregate")
     /\ Steady
     /\ UNCHANGED <<listing, subs, keys, stats, bills, today, trail>>

(* updateRating: an aggregate, then an update with what it returned.       *)
ReadRating(c) ==
  /\ At(c, "aggregate")
  /\ Note(c, "rate", Aggregate(reviews))
  /\ Steady /\ UNCHANGED marketData

WriteRating(c) ==
  /\ At(c, "rate")
  /\ stats' = [stats EXCEPT !.rating = call[c].seen]
  /\ Answer(c) /\ Steady
  /\ UNCHANGED <<listing, subs, keys, reviews, bills, today, trail>>

-----------------------------------------------------------------------------
(* A check refuses the call: an error answer, nothing changed.             *)
RefuseMarket(c) ==
  /\ call[c].at \in {"listing", "agent", "write", "onSale", "sub", "create", "key", "mine", "delete"}
  /\ Answer(c) /\ Steady /\ UNCHANGED marketData

(* An await rejects; of the two writes of useApi the other still lands.    *)
BreakMarket(c) ==
  /\ ~At(c, "idle") /\ Break(c)
  /\ UNCHANGED marketData

Midnight ==
  /\ today < MaxDay /\ today' = today + 1
  /\ trail' = [u \in Customers |-> [trail[u] EXCEPT !.spent = 0]]
  /\ UNCHANGED <<handlerVars, listing, subs, keys, reviews, stats, bills>>

ListingStep(c) == ServeListing(c) \/ FindListing(c) \/ CheckAgent(c) \/ WriteListing(c)
SubStep(c)     == \/ ServeSubscription(c) \/ FindOnSale(c) \/ FindSub(c) \/ OpenSub(c)
                  \/ CountSub(c) \/ CancelSub(c) \/ UncountSub(c) \/ ReadPrice(c) \/ Bill(c)
UseStep(c)     == \/ ServeUse(c) \/ FindByKey(c) \/ ResetDay(c) \/ RunAgent(c)
                  \/ \E w \in {"sub", "listing"} : RecordUse(c, w)
ReviewStep(c)  == \/ ServeReview(c) \/ FindReview(c) \/ WriteReview(c)
                  \/ ReadRating(c) \/ WriteRating(c)

MarketNext ==
  \/ \E c \in Calls : \/ ListingStep(c) \/ SubStep(c) \/ UseStep(c) \/ ReviewStep(c)
                      \/ RefuseMarket(c) \/ BreakMarket(c)
  \/ Midnight

MarketSpec == MarketInit /\ [][MarketNext]_marketVars

-----------------------------------------------------------------------------
(* Properties.                                                             *)

MarketLabels == {"idle", "listing", "agent", "write", "onSale", "sub", "create", "renew",
                 "count", "cancel", "uncount", "price", "invoice", "payout", "key", "reset",
                 "run", "usage", "mine", "upsert", "delete", "aggregate", "rate"}

Rating == [sum: Nat, count: Nat]

(* Types of the rows and the handlers.                                     *)
MarketTypeOK ==
  /\ listing \in [status: Statuses, monthly: BOOLEAN]
  /\ today \in 0 .. MaxDay /\ keys \in Nat
  /\ subs \in [Customers -> Sub] /\ trail \in [Customers -> Trail]
  /\ reviews \in [Customers -> Stars \cup {0}]
  /\ stats \in [subscribers: Int, runs: Nat, rating: Rating]
  /\ bills \in [Customers -> [invoices: Nat, payouts: Nat]]
  /\ \A c \in Calls : /\ call[c].at \in MarketLabels
                      /\ call[c].user \in Users \cup {Nobody}
                      /\ call[c].todo \subseteq {"sub", "listing"}

(* useApi compares a counter it has read before the run and increments it  *)
(* after: when calls do not overlap, no key runs the agent more often in a *)
(* day than the listing allows, but for the runs whose count was lost in a *)
(* failure.  Overlapping calls exceed it.                                  *)
KeysWithinDailyLimit ==
  calm /\ Quiet => \A u \in Customers : trail[u].spent <= DailyLimit + faults

(* However calls overlap, the listing's runs and its subscriptions' runs   *)
(* differ by the increments in flight until one is lost.  When they have   *)
(* not overlapped or failed, the rating agrees with the reviews, and the   *)
(* subscribers with the active subscriptions, less the renewed ones, which *)
(* subscribe does not count.                                               *)
Uses     == [u \in Customers |-> subs[u].total]
Renewals == [u \in Customers |-> trail[u].renewed]

Adding(w)   == {c \in Calls : At(c, "usage") /\ w \in call[c].todo}
InFlight(w) == Cardinality(Adding(w))

QuietStatistics ==
  /\ faults = 0 => stats.runs + InFlight("listing") = SumOver(Uses) + InFlight("sub")
  /\ Sequential =>
    /\ stats.rating = Aggregate(reviews)
    /\ stats.subscribers + SumOver(Renewals) = Cardinality(Active)

(* When calls do not overlap, a period sold by the month is billed at most *)
(* once, a free one never, the seller is paid nothing that was not billed, *)
(* and short of a failure every period is billed and paid out.             *)
(* Two calls that renew the same row at once bill it twice.                *)
PeriodsBilledOnce ==
  calm => \A u \in Customers :
    /\ bills[u].payouts <= bills[u].invoices
    /\ bills[u].invoices <= trail[u].begun
    /\ Sequential => bills[u].payouts = trail[u].begun
=============================================================================
