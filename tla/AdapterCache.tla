---------------------------- MODULE AdapterCache ----------------------------
(***************************************************************************)
(* The answers of one agent to one input, as runAdapter keeps them in      *)
(* Redis: the key is the agent and the input, so neither an edit of the    *)
(* agent nor the overrides of a run change it, and the entry lives for     *)
(* CACHE_TTL_SECS whatever happens to the agent.                           *)
(***************************************************************************)
EXTENDS Handlers

CONSTANTS
  Ttl,      \* CACHE_TTL_SECS, in ticks
  MaxTicks  \* bound: ticks that pass

ASSUME TicksAreNat == Ttl \in Nat \ {0} /\ MaxTicks \in Nat

VARIABLES
  edition,   \* the agent's prompt, model, config and tools: how often edited
  replaced,  \* history: when each past edition was replaced
  cached,    \* the Redis entry: the edition that answered, the ticks it has left
  ticks,     \* the time
  stalest    \* history: for how long an answered edition had been out of force

cacheData == <<edition, replaced, cached, ticks, stalest>>
cacheVars == <<cacheData, handlerVars>>

NoEntry  == [edition |-> 0, left |-> 0]
Editions == 0 .. MaxServed

CacheInit ==
  /\ HandlersInit
  /\ edition = 0 /\ ticks = 0 /\ stalest = 0
  /\ replaced = [e \in Editions |-> 0]
  /\ cached = NoEntry

Hit    == cached.left > 0
Age(e) == IF e = edition THEN 0 ELSE ticks - replaced[e]

(* The answer of edition e goes out now.                                   *)
Delivered(e) == stalest' = IF Age(e) > stalest THEN Age(e) ELSE stalest

-----------------------------------------------------------------------------
(* agentService.update, or a rollback to a version: the cache is not told. *)

ServeEdit(c) ==
  /\ Begin(c, "edit", Nobody, Nobody, "save")
  /\ UNCHANGED cacheData

SaveEdition(c) ==
  /\ At(c, "save")
  /\ edition' = edition + 1
  /\ replaced' = [replaced EXCEPT ![edition] = ticks]
  /\ Answer(c)
  /\ Steady /\ UNCHANGED <<cached, ticks, stalest>>

-----------------------------------------------------------------------------
(* A run: the engine reads the agent and has the adapter layer answer.     *)

ServeAnswer(c) ==
  /\ Begin(c, "answer", Nobody, Nobody, "edition")
  /\ UNCHANGED cacheData

ReadEdition(c) ==
  /\ At(c, "edition")
  /\ Note(c, "lookup", edition)
  /\ Steady /\ UNCHANGED cacheData

(* getCached; a Redis error counts as a miss.                              *)
LookUp(c) ==
  /\ At(c, "lookup")
  /\ \/ /\ Hit /\ Delivered(cached.edition)
        /\ Answer(c) /\ Steady
     \/ /\ ~Hit
        /\ Goto(c, "adapter")
        /\ Steady /\ UNCHANGED stalest
     \/ /\ Hit /\ faults < MaxFaults /\ faults' = faults + 1
        /\ Goto(c, "adapter")
        /\ UNCHANGED <<served, calm, stalest>>
  /\ UNCHANGED <<edition, replaced, cached, ticks>>

(* The adapter answers; only a success is kept, and nobody waits for that. *)
Adapt(c) ==
  /\ At(c, "adapter")
  /\ Delivered(call[c].seen)
  /\ \E success \in BOOLEAN : IF success THEN Goto(c, "setex") ELSE Answer(c)
  /\ Steady /\ UNCHANGED <<edition, replaced, cached, ticks>>

(* Slip: SET in place of SETEX, so that the entry stays.                   *)
NoExpiry == MaxTicks + 1
Expiry   == Ttl

SetCached(c) ==
  /\ At(c, "setex")
  /\ cached' = [edition |-> call[c].seen, left |-> Expiry]
  /\ Answer(c)
  /\ Steady /\ UNCHANGED <<edition, replaced, ticks, stalest>>

(* The process dies, or an await rejects; Redis' errors are swallowed.     *)
BreakCache(c) ==
  /\ ~At(c, "idle") /\ Break(c) /\ UNCHANGED cacheData

(* Time passes, and Redis drops the entry when its time is over.           *)
Tick ==
  /\ ticks < MaxTicks /\ ticks' = ticks + 1
  /\ cached' = IF cached.left > 1 THEN [cached EXCEPT !.left = @ - 1] ELSE NoEntry
  /\ UNCHANGED <<handlerVars, edition, replaced, stalest>>

CacheNext ==
  \/ \E c \in Calls :
       \/ ServeEdit(c) \/ SaveEdition(c) \/ ServeAnswer(c) \/ ReadEdition(c)
       \/ LookUp(c) \/ Adapt(c) \/ SetCached(c) \/ BreakCache(c)
  \/ Tick

CacheSpec == CacheInit /\ [][CacheNext]_cacheVars

-----------------------------------------------------------------------------
(* Properties.                                                             *)

(* Types of the entry and the handlers.                                    *)
CacheTypeOK ==
  /\ edition \in Editions /\ replaced \in [Editions -> 0 .. MaxTicks]
  /\ cached \in [edition: Editions, left: 0 .. Ttl]
  /\ ticks \in 0 .. MaxTicks /\ stalest \in 0 .. MaxTicks
  /\ \A c \in Calls : call[c].at \in {"idle", "save", "edition", "lookup", "adapter", "setex"}

(* Nothing invalidates the cache when an agent is edited or rolled back,   *)
(* so a run may get the answer of an edition out of force; but for no      *)
(* longer than CACHE_TTL_SECS after the edit, whatever failed, unless the  *)
(* edit overlapped with a run, which may then store its answer late.       *)
StaleAnswersExpire == calm => stalest <= Ttl
=============================================================================
