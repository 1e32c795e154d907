----------------------------- MODULE QueryCache -----------------------------
(***************************************************************************)
(* The query cache of the browser: lib/queries.ts over TanStack Query.     *)
(* One entry of the cache, any of those that show an agent, its versions   *)
(* or a key and have a route, with the mutations that change what it shows *)
(* and, once they are answered, mark entries by their keys.  Entries do    *)
(* not act on each other.                                                  *)
(***************************************************************************)
EXTENDS Integers, Sequences

CONSTANTS
  ChangeIds   \* bound: mutations that may be started, once each

VARIABLES
  entry,    \* the entry that is looked at
  opened,   \* a page that uses the entry is open
  held,     \* the entry has data
  behind,   \* history: what was written since these were read
  marked,   \* isInvalidated
  aged,     \* staleTime has passed
  fetch,    \* where the request of the entry is that is under way
  outdated, \* history: what was written since it was answered
  changes,  \* the mutations
  since,    \* history: the answers not followed since held was asked for: the
            \* mutation that does not mark the entry, "overtook" or "failed"
  lately    \* history: the same since the request under way was sent

cacheEntry == <<held, behind, marked, aged, fetch, outdated, since, lately>>
queryVars  == <<entry, opened, changes, cacheEntry>>

-----------------------------------------------------------------------------
(* What an entry shows of the server: the agent's row, whether there are   *)
(* other agents, its versions, whether an API key is active, and the key.  *)
SpaceEntries == {"drafts", "draft", "versions"}
AgentEntries == {"agents", "agent", "cost"}
ApiEntries   == {"products", "product", "myKeys"}
Entries == SpaceEntries \cup AgentEntries \cup ApiEntries

Shows == [drafts   |-> {"row", "others"}, draft   |-> {"row"}, versions |-> {"versions"},
          agents   |-> {"row", "others"}, agent   |-> {"row"}, cost |-> {"row"},
          products |-> {"active"}, product |-> {"active", "secret"}, myKeys |-> {"active", "secret"}]

SpaceNames == {"createDraft", "updateDraft", "deleteDraft", "deployDraft", "createVersion", "rollback"}
ApiNames   == {"subscribe", "unsubscribe", "revoke", "rotate", "addApi", "removeApi"}

(* What the requests of a mutation write, one after the other.             *)
SpaceWrites == [createDraft |-> <<{"others"}>>, updateDraft |-> <<{"row"}>>,
                deleteDraft |-> <<{"row"}>>, deployDraft |-> <<{"versions"}, {"row"}>>,
                createVersion |-> <<{"versions"}>>, rollback |-> <<{"row", "versions"}>>]
ApiWrites == [subscribe |-> <<{"active", "secret"}>>, unsubscribe |-> <<{"active"}>>,
              revoke |-> <<{"active"}>>, rotate |-> <<{"secret"}>>,
              addApi |-> <<{"row"}>>, removeApi |-> <<{"row"}>>]
Writes(name) == IF name \in SpaceNames THEN SpaceWrites[name] ELSE ApiWrites[name]

(* Slip: spaceKeys.all stands for the lists only.                          *)
ListsOnly(name) ==
  IF name = "createVersion" THEN {"versions", "draft"} ELSE {"drafts", "versions"}

(* The entries the onSuccess of a mutation marks.                          *)
SpaceMarks(name) ==
  IF name = "createVersion" THEN {"versions", "draft"} ELSE SpaceEntries

ApiMarks(name) ==
  CASE name \in {"subscribe", "unsubscribe"} -> ApiEntries
    [] name \in {"revoke", "rotate"} -> {"myKeys"}
    [] OTHER -> {"agent"}

Marks(name) == IF name \in SpaceNames THEN SpaceMarks(name) ELSE ApiMarks(name)

-----------------------------------------------------------------------------
(* The entry.                                                              *)

Unstarted == [at |-> "idle", name |-> "none", request |-> 1]

QueryInit ==
  /\ entry \in Entries
  /\ opened = FALSE
  /\ held = FALSE /\ behind = {} /\ marked = FALSE /\ aged = FALSE
  /\ fetch = "idle" /\ outdated = {}
  /\ changes = [i \in ChangeIds |-> Unstarted]
  /\ since = {} /\ lately = {}

(* A page opens: an entry that is empty, marked or old is fetched, unless  *)
(* it is being fetched.                                                    *)
OpenPage ==
  /\ ~opened /\ opened' = TRUE
  /\ fetch' = IF fetch = "idle" /\ (~held \/ marked \/ aged) THEN "sent" ELSE fetch
  /\ UNCHANGED <<entry, changes, held, behind, marked, aged, outdated, since, lately>>

(* A request under way goes on.                                            *)
LeavePage ==
  /\ opened /\ opened' = FALSE
  /\ UNCHANGED <<entry, changes, cacheEntry>>

ReadServer ==
  /\ fetch = "sent" /\ fetch' = "read" /\ outdated' = {}
  /\ UNCHANGED <<entry, opened, changes, held, behind, marked, aged, since, lately>>

(* An answer clears the mark, whenever it was set.                         *)
Arrive ==
  /\ fetch = "read" /\ fetch' = "idle"
  /\ held' = TRUE /\ behind' = outdated /\ outdated' = {}
  /\ marked' = FALSE /\ aged' = FALSE
  /\ since' = lately /\ lately' = {}
  /\ UNCHANGED <<entry, opened, changes>>

(* A request fails for good: retry is false.                               *)
LoseFetch ==
  /\ fetch # "idle" /\ fetch' = "idle"
  /\ outdated' = {} /\ lately' = {} /\ marked' = (marked /\ held)
  /\ UNCHANGED <<entry, opened, changes, held, behind, aged, since>>

(* The list of agents has retry 1: a request that fails is sent once more. *)
SendAgain ==
  /\ entry = "agents" /\ fetch # "idle" /\ fetch' = "sent" /\ outdated' = {}
  /\ UNCHANGED <<entry, opened, changes, held, behind, marked, aged, since, lately>>

(* staleTime passes; a page that stays open does not fetch again.          *)
GrowOld ==
  /\ held /\ ~aged /\ aged' = TRUE
  /\ UNCHANGED <<entry, opened, changes, held, behind, marked, fetch, outdated, since, lately>>

(* An entry that no page has used for long is dropped.                     *)
Collect ==
  /\ ~opened /\ fetch = "idle" /\ aged
  /\ held' = FALSE /\ behind' = {} /\ marked' = FALSE /\ aged' = FALSE /\ since' = {}
  /\ UNCHANGED <<entry, opened, changes, fetch, outdated, lately>>

-----------------------------------------------------------------------------
(* The mutations; one that neither writes what the entry shows nor marks   *)
(* it leaves it alone, and is left out.                                    *)

Concerned ==
  {name \in SpaceNames \cup ApiNames :
     \/ entry \in Marks(name)
     \/ \E k \in DOMAIN Writes(name) : Writes(name)[k] \cap Shows[entry] # {}}

Over == [Unstarted EXCEPT !.at = "ended"]

(* A request of a mutation writes what it writes on the server.            *)
WriteServer(i) ==
  LET written == Writes(changes[i].name)[changes[i].request] \cap Shows[entry]
  IN /\ behind'   = IF held THEN behind \cup written ELSE behind
     /\ outdated' = IF fetch = "read" THEN outdated \cup written ELSE outdated

(* What becomes of an entry that is marked: a page that is open has it     *)
(* fetched anew, but for a first fetch, which is not sent again.           *)
Overtaken == fetch # "idle" /\ ~(held /\ opened)

Refetch ==
  /\ marked' = (held \/ fetch # "idle")
  /\ IF opened /\ (held \/ fetch = "idle")
     THEN fetch' = "sent" /\ outdated' = {}
     ELSE UNCHANGED <<fetch, outdated>>

Remember(answer) ==
  /\ since'  = IF held THEN since \cup {answer} ELSE since
  /\ lately' = IF fetch # "idle" THEN lately \cup {answer} ELSE lately

Mutate(i) ==
  /\ changes[i].at = "idle"
  /\ \E name \in Concerned :
       changes' = [changes EXCEPT ![i] = [at |-> "sent", name |-> name, request |-> 1]]
  /\ UNCHANGED <<entry, opened, cacheEntry>>

Commit(i) ==
  /\ changes[i].at = "sent"
  /\ WriteServer(i)
  /\ changes' = [changes EXCEPT ![i].at = "landed"]
  /\ UNCHANGED <<entry, opened, held, marked, aged, fetch, since, lately>>

(* useDeployDraft sends a second request after the first is answered.      *)
SendNext(i) ==
  /\ changes[i].at = "landed" /\ changes[i].request < Len(Writes(changes[i].name))
  /\ changes' = [changes EXCEPT ![i].at = "sent", ![i].request = @ + 1]
  /\ UNCHANGED <<entry, opened, cacheEntry>>

Succeed(i) ==
  LET name == changes[i].name
  IN /\ changes[i].at = "landed" /\ changes[i].request = Len(Writes(name))
     /\ changes' = [changes EXCEPT ![i] = Over]
     /\ CASE entry \notin Marks(name) -> Remember(name) /\ UNCHANGED <<marked, fetch, outdated>>
          [] entry \in Marks(name) /\ Overtaken -> Remember("overtook") /\ Refetch
          [] OTHER -> Refetch /\ lately' = {} /\ UNCHANGED since
     /\ UNCHANGED <<entry, opened, held, behind, aged>>

(* A mutation that fails marks nothing, whatever its requests have written *)
(* or, when only the connection failed, will have.                         *)
Fail(i) ==
  /\ changes[i].at \in {"sent", "landed"}
  /\ changes' = [changes EXCEPT ![i] = IF @.at = "sent" THEN [@ EXCEPT !.at = "adrift"] ELSE Over]
  /\ Remember("failed")
  /\ UNCHANGED <<entry, opened, held, behind, marked, aged, fetch, outdated>>

CommitLate(i) ==
  /\ changes[i].at = "adrift"
  /\ WriteServer(i)
  /\ changes' = [changes EXCEPT ![i] = Over]
  /\ Remember("failed")
  /\ UNCHANGED <<entry, opened, held, marked, aged, fetch>>

QueryNext ==
  \/ OpenPage \/ LeavePage \/ ReadServer \/ Arrive \/ LoseFetch \/ SendAgain \/ GrowOld
  \/ Collect
  \/ \E i \in ChangeIds : \/ Mutate(i) \/ Commit(i) \/ SendNext(i) \/ Succeed(i)
                          \/ Fail(i) \/ CommitLate(i)

QuerySpec == QueryInit /\ [][QueryNext]_queryVars

-----------------------------------------------------------------------------
(* Properties.                                                             *)

(* Types of the entry and of the mutations.                                *)
QueryTypeOK ==
  /\ entry \in Entries /\ {opened, held, marked, aged} \subseteq BOOLEAN
  /\ behind \subseteq Shows[entry] /\ outdated \subseteq Shows[entry]
  /\ fetch \in {"idle", "sent", "read"}
  /\ since \cup lately \subseteq SpaceNames \cup ApiNames \cup {"overtook", "failed"}
  /\ \A i \in ChangeIds : changes[i].at \in {"idle", "sent", "landed", "adrift", "ended"}

(* The pairs the keys leave out: an agent is shown under two families of   *)
(* keys, and what it costs under one that is never marked; a key is shown  *)
(* on the pages of the marketplace as well.                                *)
LeftOut ==
  ({"updateDraft", "deleteDraft", "deployDraft", "rollback"} \X AgentEntries)
  \cup ({"addApi", "removeApi"} \X {"agents", "cost", "drafts", "draft"})
  \cup {<<"createDraft", "agents">>, <<"revoke", "products">>, <<"revoke", "product">>,
        <<"rotate", "product">>}

(* In whatever order pages open, mutations are answered and fetches        *)
(* return, an entry that is behind the server and is taken for fresh is    *)
(* behind a mutation that is not answered yet or has failed, one that      *)
(* overtook the entry's first fetch or one whose page was left, or one of  *)
(* the pairs the keys leave out.                                           *)
ViewsFollow ==
  behind # {} /\ ~marked /\ fetch = "idle" =>
    \/ \E i \in ChangeIds : /\ changes[i].at = "landed" \/ changes[i].request > 1
                            /\ changes[i].at \in {"sent", "landed"}
    \/ \E e \in since : e \in {"overtook", "failed"} \/ <<e, entry>> \in LeftOut
=============================================================================
