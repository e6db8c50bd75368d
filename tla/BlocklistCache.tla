--------------------------- MODULE BlocklistCache ---------------------------
(***************************************************************************)
(* The in-memory blocklist (blocklist.Cache) next to the table it copies.  *)
(* The map lives in an atomic.Value: Add loads it, copies it and stores    *)
(* the copy; Refresh lists the table and stores the result.  Neither holds *)
(* a lock from its read to its write.  Only the result consumer adds and   *)
(* only Cache.Run refreshes, so there is one of each at a time.  What the  *)
(* outbox worker does with IsBlocked is in SendPipeline.                   *)
(*                                                                         *)
(* This module gives the component's state and operations; ReplyHandling   *)
(* runs them beside the result consumer.                                   *)
(***************************************************************************)
EXTENDS FiniteSets

CONSTANTS
  Recipient,    \* (tenant, phone) pairs
  Nobody        \* no recipient

ASSUME NobodyAssumption == Nobody \notin Recipient

\* No refresh, or no addition, is under way.
NoMap == {Nobody}

VARIABLES
  table,        \* tenant_blocked_recipients
  cache,        \* the map in Cache.data
  listed,       \* Refresh: the map it is about to store
  loaded,       \* Add: the map it copies
  adding        \* Add: the recipient it adds, as a set of at most one

cacheVars == <<cache, listed, loaded, adding>>

CacheTypeOK ==
  /\ table \subseteq Recipient
  /\ cache \subseteq Recipient
  /\ listed \in (SUBSET Recipient) \cup {NoMap}
  /\ loaded \in (SUBSET Recipient) \cup {NoMap}
  /\ adding \subseteq Recipient

CacheInit ==
  /\ table = {}
  /\ cache = {}
  /\ listed = NoMap
  /\ loaded = NoMap
  /\ adding = {}

\* RegisterReply, for an unsubscribe word: committed with the reply.
BlockRecipient(p) == table' = table \cup {p}

IsBlocked(p) == p \in cache

AddLoad(p) ==
  /\ loaded' = cache
  /\ adding' = {p}
  /\ UNCHANGED <<cache, listed>>

\* Mutant: the copy is forgotten.
AddStoreAlone == cache' = adding

AddStore == cache' = loaded \cup adding

AddEnd ==
  /\ AddStore
  /\ loaded' = NoMap
  /\ adding' = {}
  /\ UNCHANGED listed

RefreshList ==
  /\ listed = NoMap
  /\ listed' = table
  /\ UNCHANGED <<cache, loaded, adding>>

\* Mutant: a refresh only drops who is no longer blocked.
RefreshStorePrunes ==
  /\ listed # NoMap
  /\ cache' = cache \cap listed
  /\ listed' = NoMap
  /\ UNCHANGED <<loaded, adding>>

RefreshStore ==
  /\ listed # NoMap
  /\ cache' = listed
  /\ listed' = NoMap
  /\ UNCHANGED <<loaded, adding>>

CacheRestart ==
  /\ cache' = {}
  /\ listed' = NoMap
  /\ loaded' = NoMap
  /\ adding' = {}

-----------------------------------------------------------------------------
\* The cache blocks nobody whom the table does not.
CacheSound == cache \subseteq table

\* A recipient whom the cache holds and no operation under way will drop.
Settled(p) ==
  /\ p \in cache
  /\ listed = NoMap \/ p \in listed
  /\ loaded = NoMap \/ p \in loaded
=============================================================================
