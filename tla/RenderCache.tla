----------------------------- MODULE RenderCache -----------------------------
(***************************************************************************)
(* One key of the page cache: the read-through of                          *)
(* src/src/cache/RegionCache.ts (readThroughVersioned) over the versions   *)
(* src/src/cache/CacheDependencies.ts snapshots and                        *)
(* src/src/managers/CacheManager.ts keeps, with the page renders of        *)
(* src/src/parsers/MarkupParser.ts as its callers.  A topic is the data of *)
(* one manager, which bumps it after each write.  The versions live in the *)
(* cache they guard, beside the entries, so clearing the cache takes them. *)
(* The data of a topic is the number of its writes; how a page is made     *)
(* from it is left out.  Every read of the in-process store is answered    *)
(* within the call, so an await never separates a question from its answer.*)
(***************************************************************************)
EXTENDS Naturals

CONSTANTS
  Requests,    \* calls of parse that find the page under this key
  Topics,      \* data topics
  Base,        \* BASE_RENDER_TOPICS, which every render declares
  MaxWrites,   \* bound: writes of a topic
  MaxClears    \* bound: times an administrator clears the cache

ASSUME BaseAssumption == Base \subseteq Topics
ASSUME CacheBoundsAssumption == MaxWrites \in Nat /\ MaxClears \in Nat

VARIABLES
  data,        \* per topic, the writes that happened
  owed,        \* per topic, the writes whose bump is still to come
  announced,   \* per topic, the data at its last bump that was kept (history)
  version,     \* per topic, cache-version:<topic>; Unbumped when it has none
  bumps,       \* bumps so far: each makes a version that was never used
  full,        \* maxKeys is reached, counting the keys of other regions
  clears,      \* times the cache was cleared
  entry,       \* what is stored under the key
  req          \* per request, where it is

dataVars == <<data, owed, announced>>
versionVars == <<version, bumps, full, clears>>
cacheVars == <<data, owed, announced, version, bumps, full, clears, entry, req>>

Unbumped == 0

(* A render: the topics it declared, the data it saw of each, the version  *)
(* each had when it was declared.  caught is history: the topics declared  *)
(* at Unbumped that a clear made Unbumped again while this was in use.     *)
Render == [topics : SUBSET Topics, value : [Topics -> Nat], versions : [Topics -> Nat], caught : SUBSET Topics]

NoRender == [topics |-> {}, value |-> [t \in Topics |-> 0], versions |-> [t \in Topics |-> Unbumped], caught |-> {}]
NoEntry == [topics |-> {}, value |-> <<>>]

Idle == [pc |-> "idle", use |-> NoRender, left |-> {}, floor |-> [t \in Topics |-> 0]]

-----------------------------------------------------------------------------
(* The managers. *)

Write(t) == /\ data[t] < MaxWrites
            /\ data' = [data EXCEPT ![t] = @ + 1]
            /\ owed' = [owed EXCEPT ![t] = @ + 1]
            /\ UNCHANGED <<announced, version, bumps, full, clears, entry, req>>

(* A value no topic ever had. *)
NewVersion(t) == bumps + 1

(* CacheManager.bump: the topic's data changed.  The write that a full     *)
(* cache refuses is logged, and what was rendered before stays.            *)
Bump(t) ==
  /\ owed[t] > 0
  /\ owed' = [owed EXCEPT ![t] = @ - 1]
  /\ \/ /\ ~full
        /\ version' = [version EXCEPT ![t] = NewVersion(t)]
        /\ bumps' = bumps + 1
        /\ announced' = [announced EXCEPT ![t] = data[t]]
     \/ full /\ UNCHANGED <<version, bumps, announced>>
  /\ UNCHANGED <<data, full, clears, entry, req>>

-----------------------------------------------------------------------------
(* The cache. *)

(* The entry's time is up, or its region is cleared. *)
Evict == /\ entry # NoEntry
         /\ entry' = NoEntry
         /\ UNCHANGED <<dataVars, versionVars, req>>

(* What of a render in use a clear takes the meaning from: topics that     *)
(* were bumped since and are Unbumped again; while an entry is checked, of *)
(* the versions not compared yet, afterwards of all that were snapshot.    *)
CaughtBy(q) == {t \in (IF q.pc = "check" THEN q.left ELSE q.use.topics) : q.use.versions[t] = Unbumped /\ version[t] # Unbumped}

(* CacheManager.clear without a region: every key goes, versions included. *)
Clear ==
  /\ clears < MaxClears
  /\ clears' = clears + 1
  /\ entry' = NoEntry
  /\ version' = [t \in Topics |-> Unbumped]
  /\ full' = FALSE
  /\ req' = [r \in Requests |-> IF req[r].pc \in {"check", "render", "store"}
                                THEN [req[r] EXCEPT !.use.caught = @ \cup CaughtBy(req[r])]
                                ELSE req[r]]
  /\ UNCHANGED <<dataVars, bumps>>

(* The other users of the store add keys, and theirs expire. *)
OtherKeys == full' = ~full /\ UNCHANGED <<dataVars, version, bumps, clears, entry, req>>

-----------------------------------------------------------------------------
(* readThroughVersioned, await by await. *)

(* The stored entry, if any; its topics are then compared one by one. *)
Ask(r) ==
  /\ req[r].pc = "idle"
  /\ req' = [req EXCEPT ![r].pc = IF entry = NoEntry THEN "miss" ELSE "check",
                        ![r].use = IF entry = NoEntry THEN NoRender ELSE entry,
                        ![r].left = entry.topics,
                        ![r].floor = announced]
  /\ UNCHANGED <<dataVars, versionVars, entry>>

(* stillCurrent, one turn of its loop; the order of the topics is free. *)
CheckTopic(r) ==
  /\ req[r].pc = "check"
  /\ \E t \in req[r].left :
       req' = IF version[t] = req[r].use.versions[t]
              THEN [req EXCEPT ![r].left = @ \ {t}]
              ELSE [req EXCEPT ![r].pc = "miss", ![r].left = {}]
  /\ UNCHANGED <<dataVars, versionVars, entry>>

Hit(r) == /\ req[r].pc = "check" /\ req[r].left = {}
          /\ req' = [req EXCEPT ![r].pc = "done"]
          /\ UNCHANGED <<dataVars, versionVars, entry>>

(* A new collection of dependencies: the base topics are declared before   *)
(* anything is read.                                                       *)
StartRender(r) ==
  /\ req[r].pc = "miss"
  /\ req' = [req EXCEPT ![r].pc = "render",
                        ![r].use = [NoRender EXCEPT !.topics = Base,
                                                    !.versions = [t \in Topics |-> IF t \in Base THEN version[t] ELSE Unbumped]],
                        ![r].left = Base]
  /\ UNCHANGED <<dataVars, versionVars, entry>>

(* A plugin fetches a manager through its engine: dependsOn, then the read. *)
Declare(r, t) ==
  /\ req[r].pc = "render" /\ t \notin req[r].use.topics
  /\ req' = [req EXCEPT ![r].use.topics = @ \cup {t}, ![r].use.versions[t] = version[t], ![r].left = @ \cup {t}]
  /\ UNCHANGED <<dataVars, versionVars, entry>>

(* The first read of a topic, the oldest the page is made from. *)
Read(r, t) ==
  /\ req[r].pc = "render" /\ t \in req[r].left
  /\ req' = [req EXCEPT ![r].use.value[t] = data[t], ![r].left = @ \ {t}]
  /\ UNCHANGED <<dataVars, versionVars, entry>>

(* The page is made: a volatile one is answered and never stored. *)
Finish(r) ==
  /\ req[r].pc = "render" /\ req[r].left = {}
  /\ \E pc \in {"store", "done"} : req' = [req EXCEPT ![r].pc = pc]
  /\ UNCHANGED <<dataVars, versionVars, entry>>

(* Mutant of Stored: the versions are looked up when the page is made. *)
StoredAsOfNow(use) == [use EXCEPT !.versions = [t \in Topics |-> IF t \in use.topics THEN version[t] ELSE Unbumped]]

(* deps.resolved(): each topic with the version it had when declared. *)
Stored(use) == use

(* A full cache refuses the entry, the call fails, and parse answers with  *)
(* the page's source.                                                      *)
Store(r) ==
  /\ req[r].pc = "store"
  /\ \/ ~full /\ entry' = Stored(req[r].use) /\ req' = [req EXCEPT ![r].pc = "done"]
     \/ full /\ req' = [req EXCEPT ![r].pc = "source"] /\ UNCHANGED entry
  /\ UNCHANGED <<dataVars, versionVars>>

-----------------------------------------------------------------------------
CacheInit == /\ data = [t \in Topics |-> 0]
             /\ owed = [t \in Topics |-> 0]
             /\ announced = [t \in Topics |-> 0]
             /\ version = [t \in Topics |-> Unbumped]
             /\ bumps = 0
             /\ full = FALSE
             /\ clears = 0
             /\ entry = NoEntry
             /\ req = [r \in Requests |-> Idle]

CacheNext == \/ \E t \in Topics : Write(t) \/ Bump(t)
             \/ Evict \/ Clear \/ OtherKeys
             \/ \E r \in Requests : \/ Ask(r) \/ CheckTopic(r) \/ Hit(r)
                                    \/ StartRender(r) \/ Finish(r) \/ Store(r)
                                    \/ \E t \in Topics : Declare(r, t) \/ Read(r, t)

CacheSpec == CacheInit /\ [][CacheNext]_cacheVars

-----------------------------------------------------------------------------
Request == [pc : {"idle", "check", "miss", "render", "store", "done", "source"},
            use : Render, left : SUBSET Topics, floor : [Topics -> Nat]]

(* Types; no version is newer than the last bump, no data is announced     *)
(* before it is written, and a topic is read only once it is declared.     *)
CacheTypeOK ==
  /\ data \in [Topics -> Nat] /\ owed \in [Topics -> Nat] /\ announced \in [Topics -> Nat]
  /\ version \in [Topics -> 0 .. bumps] /\ bumps \in Nat /\ clears \in Nat /\ full \in BOOLEAN
  /\ entry \in Render \cup {NoEntry}
  /\ req \in [Requests -> Request]
  /\ \A t \in Topics : announced[t] <= data[t]
  /\ \A r \in Requests : req[r].left \subseteq req[r].use.topics

Stale(q) == {t \in q.use.topics : q.use.value[t] < q.floor[t]}

(* A page that is answered was made from data no older than what had been  *)
(* announced when it was asked for, of every topic it declared, whatever   *)
(* was written, bumped or cleared while it was checked, made or stored by  *)
(* this request or another; except a topic that had no version when it was *)
(* declared and lost the one it got to a clear while the page was in use.  *)
ServedIsFresh == \A r \in Requests : req[r].pc = "done" => Stale(req[r]) \subseteq req[r].use.caught

(* What CacheManager.ts says of bump: every cached render that read the    *)
(* topic is made again on its next read, without that exception.           *)
ReRendered == \A r \in Requests : req[r].pc = "done" => Stale(req[r]) = {}
=============================================================================
