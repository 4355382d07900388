-------------------------- MODULE RenderCache_proofs --------------------------
(***************************************************************************)
(* What RenderCache.tla serves is as fresh as its versions promise, for    *)
(* any requests, topics and number of writes and clears.                   *)
(***************************************************************************)
EXTENDS RenderCache, TLAPS

(* What a clear leaves of a request: the fields and what they hold. *)
LEMMA Recaught ==
  ASSUME NEW q \in Request, NEW C \in SUBSET Topics, q.left \subseteq q.use.topics
  PROVE  LET p == [q EXCEPT !.use.caught = @ \cup C]
         IN  /\ p \in Request /\ p.left \subseteq p.use.topics
             /\ p.pc = q.pc /\ p.left = q.left /\ p.floor = q.floor
             /\ p.use.topics = q.use.topics /\ p.use.value = q.use.value /\ p.use.versions = q.use.versions
             /\ p.use.caught = q.use.caught \cup C
<1> DEFINE new == [q.use EXCEPT !.caught = @ \cup C]
<1>1. /\ new \in Render /\ new.topics = q.use.topics /\ new.value = q.use.value
      /\ new.versions = q.use.versions /\ new.caught = q.use.caught \cup C
  BY DEF Request, Render
<1>2. [q EXCEPT !.use.caught = @ \cup C] = [q EXCEPT !.use = new]
  BY DEF Request, Render
<1> HIDE DEF new
<1>. QED BY <1>1, <1>2 DEF Request

(* What declaring topic t at version v makes of a request. *)
WithTopic(q, t, v) == [q EXCEPT !.use.topics = @ \cup {t}, !.use.versions[t] = v, !.left = @ \cup {t}]

LEMMA Declared ==
  ASSUME NEW q \in Request, NEW t \in Topics, NEW v, [q.use.versions EXCEPT ![t] = v] \in [Topics -> Nat],
         q.left \subseteq q.use.topics
  PROVE  LET p == WithTopic(q, t, v) IN
         /\ p \in Request /\ p.left \subseteq p.use.topics
         /\ p.pc = q.pc /\ p.left = q.left \cup {t} /\ p.floor = q.floor
         /\ p.use.topics = q.use.topics \cup {t} /\ p.use.value = q.use.value /\ p.use.caught = q.use.caught
         /\ p.use.versions = [q.use.versions EXCEPT ![t] = v]
<1> DEFINE first == [q EXCEPT !.use.topics = @ \cup {t}]
           second == [first EXCEPT !.use.versions[t] = v]
<1>1. /\ first \in Request /\ first.pc = q.pc /\ first.left = q.left /\ first.floor = q.floor
      /\ first.use = [q.use EXCEPT !.topics = @ \cup {t}]
  BY DEF Request, Render
<1>2. /\ first.use \in Render /\ first.use.topics = q.use.topics \cup {t} /\ first.use.value = q.use.value
      /\ first.use.versions = q.use.versions /\ first.use.caught = q.use.caught
  BY <1>1 DEF Request, Render
<1>3. WithTopic(q, t, v) = [second EXCEPT !.left = @ \cup {t}]
  BY DEF WithTopic
<1> HIDE DEF first
<1>4. /\ second \in Request /\ second.pc = q.pc /\ second.left = q.left /\ second.floor = q.floor
      /\ second.use = [first.use EXCEPT !.versions[t] = v]
  BY <1>1, <1>2 DEF Request, Render
<1>5. /\ second.use \in Render /\ second.use.topics = q.use.topics \cup {t} /\ second.use.value = q.use.value
      /\ second.use.versions = [q.use.versions EXCEPT ![t] = v] /\ second.use.caught = q.use.caught
  BY <1>2, <1>4 DEF Request, Render
<1> HIDE DEF second
<1> DEFINE third == [second EXCEPT !.left = @ \cup {t}]
<1>6. /\ third \in Request /\ third.pc = q.pc /\ third.floor = q.floor /\ third.use = second.use
      /\ third.left = q.left \cup {t}
  BY <1>4 DEF Request
<1>7. third.left \subseteq third.use.topics
  BY <1>5, <1>6
<1>8. WithTopic(q, t, v) = third
  BY <1>3
<1> HIDE DEF third
<1>. QED BY <1>5, <1>6, <1>7, <1>8

(* Types. *)

THEOREM CacheTypesCorrect == CacheSpec => []CacheTypeOK
<1>1. CacheInit => CacheTypeOK
  <2> SUFFICES ASSUME CacheInit PROVE CacheTypeOK
    OBVIOUS
  <2>1. NoRender \in Render
    BY DEF NoRender, Render, Unbumped
  <2>2. Idle \in Request /\ Idle.left \subseteq Idle.use.topics
    BY <2>1 DEF Idle, Request
  <2>3. version \in [Topics -> 0 .. bumps] /\ bumps \in Nat
    BY DEF CacheInit, Unbumped
  <2>4. /\ data \in [Topics -> Nat] /\ owed \in [Topics -> Nat] /\ announced \in [Topics -> Nat]
        /\ \A t \in Topics : announced[t] <= data[t]
    BY DEF CacheInit
  <2>6. clears \in Nat /\ full \in BOOLEAN /\ entry \in Render \cup {NoEntry}
    BY DEF CacheInit
  <2>5. req \in [Requests -> Request] /\ \A r \in Requests : req[r].left \subseteq req[r].use.topics
    BY <2>2 DEF CacheInit
  <2>. QED BY <2>3, <2>4, <2>5, <2>6 DEF CacheTypeOK
<1>2. CacheTypeOK /\ [CacheNext]_cacheVars => CacheTypeOK'
  <2>0. SUFFICES ASSUME CacheTypeOK, [CacheNext]_cacheVars PROVE CacheTypeOK'
    OBVIOUS
  <2> USE DEF CacheTypeOK
  <2>1. CASE UNCHANGED cacheVars
    BY <2>0, <2>1 DEF cacheVars
  <2>2. ASSUME NEW t \in Topics, Write(t) PROVE CacheTypeOK'
    BY <2>0, <2>2 DEF Write
  <2>3. ASSUME NEW t \in Topics, Bump(t) PROVE CacheTypeOK'
    <3>1. CASE full
      BY <2>0, <2>3, <3>1 DEF Bump
    <3>2. CASE ~full
      BY <2>0, <2>3, <3>2 DEF Bump, NewVersion
    <3>. QED BY <3>1, <3>2
  <2>4. CASE Evict
    BY <2>0, <2>4 DEF Evict, dataVars, versionVars
  <2>5. CASE Clear
    <3>1. ASSUME NEW r \in Requests PROVE req'[r] \in Request /\ req'[r].left \subseteq req'[r].use.topics
      <4>1. CaughtBy(req[r]) \subseteq Topics
        BY <2>0 DEF CaughtBy, Request, Render
      <4>2. CASE req[r].pc \notin {"check", "render", "store"}
        BY <2>0, <2>5, <4>2 DEF Clear
      <4>3. CASE req[r].pc \in {"check", "render", "store"}
        BY <2>0, <2>5, <4>1, <4>3, Recaught DEF Clear
      <4>. QED BY <4>2, <4>3
    <3>2. version' \in [Topics -> 0 .. bumps']
      BY <2>0, <2>5 DEF Clear, Unbumped
    <3>3. req' \in [Requests -> Request]
      BY <2>5, <3>1 DEF Clear
    <3>4. \A r \in Requests : req'[r].left \subseteq req'[r].use.topics
      BY <3>1
    <3>5. data' = data /\ owed' = owed /\ announced' = announced /\ bumps' = bumps
      BY <2>5 DEF Clear, dataVars
    <3>6. clears' = clears + 1 /\ full' = FALSE /\ entry' = NoEntry
      BY <2>5 DEF Clear
    <3>7. clears' \in Nat
      BY <2>0, <3>6
    <3>. QED BY <2>0, <3>2, <3>3, <3>4, <3>5, <3>6, <3>7
  <2>6. CASE OtherKeys
    BY <2>0, <2>6 DEF OtherKeys, dataVars
  <2>7. ASSUME NEW r \in Requests, Ask(r) PROVE CacheTypeOK'
    <3>1. entry.topics \subseteq Topics
      BY <2>0 DEF Render, NoEntry
    <3>2. req'[r] \in Request /\ req'[r].left \subseteq req'[r].use.topics
      <4>1. CASE entry = NoEntry
        <5>1. NoRender \in Render
          BY DEF NoRender, Render, Unbumped
        <5>2. req'[r] = [req[r] EXCEPT !.pc = "miss", !.use = NoRender, !.left = {}, !.floor = announced]
          BY <2>0, <2>7, <4>1 DEF Ask, NoEntry
        <5>3. req[r] \in Request /\ announced \in [Topics -> Nat]
          BY <2>0
        <5> HIDE DEF CacheTypeOK
        <5>4. req'[r] = [pc |-> "miss", use |-> NoRender, left |-> {}, floor |-> announced]
          BY <5>2, <5>3 DEF Request
        <5>. QED BY <5>1, <5>3, <5>4 DEF Request
      <4>2. CASE entry # NoEntry
        <5>1. req'[r] = [req[r] EXCEPT !.pc = "check", !.use = entry, !.left = entry.topics, !.floor = announced]
          BY <2>0, <2>7, <4>2 DEF Ask
        <5>2. req[r] \in Request /\ announced \in [Topics -> Nat] /\ entry \in Render
          BY <2>0, <4>2
        <5> HIDE DEF CacheTypeOK
        <5>3. req'[r] = [pc |-> "check", use |-> entry, left |-> entry.topics, floor |-> announced]
          BY <5>1, <5>2 DEF Request
        <5>. QED BY <3>1, <5>2, <5>3 DEF Request
      <4>. QED BY <4>1, <4>2
    <3>. QED BY <2>0, <2>7, <3>2 DEF Ask, dataVars, versionVars
  <2>8. ASSUME NEW r \in Requests, CheckTopic(r) PROVE CacheTypeOK'
    <3>1. req'[r] \in Request /\ req'[r].left \subseteq req'[r].use.topics
      <4>1. PICK t \in req[r].left :
              req' = IF version[t] = req[r].use.versions[t]
                     THEN [req EXCEPT ![r].left = @ \ {t}]
                     ELSE [req EXCEPT ![r].pc = "miss", ![r].left = {}]
        BY <2>8 DEF CheckTopic
      <4>2. CASE version[t] = req[r].use.versions[t]
        BY <2>0, <4>1, <4>2 DEF Request
      <4>3. CASE version[t] # req[r].use.versions[t]
        BY <2>0, <4>1, <4>3 DEF Request
      <4>. QED BY <4>2, <4>3
    <3>2. \A q \in Requests \ {r} : req'[q] = req[q]
      BY <2>0, <2>8 DEF CheckTopic
    <3>3. req' \in [Requests -> Request]
      BY <2>0, <2>8, <3>1, <3>2 DEF CheckTopic
    <3>. QED BY <2>0, <2>8, <3>1, <3>2, <3>3 DEF CheckTopic, dataVars, versionVars
  <2>9. ASSUME NEW r \in Requests, Hit(r) PROVE CacheTypeOK'
    BY <2>0, <2>9 DEF Hit, dataVars, versionVars, Request
  <2>10. ASSUME NEW r \in Requests, StartRender(r) PROVE CacheTypeOK'
    <3>1. req'[r] \in Request /\ req'[r].left \subseteq req'[r].use.topics
      <4> DEFINE new == [NoRender EXCEPT !.topics = Base,
                                         !.versions = [t \in Topics |-> IF t \in Base THEN version[t] ELSE Unbumped]]
      <4>1. new \in Render /\ new.topics = Base
        <5>1. [t \in Topics |-> IF t \in Base THEN version[t] ELSE Unbumped] \in [Topics -> Nat]
          BY <2>0 DEF Unbumped
        <5>2. NoRender \in Render
          BY DEF NoRender, Render, Unbumped
        <5>. QED BY <5>1, <5>2, BaseAssumption DEF Render
      <4>2. req'[r] = [pc |-> "render", use |-> new, left |-> Base, floor |-> req[r].floor]
        BY <2>0, <2>10 DEF StartRender, Request
      <4> HIDE DEF new
      <4>. QED BY <2>0, <4>1, <4>2, BaseAssumption DEF Request
    <3>. QED BY <2>0, <2>10, <3>1 DEF StartRender, dataVars, versionVars
  <2>11. ASSUME NEW r \in Requests, Finish(r) PROVE CacheTypeOK'
    <3>1. PICK pc \in {"store", "done"} : req' = [req EXCEPT ![r].pc = pc]
      BY <2>11 DEF Finish
    <3>2. req'[r] \in Request /\ req'[r].left \subseteq req'[r].use.topics
      BY <2>0, <3>1 DEF Request
    <3>. QED BY <2>0, <2>11, <3>1, <3>2 DEF Finish, dataVars, versionVars
  <2>12. ASSUME NEW r \in Requests, Store(r) PROVE CacheTypeOK'
    <3>1. PICK pc \in {"done", "source"} : req' = [req EXCEPT ![r].pc = pc]
      BY <2>12 DEF Store
    <3>2. req'[r] \in Request /\ req'[r].left \subseteq req'[r].use.topics
      BY <2>0, <3>1 DEF Request
    <3>3. req[r].use \in Render
      BY <2>0 DEF Request
    <3>4. entry' \in Render \cup {NoEntry}
      BY <2>0, <2>12, <3>3 DEF Store, Stored
    <3>. QED BY <2>0, <2>12, <3>1, <3>2, <3>4 DEF Store, dataVars, versionVars
  <2>13. ASSUME NEW r \in Requests, NEW t \in Topics, Declare(r, t) PROVE CacheTypeOK'
    <3>1. req'[r] = WithTopic(req[r], t, version[t])
      BY <2>0, <2>13 DEF Declare, WithTopic
    <3>2. [req[r].use.versions EXCEPT ![t] = version[t]] \in [Topics -> Nat]
      BY <2>0 DEF Request, Render
    <3>3. req'[r] \in Request /\ req'[r].left \subseteq req'[r].use.topics
      <4> DEFINE q == req[r]
      <4>1. /\ q \in Request /\ q.left \subseteq q.use.topics /\ req'[r] = WithTopic(q, t, version[t])
            /\ [q.use.versions EXCEPT ![t] = version[t]] \in [Topics -> Nat]
        BY <2>0, <3>1, <3>2
      <4> HIDE DEF CacheTypeOK, q
      <4> DEFINE p == WithTopic(q, t, version[t])
      <4>2. p \in Request /\ p.left \subseteq p.use.topics
        BY <4>1, Declared
      <4>. QED BY <4>1, <4>2
    <3>. QED BY <2>0, <2>13, <3>3 DEF Declare, dataVars, versionVars
  <2>14. ASSUME NEW r \in Requests, NEW t \in Topics, Read(r, t) PROVE CacheTypeOK'
    <3>1. req'[r] \in Request /\ req'[r].left \subseteq req'[r].use.topics
      <4> DEFINE new == [req[r].use EXCEPT !.value[t] = data[t]]
      <4>1. req[r].use \in Render /\ data[t] \in Nat
        BY <2>0 DEF Request
      <4>2. new \in Render /\ new.topics = req[r].use.topics
        BY <4>1 DEF Render
      <4>3. req'[r] = [pc |-> req[r].pc, use |-> new, left |-> req[r].left \ {t}, floor |-> req[r].floor]
        BY <2>0, <2>14 DEF Read, Request
      <4> HIDE DEF new
      <4>. QED BY <2>0, <4>2, <4>3 DEF Request
    <3>. QED BY <2>0, <2>14, <3>1 DEF Read, dataVars, versionVars
  <2>. QED BY <2>0, <2>1, <2>2, <2>3, <2>4, <2>5, <2>6, <2>7, <2>8, <2>9, <2>10, <2>11, <2>12, <2>13, <2>14 DEF CacheNext
<1>. QED BY <1>1, <1>2, PTL DEF CacheSpec

-----------------------------------------------------------------------------
(***************************************************************************)
(* What is served.  A match of versions vouches for a render: while topic  *)
(* t still has the version it had when the render declared it, the render  *)
(* is made of data no older than the last bump of t told of.  It is so     *)
(* because a topic is declared before it is read, every bump makes a new   *)
(* version, and a clear that brings the old one back is noted in caught.   *)
(***************************************************************************)
Vouched(use, t) == version[t] = use.versions[t] => use.value[t] >= announced[t] \/ t \in use.caught

EntryInv == entry # NoEntry => \A t \in entry.topics : Vouched(entry, t) /\ entry.versions[t] <= bumps

(* A check: the topics still to compare vouch, the others are fresh.       *)
CheckInv(q) == q.pc = "check" => /\ \A t \in q.left : Vouched(q.use, t)
                                 /\ \A t \in q.use.topics \ q.left : q.use.value[t] >= q.floor[t] \/ t \in q.use.caught

(* A render: what it has read vouches, and is fresh.                       *)
MakeInv(q) == q.pc \in {"render", "store"} => \A t \in q.use.topics \ q.left : Vouched(q.use, t) /\ q.use.value[t] >= q.floor[t]

RequestInv(q) ==
  /\ \A t \in Topics : q.floor[t] <= announced[t]
  /\ \A t \in q.use.topics : q.use.versions[t] <= bumps
  /\ CheckInv(q)
  /\ MakeInv(q)
  /\ q.pc = "store" => q.left = {}
  /\ q.pc = "done" => Stale(q) \subseteq q.use.caught

CacheInv == EntryInv /\ \A r \in Requests : RequestInv(req[r])

(* What a request and an entry are, and what is known of their numbers. *)
LEMMA CacheTypesOf ==
  ASSUME CacheTypeOK
  PROVE  /\ \A r \in Requests : /\ req[r] \in Request /\ req[r].use \in Render /\ req[r].left \subseteq req[r].use.topics
                                /\ req[r].use.topics \subseteq Topics
         /\ \A r \in Requests, t \in Topics : /\ req[r].floor[t] \in Nat /\ req[r].use.value[t] \in Nat
                                              /\ req[r].use.versions[t] \in Nat
         /\ \A t \in Topics : /\ data[t] \in Nat /\ announced[t] \in Nat /\ version[t] \in Nat
                              /\ announced[t] <= data[t] /\ version[t] <= bumps
         /\ bumps \in Nat
         /\ entry # NoEntry => /\ entry \in Render /\ entry.topics \subseteq Topics
                               /\ \A t \in Topics : entry.value[t] \in Nat /\ entry.versions[t] \in Nat
  BY DEF CacheTypeOK, Request, Render

(* One step of one request: the others and the entry stay as they are.     *)
LEMMA OneRequest ==
  ASSUME CacheTypeOK, CacheInv, NEW r \in Requests, UNCHANGED <<version, announced, bumps>>,
         \A q \in Requests \ {r} : req'[q] = req[q], RequestInv(req[r])', EntryInv'
  PROVE  CacheInv'
<1>1. ASSUME NEW q \in Requests \ {r} PROVE RequestInv(req[q])'
  <2>1. RequestInv(req[q])
    BY DEF CacheInv
  <2>2. req'[q] = req[q]
    OBVIOUS
  <2>. QED BY <2>1, <2>2 DEF RequestInv, CheckInv, MakeInv, Vouched, Stale
<1>. QED BY <1>1 DEF CacheInv

LEMMA InitVouched == CacheInit => CacheInv
<1> SUFFICES ASSUME CacheInit PROVE CacheInv
  OBVIOUS
<1>1. EntryInv
  BY DEF CacheInit, EntryInv
<1>2. ASSUME NEW r \in Requests PROVE RequestInv(req[r])
  BY DEF CacheInit, RequestInv, CheckInv, MakeInv, Idle, NoRender
<1>. QED BY <1>1, <1>2 DEF CacheInv

(* The managers: a bump makes the topic's version one that no render has.  *)
LEMMA WriteKeepsInv == ASSUME CacheTypeOK, CacheInv, NEW t \in Topics, Write(t) PROVE CacheInv'
  BY DEF Write, CacheInv, EntryInv, RequestInv, CheckInv, MakeInv, Vouched, Stale

LEMMA BumpKeepsInv == ASSUME CacheTypeOK, CacheInv, NEW t \in Topics, Bump(t) PROVE CacheInv'
<1>1. CASE full
  <2>1. UNCHANGED <<version, announced, bumps, entry, req>>
    BY <1>1 DEF Bump
  <2>. QED BY <2>1 DEF CacheInv, EntryInv, RequestInv, CheckInv, MakeInv, Vouched, Stale
<1>2. CASE ~full
  <2>1. /\ version' = [version EXCEPT ![t] = bumps + 1] /\ bumps' = bumps + 1
        /\ announced' = [announced EXCEPT ![t] = data[t]] /\ req' = req /\ entry' = entry
    BY <1>2 DEF Bump, NewVersion
  <2>2. /\ version'[t] = bumps + 1
        /\ \A x \in Topics \ {t} : version'[x] = version[x] /\ announced'[x] = announced[x]
        /\ \A x \in Topics : announced'[x] >= announced[x]
    BY <2>1, CacheTypesOf DEF CacheTypeOK
  <2>3. ASSUME NEW use \in Render, NEW x \in Topics, use.versions[x] <= bumps, Vouched(use, x)
        PROVE  Vouched(use, x)'
    <3>1. use.versions[x] \in Nat /\ bumps \in Nat
      BY <2>3, CacheTypesOf DEF Render
    <3>. QED BY <2>2, <2>3, <3>1 DEF Vouched
  <2>4. EntryInv'
    BY <2>1, <2>3, CacheTypesOf DEF CacheInv, EntryInv
  <2>5. ASSUME NEW r \in Requests PROVE RequestInv(req[r])'
    <3> DEFINE q == req[r]
    <3>1. /\ RequestInv(q) /\ q \in Request /\ q.use \in Render /\ q.left \subseteq q.use.topics /\ q.use.topics \subseteq Topics
      BY CacheTypesOf DEF CacheInv
    <3>2. \A x \in Topics : q.floor[x] \in Nat /\ q.use.versions[x] \in Nat /\ announced[x] \in Nat /\ announced'[x] \in Nat
      BY <2>1, CacheTypesOf DEF CacheTypeOK
    <3>3. q' = q
      BY <2>1
    <3> HIDE DEF q
    <3>4. \A x \in Topics : q.floor[x] <= announced'[x]
      BY <2>2, <3>1, <3>2 DEF RequestInv
    <3>5. \A x \in q.use.topics : q.use.versions[x] <= bumps'
      BY <2>1, <3>1, <3>2, CacheTypesOf DEF RequestInv
    <3>6. CheckInv(q)'
      BY <2>3, <3>1, <3>3 DEF RequestInv, CheckInv
    <3>7. MakeInv(q)'
      BY <2>3, <3>1, <3>3 DEF RequestInv, MakeInv
    <3>8. /\ q.pc = "store" => q.left = {}
          /\ q.pc = "done" => Stale(q) \subseteq q.use.caught
      BY <3>1 DEF RequestInv
    <3>9. Stale(q)' = Stale(q)
      BY <3>3 DEF Stale
    <3>10. RequestInv(q)'
      BY <3>3, <3>4, <3>5, <3>6, <3>7, <3>8, <3>9 DEF RequestInv
    <3>. QED BY <3>10 DEF q
  <2>. QED BY <2>4, <2>5 DEF CacheInv
<1>. QED BY <1>1, <1>2

LEMMA EvictKeepsInv == ASSUME CacheTypeOK, CacheInv, Evict \/ OtherKeys PROVE CacheInv'
<1>1. UNCHANGED <<version, announced, bumps, req>>
  BY DEF Evict, OtherKeys, dataVars, versionVars
<1>2. EntryInv'
  BY <1>1 DEF Evict, OtherKeys, CacheInv, EntryInv, Vouched
<1>. QED BY <1>1, <1>2 DEF CacheInv, RequestInv, CheckInv, MakeInv, Vouched, Stale

(* A clear: a version that comes back is Unbumped, and what it would vouch *)
(* for wrongly is caught.                                                  *)
LEMMA ClearKeepsInv == ASSUME CacheTypeOK, CacheInv, Clear PROVE CacheInv'
<1>1. /\ entry' = NoEntry /\ announced' = announced /\ bumps' = bumps
      /\ \A x \in Topics : version'[x] = Unbumped
  BY DEF Clear, dataVars
<1>2. EntryInv'
  BY <1>1 DEF EntryInv
<1>3. ASSUME NEW r \in Requests PROVE RequestInv(req[r])'
  <2> DEFINE q == req[r]
             p == req'[r]
  <2>1. /\ RequestInv(q) /\ q \in Request /\ q.left \subseteq q.use.topics /\ q.use.topics \subseteq Topics
    BY CacheTypesOf DEF CacheInv
  <2>2. CASE q.pc \notin {"check", "render", "store"}
    <3>1. p = q
      BY <2>2 DEF Clear, CacheTypeOK
    <3>. QED BY <1>1, <2>1, <2>2, <3>1 DEF RequestInv, CheckInv, MakeInv, Stale
  <2>3. CASE q.pc \in {"check", "render", "store"}
    <3> DEFINE C == CaughtBy(q)
    <3>1. C \in SUBSET Topics
      BY <2>1 DEF CaughtBy
    <3>2. p = [q EXCEPT !.use.caught = @ \cup C]
      BY <2>3 DEF Clear, CacheTypeOK
    <3>3. /\ p.pc = q.pc /\ p.left = q.left /\ p.floor = q.floor
          /\ p.use.topics = q.use.topics /\ p.use.value = q.use.value /\ p.use.versions = q.use.versions
          /\ p.use.caught = q.use.caught \cup C
      <4> HIDE DEF C, p, q
      <4>. QED BY <2>1, <3>1, <3>2, Recaught
    <3>4. ASSUME NEW x \in Topics, Vouched(q.use, x), q.pc = "check" => x \in q.left, x \in q.use.topics
          PROVE  version'[x] = p.use.versions[x] => p.use.value[x] >= announced'[x] \/ x \in p.use.caught
      <4>1. (version'[x] = q.use.versions[x]) => x \in C \/ version[x] = q.use.versions[x]
        BY <1>1, <2>3, <3>4 DEF CaughtBy
      <4> HIDE DEF C, p, q
      <4>. QED BY <1>1, <3>3, <3>4, <4>1 DEF Vouched
    <3>5. \A x \in Topics : p.floor[x] <= announced'[x]
      BY <1>1, <2>1, <3>3 DEF RequestInv
    <3>6. \A x \in p.use.topics : p.use.versions[x] <= bumps'
      BY <1>1, <2>1, <3>3 DEF RequestInv
    <3>7. p.pc = "check" => /\ \A x \in p.left : version'[x] = p.use.versions[x] => p.use.value[x] >= announced'[x] \/ x \in p.use.caught
                            /\ \A x \in p.use.topics \ p.left : p.use.value[x] >= p.floor[x] \/ x \in p.use.caught
      <4> HIDE DEF C, p, q
      <4>. QED BY <2>1, <3>3, <3>4 DEF RequestInv, CheckInv
    <3>8. p.pc \in {"render", "store"} => \A x \in p.use.topics \ p.left :
            /\ version'[x] = p.use.versions[x] => p.use.value[x] >= announced'[x] \/ x \in p.use.caught
            /\ p.use.value[x] >= p.floor[x]
      <4> HIDE DEF C, p, q
      <4>. QED BY <2>1, <3>3, <3>4 DEF RequestInv, MakeInv
    <3>9. p.pc = "store" => p.left = {}
      BY <2>1, <3>3 DEF RequestInv
    <3>. QED BY <2>3, <3>3, <3>5, <3>6, <3>7, <3>8, <3>9 DEF RequestInv, CheckInv, MakeInv, Vouched
  <2>. QED BY <2>2, <2>3
<1>. QED BY <1>2, <1>3 DEF CacheInv

(* A check begins with what is stored; each comparison settles a topic.    *)
LEMMA AskKeepsInv == ASSUME CacheTypeOK, CacheInv, NEW r \in Requests, Ask(r) PROVE CacheInv'
<1>1. UNCHANGED <<version, announced, bumps, entry>> /\ \A q \in Requests \ {r} : req'[q] = req[q]
  BY DEF Ask, dataVars, versionVars, CacheTypeOK
<1>2. EntryInv'
  BY <1>1 DEF CacheInv, EntryInv, Vouched
<1>3. RequestInv(req[r])'
  <2>1. CASE entry = NoEntry
    <3>1. /\ req'[r].pc = "miss" /\ req'[r].use = NoRender /\ req'[r].floor = announced
      BY <2>1 DEF Ask, CacheTypeOK, Request
    <3>. QED BY <1>1, <3>1, CacheTypesOf DEF RequestInv, CheckInv, MakeInv, NoRender
  <2>2. CASE entry # NoEntry
    <3>1. /\ req'[r].pc = "check" /\ req'[r].use = entry /\ req'[r].left = entry.topics /\ req'[r].floor = announced
      BY <2>2 DEF Ask, CacheTypeOK, Request
    <3>. QED BY <1>1, <2>2, <3>1, CacheTypesOf DEF RequestInv, CheckInv, MakeInv, CacheInv, EntryInv, Vouched
  <2>. QED BY <2>1, <2>2
<1>. QED BY <1>1, <1>2, <1>3, OneRequest

LEMMA CheckTopicKeepsInv == ASSUME CacheTypeOK, CacheInv, NEW r \in Requests, CheckTopic(r) PROVE CacheInv'
<1>1. UNCHANGED <<version, announced, bumps, entry>> /\ \A q \in Requests \ {r} : req'[q] = req[q]
  BY DEF CheckTopic, dataVars, versionVars, CacheTypeOK
<1>2. EntryInv'
  BY <1>1 DEF CacheInv, EntryInv, Vouched
<1>3. PICK t \in req[r].left :
        req' = IF version[t] = req[r].use.versions[t]
               THEN [req EXCEPT ![r].left = @ \ {t}]
               ELSE [req EXCEPT ![r].pc = "miss", ![r].left = {}]
  BY DEF CheckTopic
<1>4. /\ RequestInv(req[r]) /\ req[r].pc = "check" /\ t \in req[r].use.topics /\ t \in Topics
      /\ req[r].left \subseteq req[r].use.topics
  BY <1>3, CacheTypesOf DEF CacheInv, CheckTopic
<1>5. RequestInv(req[r])'
  <2>1. CASE version[t] = req[r].use.versions[t]
    <3>1. /\ req'[r].pc = "check" /\ req'[r].use = req[r].use /\ req'[r].left = req[r].left \ {t}
          /\ req'[r].floor = req[r].floor
      BY <1>3, <1>4, <2>1 DEF CacheTypeOK, Request
    <3>2. req[r].use.value[t] >= req[r].floor[t] \/ t \in req[r].use.caught
      BY <1>3, <1>4, <2>1, CacheTypesOf DEF RequestInv, CheckInv, Vouched
    <3>. QED BY <1>1, <1>4, <3>1, <3>2 DEF RequestInv, CheckInv, MakeInv, Vouched
  <2>2. CASE version[t] # req[r].use.versions[t]
    <3>1. req'[r].pc = "miss" /\ req'[r].use = req[r].use /\ req'[r].floor = req[r].floor
      BY <1>3, <2>2 DEF CacheTypeOK, Request
    <3>. QED BY <1>1, <1>4, <3>1 DEF RequestInv, CheckInv, MakeInv
  <2>. QED BY <2>1, <2>2
<1>. QED BY <1>1, <1>2, <1>5, OneRequest

LEMMA HitKeepsInv == ASSUME CacheTypeOK, CacheInv, NEW r \in Requests, Hit(r) PROVE CacheInv'
<1>1. UNCHANGED <<version, announced, bumps, entry>> /\ \A q \in Requests \ {r} : req'[q] = req[q]
  BY DEF Hit, dataVars, versionVars, CacheTypeOK
<1>2. EntryInv'
  BY <1>1 DEF CacheInv, EntryInv, Vouched
<1>3. /\ RequestInv(req[r]) /\ req[r].pc = "check" /\ req[r].left = {} /\ req[r].use.topics \subseteq Topics
  BY CacheTypesOf DEF CacheInv, Hit
<1>4. req'[r].pc = "done" /\ req'[r].use = req[r].use /\ req'[r].floor = req[r].floor
  BY DEF Hit, CacheTypeOK, Request
<1>5. \A t \in Topics : req[r].floor[t] \in Nat /\ req[r].use.value[t] \in Nat
  BY CacheTypesOf
<1>6. Stale(req'[r]) \subseteq req'[r].use.caught
  BY <1>3, <1>4, <1>5 DEF RequestInv, CheckInv, Stale
<1>7. RequestInv(req[r])'
  BY <1>1, <1>3, <1>4, <1>6 DEF RequestInv, CheckInv, MakeInv
<1>. QED BY <1>1, <1>2, <1>7, OneRequest

(* A render: a topic is declared before it is read, so a version that is   *)
(* still the same when it is compared was there when the data was read.    *)
LEMMA StartRenderKeepsInv == ASSUME CacheTypeOK, CacheInv, NEW r \in Requests, StartRender(r) PROVE CacheInv'
<1>1. UNCHANGED <<version, announced, bumps, entry>> /\ \A q \in Requests \ {r} : req'[q] = req[q]
  BY DEF StartRender, dataVars, versionVars, CacheTypeOK
<1>2. EntryInv'
  BY <1>1 DEF CacheInv, EntryInv, Vouched
<1>3. /\ req'[r].pc = "render" /\ req'[r].use.topics = Base /\ req'[r].left = Base /\ req'[r].floor = req[r].floor
      /\ req'[r].use.versions = [t \in Topics |-> IF t \in Base THEN version[t] ELSE Unbumped]
  BY DEF StartRender, CacheTypeOK, Request, NoRender
<1>4. \A t \in Base : req'[r].use.versions[t] <= bumps
  BY <1>3, BaseAssumption, CacheTypesOf
<1>5. \A t \in Topics : req[r].floor[t] <= announced[t]
  BY DEF CacheInv, RequestInv
<1>6. RequestInv(req[r])'
  BY <1>1, <1>3, <1>4, <1>5 DEF RequestInv, CheckInv, MakeInv
<1>. QED BY <1>1, <1>2, <1>6, OneRequest

LEMMA DeclareKeepsInv ==
  ASSUME CacheTypeOK, CacheInv, NEW r \in Requests, NEW t \in Topics, Declare(r, t)
  PROVE  CacheInv'
<1>1. UNCHANGED <<version, announced, bumps, entry>> /\ \A q \in Requests \ {r} : req'[q] = req[q]
  BY DEF Declare, dataVars, versionVars, CacheTypeOK
<1>2. EntryInv'
  BY <1>1 DEF CacheInv, EntryInv, Vouched
<1> DEFINE q == req[r]
<1>3. /\ RequestInv(q) /\ q \in Request /\ q.left \subseteq q.use.topics /\ q.use.topics \subseteq Topics
      /\ version[t] \in Nat /\ version[t] <= bumps /\ q.pc = "render" /\ t \notin q.use.topics /\ q.use \in Render
  BY CacheTypesOf DEF CacheInv, Declare
<1>4. req'[r] = WithTopic(q, t, version[t])
  BY DEF Declare, WithTopic, CacheTypeOK
<1> DEFINE p == WithTopic(q, t, version[t])
<1>5. /\ p.pc = q.pc /\ p.left = q.left \cup {t} /\ p.floor = q.floor
      /\ p.use.topics = q.use.topics \cup {t} /\ p.use.value = q.use.value /\ p.use.caught = q.use.caught
      /\ p.use.versions = [q.use.versions EXCEPT ![t] = version[t]]
  <2>1. [q.use.versions EXCEPT ![t] = version[t]] \in [Topics -> Nat]
    BY <1>3 DEF Render
  <2> HIDE DEF q
  <2>. QED BY <1>3, <2>1, Declared
<1>6. /\ req'[r].pc = "render" /\ req'[r].left = q.left \cup {t} /\ req'[r].floor = q.floor
      /\ req'[r].use.topics = q.use.topics \cup {t} /\ req'[r].use.value = q.use.value /\ req'[r].use.caught = q.use.caught
      /\ req'[r].use.versions[t] = version[t]
      /\ \A x \in Topics \ {t} : req'[r].use.versions[x] = q.use.versions[x]
  BY <1>3, <1>4, <1>5 DEF Render
<1>7. RequestInv(req[r])'
  <2> HIDE DEF q
  <2>. QED BY <1>1, <1>3, <1>6 DEF RequestInv, CheckInv, MakeInv, Vouched
<1>. QED BY <1>1, <1>2, <1>7, OneRequest

LEMMA ReadKeepsInv ==
  ASSUME CacheTypeOK, CacheInv, NEW r \in Requests, NEW t \in Topics, Read(r, t)
  PROVE  CacheInv'
<1>1. UNCHANGED <<version, announced, bumps, entry>> /\ \A q \in Requests \ {r} : req'[q] = req[q]
  BY DEF Read, dataVars, versionVars, CacheTypeOK
<1>2. EntryInv'
  BY <1>1 DEF CacheInv, EntryInv, Vouched
<1> DEFINE q == req[r]
<1>3. /\ RequestInv(q) /\ q \in Request /\ q.left \subseteq q.use.topics /\ q.use.topics \subseteq Topics
      /\ data[t] \in Nat /\ announced[t] \in Nat /\ announced[t] <= data[t] /\ q.floor[t] \in Nat
      /\ q.pc = "render" /\ t \in q.left
  BY CacheTypesOf DEF CacheInv, Read
<1>4. req' = [req EXCEPT ![r].use.value[t] = data[t], ![r].left = @ \ {t}]
  BY DEF Read
<1>5. /\ req'[r].pc = "render" /\ req'[r].left = q.left \ {t} /\ req'[r].floor = q.floor
      /\ req'[r].use.topics = q.use.topics /\ req'[r].use.versions = q.use.versions /\ req'[r].use.caught = q.use.caught
      /\ req'[r].use.value[t] = data[t] /\ \A x \in Topics \ {t} : req'[r].use.value[x] = q.use.value[x]
  BY <1>3, <1>4 DEF CacheTypeOK, Request, Render
<1>6. RequestInv(req[r])'
  <2> HIDE DEF q
  <2>. QED BY <1>1, <1>3, <1>5 DEF RequestInv, CheckInv, MakeInv, Vouched
<1>. QED BY <1>1, <1>2, <1>6, OneRequest

LEMMA FinishKeepsInv == ASSUME CacheTypeOK, CacheInv, NEW r \in Requests, Finish(r) PROVE CacheInv'
<1>1. UNCHANGED <<version, announced, bumps, entry>> /\ \A q \in Requests \ {r} : req'[q] = req[q]
  BY DEF Finish, dataVars, versionVars, CacheTypeOK
<1>2. EntryInv'
  BY <1>1 DEF CacheInv, EntryInv, Vouched
<1>3. RequestInv(req[r]) /\ req[r].pc = "render" /\ req[r].left = {} /\ req[r].use.topics \subseteq Topics
  BY CacheTypesOf DEF CacheInv, Finish
<1>4. PICK pc \in {"store", "done"} : req' = [req EXCEPT ![r].pc = pc]
  BY DEF Finish
<1>5. req'[r].pc = pc /\ req'[r].use = req[r].use /\ req'[r].left = req[r].left /\ req'[r].floor = req[r].floor
  BY <1>4 DEF CacheTypeOK, Request
<1>6. \A t \in Topics : req[r].floor[t] \in Nat /\ req[r].use.value[t] \in Nat
  BY CacheTypesOf
<1>7. Stale(req'[r]) = {}
  BY <1>3, <1>5, <1>6 DEF RequestInv, MakeInv, Stale
<1>8. RequestInv(req[r])'
  BY <1>1, <1>3, <1>4, <1>5, <1>7 DEF RequestInv, CheckInv, MakeInv, Vouched
<1>. QED BY <1>1, <1>2, <1>8, OneRequest

LEMMA StoreKeepsInv == ASSUME CacheTypeOK, CacheInv, NEW r \in Requests, Store(r) PROVE CacheInv'
<1>1. UNCHANGED <<version, announced, bumps>> /\ \A q \in Requests \ {r} : req'[q] = req[q]
  BY DEF Store, dataVars, versionVars, CacheTypeOK
<1>2. /\ RequestInv(req[r]) /\ req[r].pc = "store" /\ req[r].use.topics \subseteq Topics
  BY CacheTypesOf DEF CacheInv, Store
<1>3. EntryInv'
  <2>1. entry' = entry \/ entry' = req[r].use
    BY DEF Store, Stored
  <2>2. \A t \in req[r].use.topics : Vouched(req[r].use, t) /\ req[r].use.versions[t] <= bumps
    BY <1>2 DEF RequestInv, MakeInv
  <2>. QED BY <1>1, <2>1, <2>2 DEF CacheInv, EntryInv, Vouched
<1>4. PICK pc \in {"done", "source"} : req' = [req EXCEPT ![r].pc = pc]
  BY DEF Store
<1>5. req'[r].pc = pc /\ req'[r].use = req[r].use /\ req'[r].floor = req[r].floor
  BY <1>4 DEF CacheTypeOK, Request
<1>6. \A t \in Topics : req[r].floor[t] \in Nat /\ req[r].use.value[t] \in Nat
  BY CacheTypesOf
<1>7. Stale(req'[r]) = {}
  BY <1>2, <1>5, <1>6 DEF RequestInv, MakeInv, Stale
<1>8. RequestInv(req[r])'
  BY <1>1, <1>2, <1>4, <1>5, <1>7 DEF RequestInv, CheckInv, MakeInv
<1>. QED BY <1>1, <1>3, <1>8, OneRequest

LEMMA StepsKeepInv == ASSUME CacheTypeOK, CacheInv, [CacheNext]_cacheVars PROVE CacheInv'
<1>1. CASE UNCHANGED cacheVars
  BY <1>1 DEF cacheVars, CacheInv, EntryInv, RequestInv, CheckInv, MakeInv, Vouched, Stale
<1>2. ASSUME NEW t \in Topics, Write(t) \/ Bump(t) PROVE CacheInv'
  BY <1>2, WriteKeepsInv, BumpKeepsInv
<1>3. CASE Evict \/ OtherKeys
  BY <1>3, EvictKeepsInv
<1>4. CASE Clear
  BY <1>4, ClearKeepsInv
<1>5. ASSUME NEW r \in Requests,
             Ask(r) \/ CheckTopic(r) \/ Hit(r) \/ StartRender(r) \/ Finish(r) \/ Store(r)
      PROVE  CacheInv'
  BY <1>5, AskKeepsInv, CheckTopicKeepsInv, HitKeepsInv, StartRenderKeepsInv, FinishKeepsInv, StoreKeepsInv
<1>6. ASSUME NEW r \in Requests, NEW t \in Topics, Declare(r, t) \/ Read(r, t) PROVE CacheInv'
  BY <1>6, DeclareKeepsInv, ReadKeepsInv
<1>. QED BY <1>1, <1>2, <1>3, <1>4, <1>5, <1>6 DEF CacheNext

(* A page is answered only if it is made from data as new as had been      *)
(* announced when it was asked for; what a clear caught is the exception.  *)
THEOREM PagesServedFresh == CacheSpec => []ServedIsFresh
<1>1. CacheInv => ServedIsFresh
  BY DEF CacheInv, RequestInv, ServedIsFresh
<1>. QED BY <1>1, InitVouched, StepsKeepInv, CacheTypesCorrect, PTL DEF CacheSpec

-----------------------------------------------------------------------------
(* Where nobody clears the whole cache nothing is caught. *)

NothingCaught == entry # NoEntry => entry.caught = {}
NobodyCaught == clears = 0 /\ NothingCaught /\ \A r \in Requests : req[r].use.caught = {}

(* Without a clear of the whole cache bump keeps its word: every render of *)
(* an announced topic is made again on its next read.                      *)
THEOREM NoClearNoneStale == ASSUME MaxClears = 0 PROVE CacheSpec => []ReRendered
<1>1. CacheInit => NobodyCaught
  <2> SUFFICES ASSUME CacheInit PROVE NobodyCaught
    OBVIOUS
  <2>1. \A r \in Requests : req[r].use.caught = {}
    BY DEF CacheInit, Idle, NoRender
  <2>. QED BY <2>1 DEF CacheInit, NobodyCaught, NothingCaught
<1>2. CacheTypeOK /\ NobodyCaught /\ [CacheNext]_cacheVars => NobodyCaught'
  <2> SUFFICES ASSUME CacheTypeOK, NobodyCaught, [CacheNext]_cacheVars PROVE NobodyCaught'
    OBVIOUS
  <2>1. CASE UNCHANGED cacheVars
    BY <2>1 DEF cacheVars, NobodyCaught, NothingCaught
  <2>2. ASSUME NEW t \in Topics, Write(t) \/ Bump(t) PROVE NobodyCaught'
    BY <2>2 DEF Write, Bump, NobodyCaught, NothingCaught
  <2>3. CASE Evict \/ OtherKeys
    BY <2>3 DEF Evict, OtherKeys, versionVars, NobodyCaught, NothingCaught
  <2>4. ~Clear
    BY DEF Clear, NobodyCaught
  <2>5. ASSUME NEW r \in Requests,
               Ask(r) \/ CheckTopic(r) \/ Hit(r) \/ StartRender(r) \/ Finish(r)
               \/ \E t \in Topics : Declare(r, t) \/ Read(r, t)
        PROVE  NobodyCaught'
    <3>1. clears' = clears /\ entry' = entry /\ \A q \in Requests \ {r} : req'[q] = req[q]
      BY <2>5 DEF Ask, CheckTopic, Hit, StartRender, Finish, Declare, Read, versionVars, CacheTypeOK
    <3>2. req[r] \in Request /\ req[r].use \in Render /\ req[r].use.caught = {}
      BY CacheTypesOf DEF NobodyCaught
    <3>3. CASE Ask(r)
      <4>1. req'[r].use = IF entry = NoEntry THEN NoRender ELSE entry
        BY <3>3 DEF Ask, CacheTypeOK, Request
      <4>2. req'[r].use.caught = {}
        BY <4>1 DEF NobodyCaught, NothingCaught, NoRender
      <4>. QED BY <3>1, <4>2 DEF NobodyCaught, NothingCaught
    <3>4. CASE CheckTopic(r) \/ Hit(r) \/ Finish(r)
      <4>1. req'[r].use = req[r].use
        BY <3>4 DEF CheckTopic, Hit, Finish, CacheTypeOK, Request
      <4>. QED BY <3>1, <3>2, <4>1 DEF NobodyCaught, NothingCaught
    <3>5. CASE StartRender(r)
      <4>1. req'[r].use.caught = {}
        BY <3>5 DEF StartRender, NoRender, CacheTypeOK, Request
      <4>. QED BY <3>1, <4>1 DEF NobodyCaught, NothingCaught
    <3>6. ASSUME NEW t \in Topics, Declare(r, t) PROVE NobodyCaught'
      <4> DEFINE q == req[r]
      <4>1. /\ q \in Request /\ q.left \subseteq q.use.topics
            /\ [q.use.versions EXCEPT ![t] = version[t]] \in [Topics -> Nat]
        BY <3>2, CacheTypesOf DEF Render
      <4>2. req'[r] = WithTopic(q, t, version[t])
        BY <3>6 DEF Declare, WithTopic, CacheTypeOK
      <4>3. q.use.caught = {}
        BY <3>2
      <4> HIDE DEF q
      <4> DEFINE p == WithTopic(q, t, version[t])
      <4>4. /\ p.pc = q.pc /\ p.left = q.left \cup {t} /\ p.floor = q.floor
            /\ p.use.topics = q.use.topics \cup {t} /\ p.use.value = q.use.value /\ p.use.caught = q.use.caught
            /\ p.use.versions = [q.use.versions EXCEPT ![t] = version[t]]
        BY <4>1, Declared
      <4>. QED BY <3>1, <4>2, <4>3, <4>4 DEF NobodyCaught, NothingCaught
    <3>7. ASSUME NEW t \in Topics, Read(r, t) PROVE NobodyCaught'
      <4>1. req'[r].use.caught = {}
        BY <3>2, <3>7 DEF Read, CacheTypeOK, Request, Render
      <4>. QED BY <3>1, <4>1 DEF NobodyCaught, NothingCaught
    <3>. QED BY <2>5, <3>3, <3>4, <3>5, <3>6, <3>7
  <2>6. ASSUME NEW r \in Requests, Store(r) PROVE NobodyCaught'
    <3>1. entry' = entry \/ entry' = req[r].use
      BY <2>6 DEF Store, Stored
    <3>2. clears' = clears /\ \A q \in Requests : req'[q].use = req[q].use
      BY <2>6 DEF Store, versionVars, CacheTypeOK, Request
    <3>. QED BY <3>1, <3>2 DEF NobodyCaught, NothingCaught
  <2>. QED BY <2>1, <2>2, <2>3, <2>4, <2>5, <2>6 DEF CacheNext
<1>3. NobodyCaught /\ ServedIsFresh => ReRendered
  BY DEF NobodyCaught, ServedIsFresh, ReRendered
<1>. QED BY <1>1, <1>2, <1>3, PagesServedFresh, CacheTypesCorrect, PTL DEF CacheSpec
=============================================================================
