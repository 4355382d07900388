# A TLA+ model of ngdpbase

ngdpbase is a file-backed wiki and content platform: one Node.js process per
server, an engine that owns some forty managers, providers that keep the data
(files or SQLite), and optionally more than one server over the same data
volume during a rolling update. This directory holds TLA+ models of the parts
whose correctness depends on the order of steps: what runs between two awaits,
what a crash leaves behind, what a second server reads in between.

Six parts are modelled: the background jobs (scheduled slots and runs by hand,
their locks on both storage backends, attempts, handoff at shutdown, recovery),
the restore of a whole site, the audit log with its hash chain, the page
store with its history, trash and index, the page cache with its data versions,
and the installer of add-ons.

- [1. Inventory](#1-inventory)
- [2. Plan](#2-plan)
- [3. The modules](#3-the-modules)
- [4. The runs](#4-the-runs)
- [5. Fairness](#5-fairness)
- [6. The proofs](#6-the-proofs)
- [7. Where the code and its word differ](#7-where-the-code-and-its-word-differ)
- [8. What is abstracted, what is left out](#8-what-is-abstracted-what-is-left-out)
- [9. Running it](#9-running-it)

## 1. Inventory

Paths are under `src/src/`.

| Component | State | Operations | Interacts with | What is hard |
|---|---|---|---|---|
| Job scheduler, `managers/BackgroundJobManager.ts` | per job: rule, `draining`, `busyUntil`; per process: `ticking`, `stopping`, `handoffs`, `controllers`, `drains`; kept by the provider: `JobState` (last and next slot, current run), run history, checkpoints | `tick`/`look`, `handleUnfinished`, `drain`, `runSlot`, `afterFailedAttempt`, `handOff`, `shutdown` | job state provider (every step awaits it), audit log, notifications, the process's signals | every state save writes back a copy read before an await; a second server does the same; a crash between any two writes |
| Runs by hand, in the same class | `activeByJobId`, `runsById`, `draining`, `handoffs`; a record and a lock per start | `enqueue`, `startHandRun`, `runByHand`, `executeJob`, `recoverHandRuns`; `rerunSlot`, `retryNow`, `runNow` | the scheduler's looks, which recover them | a run's end is told and recorded in several awaits, the flags of the job fall between them; a cut-off run is told from a live one by its lock |
| Job state and slot locks, `providers/jobState.ts`, `FileJobStateProvider.ts`, `SqliteJobStateProvider.ts` | state, runs, checkpoints per job; one lock per slot | `getState`, `putState`, `recordRun`, `takeLock`, `renewLock`, `releaseLock` | the scheduler; the shared volume | stealing an expired lock file with rename, link and exclusive create; a lease that runs out while its owner lives |
| Slots, `utils/schedule.ts`, `utils/jobSlots.ts` | none | `nextSlot`, `slotsBetween`, `selectSlots` | the scheduler | edges: exactly at the end of the last run, exactly on time, exactly the cap |
| Atomic writes, `utils/atomicWrite.ts` | the file system | `writeFileAtomic`, exclusive or replacing | all file providers | what a crash leaves |
| Site restore, `utils/siteRestore.ts`, `managers/BackupManager.ts`, `utils/directoryBackup.ts` | the record (`site-restore.json`) with a mark per part; `<live>.staged`, `<live>.pre-restore`; the queue of `exclusive` | `stageSiteRestore`, `cancelStagedSiteRestore`; at start `applyPartAtStart` of each manager in turn, `finishSiteRestoreAtBoot` | every manager with data, at start; the audit log before a cancel | a crash between two renames, or while discarding; a cancel outside the queue; managers that do not start |
| Audit log, `managers/AuditManager.ts`, `providers/BaseAuditProvider.ts`, `FileAuditProvider.ts` | queue, chain tail (seq, hash), the flushes asked for, files, published head | `recordAuditEvent`, `logAuditEvent`, `flush`, rotation, `publishChainHead`, `close`, verification | everything that is audited | a torn last line, a head published apart from the records it names, flushes that wait for one another, a batch that fails and goes back |
| Versioned page store, `providers/VersioningFileProvider.ts`, `FileSystemProvider.ts`, `managers/PageManager.ts`, `utils/keyedSerial.ts` | page files, versions and manifests, trash, `page-index.json` and its copy in memory, the name lookups, a queue of calls per page and one of index writes | save, rename, delete, restore, purge, start | routes, page manager, validation | calls on different pages meet in the lookups and the index; a name looked up before a turn stands for another page in it; a crash between file, version, manifest and index |
| Throttles, `utils/LoginThrottle.ts`, `SimpleRateLimiter.ts` | counters per window | count, block, forget | sign-in | windows at their edge, memory bounds |
| Policies, `managers/PolicyEvaluator.ts`, `PolicyValidator.ts` | policies by priority | evaluate | every request | sequential |
| Page cache, `cache/RegionCache.ts`, `CacheDependencies.ts`, `managers/CacheManager.ts`, `providers/NodeCacheProvider.ts`, `parsers/MarkupParser.ts` | entries with the versions they were made from; one version per data topic, in the same store | `readThroughVersioned`, `dependsOn`, `version`, `bump`, `clear` | every manager with data bumps its topic after a write; plugins declare what they read | a page is made over many awaits while its data changes; the store that is cleared, or full, holds the versions too |
| Add-on installer, `utils/addonInstaller.ts`, `addonLock.ts`, `addonTarball.ts`, `managers/AddonsManager.ts` | the lock file; per add-on its folder, `.previous-<slug>`, stored tarballs | at a start: undo, switch, verify, repair, install, load, settle; an admin's Update | the registry, discovery and the load pass, the audit log | a stop between any two of a rename, an unpacking and the lock; a release that stops the site at load |
| Pages, rendering, plugins, search, media, export | text and indexes | transform | page store | the data, not the order |
| Users, sign-in, tokens, shares; configuration, loading of add-ons, routes | single records | request handlers | page store, policies | little interleaves |

What makes each of the first ones correct:

- *Lock*: a slot is granted to one process at a time, and to a live holder until
  its promise ends (`OneHolder`, the refinement `LeaseSpec`, and `LocksKept`, why
  both hold), until a process comes back to a lock file of its own that ran out.
- *Slot selection*: the newest due slot runs unless a declared rule says
  otherwise, and a backlog is bounded (`NewestRuns`, `BacklogBounded`).
- *Scheduler*: a slot is in one server's hands at a time
  (`SlotLockExcludes`); a slot the state moved past was run or recorded
  (`NoSlotDropped`); a chosen slot stays due until it is handled
  (`TodoStillDue`); a slot gets its attempts and no more (`AttemptsBounded`);
  one that is done or failed for good does not run again (`FinalIsFinal`);
  the state does not move backwards (`NextNeverGoesBack`); and a run, once
  begun, and a slot, once due, end up settled (`BegunRunsSettle`,
  `EverySlotSettles`).
- *Restore*: the parts go in together or not at all (`AllOrNothing`); nothing
  goes in that was not committed (`OnlyCommitted`); a start decides about every
  part (`StartDecides`); a refused restore is never applied (`RefusedIsFinal`);
  what a restored path replaced is kept beside it (`KeptBeside`).
- *Runs by hand*: a run in hand is held by its lock, so that nobody takes it for
  cut off (`LiveRunsAreHeld`); a cut-off one is restarted or reported
  (`NeverSilent`), within its attempts (`BeginningsBounded`), and never after it
  completed (`CompletedIsFinal`).
- *Audit*: the records are linked across failed writes, rotations and restarts
  (`ChainUnbroken`); the published head speaks against the log only with cause
  (`WitnessHonest`); a stop writes what waits (`StopLosesNothing`); every caller
  is answered and every record that waits is written (`EveryCallIsAnswered`,
  `WaitingIsWritten`); and the log is a trail in the order of acceptance
  (`TrailSpec`).
- *Pages*: a save that was answered, and whose version did not fail, can be read
  back from the history (`SavedIsInHistory`) and is served by its title (`SavedIsServed`); a delete
  that was answered can be undone (`DeletedIsRestorable`).
- *Page cache*: what is served was made from data no older than what had been
  announced when it was asked for (`ServedIsFresh`).
- *Add-on installer*: what the next start falls back to is there (`FallbackKept`);
  what is loaded is what the lock names, whole (`LoadedIsPinned`); a stop alone
  costs no add-on (`CrashCostsNothing`); a switch is confirmed by a load or undone
  (`UpdateSettled`, `UpdateEnds`).

`PROJECT.json` lists the hazards at their lines, each with the properties that
cover it or the reason none does yet. `LocksKept`, `NewestRuns`,
`BacklogBounded` and `NextNeverGoesBack` are proved (section 6) and in no run.

## 2. Plan

The order is by what would hurt most and what tests reach least.

1. **Scheduler core** (done): `SlotLease` (abstract lock) ← `SqliteSlotLock`,
   `FileSlotLock` (refinements), composed by `SlotLocks`; `JobSlots`;
   `JobScheduler`, which extends `JobSlots` and uses the lock as the lease
   promises it. Proofs of both locks, of the slot selection, and of the scheduler:
   exclusion for any number of servers, the slots and attempts of one.
2. **Runs by hand** (`HandRuns`, done but for the administrator's asks): enqueue,
   handoff, recovery. Left: `rerunSlot`, `retryNow`, `runNow` against a look
   (`assertIdle` is checked before an await); a changed rule under a drain; the
   first look after a restore; the file backend's `recordRun`, a read and a
   write. An abstract specification "one slot's life" (open, begun, waiting,
   settled) that the one-server scheduler implements.
3. **Site restore** (`SiteRestore`, done but for its edges): staging, renames,
   marks, a crash between any two, the next start. Left: the databases' own
   record (`providers/sqliteBackup.ts`), a record that cannot be read, an abstract
   specification "old or new, decided at a start".
4. **Audit log** (done): `AuditTrail` (what its callers count on) ← `AuditLog`
   (queue, chain, flushes, files). Left: the verification after `restartChain`
   and retention.
5. **Page store** (`PageStore`, done but for its edges). Left: the stale-save
   check of the routes, private pages and vaults, the slow start, the version
   cache.
6. **Page cache** (`RenderCache`, done for one store). Left: two processes that
   share a store (Redis), the clock's topic.
7. **Add-on installer** (`AddonInstaller`, done for one add-on). Left: several
   add-ons in one lock file, whose copy in memory a failed write leaves ahead of
   the disk.
8. **Throttles, policies**, as far as each is more than its data.

Every safety property the passing runs check is proved but one (section 6).
Proofs to come: that the one-server scheduler implements "one slot's life", and
that a restore implements "old or new".

## 3. The modules

### SlotLease — the promise

`now` is the clock of the shared host, `told[o]` until when process `o` was
last told it holds the slot. `Grant`, `GiveUp` and `Tick` are all the promise
consists of (`providers/jobState.ts:84-92`): no grant while somebody else's
runs. `OneHolder` follows from it.

### SqliteSlotLock — the promise kept with one row

One row of `job_leases`; each of `TakeLock`, `RenewLock`, `ReleaseLock` is one
conditional SQL statement, hence one atomic action. `RenewLock` names the owner
and not the expiry, as the `UPDATE` does: an expired lease nobody stole can be
renewed.

### FileSlotLock — the promise kept with one file

One action per call on the file system: the exclusive create, the read, the
rename aside, the read of what was moved, the link back, the removals, and the
read and the write of `renewLock` and `releaseLock`. `pc[o]` is the next call,
`held[o]` what `o` read, `aside[o]` the file it moved to a stale name only it
knows. A process may die between any two calls. `file` starts absent, or left
by a dead process, expired or live.

The provider's header assumes "renewal is the holder's job, well inside the
lock's lifetime"; `Prompt` states that as a condition on the clock: it does
not pass a live holder's expiry, nor run a lease out between two calls of its
owner. The slot is asked for when it is not held: the scheduler never takes a
slot it has. A process that gave the slot up may find a lock of its own under the
name when it asks again, one that a stealer had moved aside and linked back
meanwhile; `JudgeOurs` renews it as `takeLock` does, without a look at its expiry
(`FileJobStateProvider.ts:151`). When it had run out, somebody else may be
stealing it, and `late` (`ComesBackLate` in `SlotLease`) says that this
happened: the lock's promise holds up to there (section 7).

### SlotLocks — the lock of a site

`initialize` opens one job state provider, from the setting `auto`, `file` or
`sqlite` and from whether the application database is open
(`selectJobStateBackend`). `SlotLocks` starts in every outcome of that choice
and takes the steps of the backend that was opened, so that one run asks the
same two questions of both: `OneHolder`, and the refinement `LeaseSpec`.
`LocksKept` is the reason in each: the row names the holder, or the lock file
(or the one moved aside and on its way back) is the holder's.

### JobSlots, JobSlotsCheck — which slots, which of them run

A schedule is the finite set `Slots` of its instants, 0 is null. `NextSlot`,
`SlotsBetween`, `Chosen` are `nextSlot`, `slotsBetween`, `selectSlots`, with
sets in place of sorted lists. `JobSlotsCheck` asks every question the
scheduler can ask over a small schedule and compares the sets with the list
operations of the code (`ByTheList`).

### JobScheduler — the servers

| Variable | Code |
|---|---|
| `mode[s]` | not started; up; `stopping`; late: the grace of `runHandOff` is over |
| `store` | `JobState` as the provider keeps it; `known` is whether there is one |
| `lock[t]` | the lease of slot `t`: nobody's, a live process's, a dead one's |
| `history` | `recordRun`'s records |
| `look[s]` | the look in hand: where it is, its `now`, the state it read (`snap`), the state `afterFailedAttempt` read (`fresh`), what it chose |
| `lane[s]` | the drain in hand: the slots left (`todo`), the one in hand, its run record, the state it read (`snap`) |
| `busyUntil[s]` | `job.busyUntil` |
| `made[t]` | run ids made so far: `randomUUID` as a number that was not used |
| `tally` | what the bounds count |
| `starts`, `outcome` | history variables: starts of a slot's work, and what the scheduler last said of it |

A step is one segment of the code, from one await to the call it awaits next,
that call included; the provider's calls are atomic. So every state save writes
back a copy (`snap`, `fresh`), which may be old by then, exactly as
`{ ...state, ... }` does. The look's steps follow `tick`, `look` and
`handleUnfinished`; the lane's steps follow `drain`, `runSlot`, `handOffRun` and
`afterFailedAttempt`; the process steps are `startScheduler`, `runHandOff` and
the end of a process. What a dead process leaves is the store, the history and
its locks, which run out some time later (`LeaseExpires`).

`SlowStore` says whether a call on the state may outlast the shutdown grace: a
process can then leave in the middle of writing a run's end.

The lock is used as `SlotLease` promises it, with the holder's heartbeat taken
at its word: a live holder keeps its lock. `MCJobScheduler` adds the symmetry of
the servers for the safety run with two of them.

### SiteRestore — a whole-site restore

| Variable | Code |
|---|---|
| `live[p]`, `staged[p]`, `kept[p]` | a live path, `<live>.staged`, `<live>.pre-restore`; the value says what restore its content is of: `Absent`, `Before` (the data before any), a restore's number, or what is not whole: `Partial` (extraction not ended), `Remnant` (removal not ended) |
| `record`, `done` | the manifest with its state and each part's status ("out": no such part), `<manifest>.done` |
| `mode` | down, starting, serving |
| `todo`, `boot` | managers this start has not come to; the part in hand in `applyPartAtStart`: what it does (`pc`), the paths left, the one being swapped (`at`) |
| `job` | `stageSiteRestore` in hand: the awaited backup, between parts, the archives of a part left to extract, the awaited report |
| `cancelling` | `cancelStagedSiteRestore` between reading the record and discarding it (the audit record is awaited) |
| `committed`, `asked`, `before`, `torn`, `fresh` | history variables |

A path is a part and a number: `Width` paths make a part. Staging's actions are
`RestoreAsked`, `BeginSiteRestore`, `StagesPart`, `ExtractsSome` and
`Extracts`, `RecordStagedPart`, `CommitSiteRestore`, `WriteRestoreReport`, and
`StagingFails` for its catch; a cancel may come between any two. The start's are
`FindsNothing`, `Applies`, `Refuses` (the three answers of `gatePart`), then one
per operation on the file system: `SetsAside`, and for a swap `RemovesKept`,
`StepsAside`, `TakesName`; `MarkPart` and `RecordDone` are `markPart`,
`FinishPart` and `FinishSiteRestore` are `finishSiteRestoreAtBoot`. A manager in
`Optional` (an add-on taken out) need not start. `Stops` may come at any
time, `StopsDiscarding` in the middle of the removals of `discardSiteRestore`.

`torn` says which of the code's known gaps a restore fell into: `cut` (stopped
in the middle of a part's swaps), `failed` (a part not applied after another
was: a rename failed, or its manager did not start), `discarded` (stopped in the middle
of removing a staged folder). `AllOrNothing` holds outside them.

### HandRuns — runs by hand

`Scheduled` says which kind of job it is. `startHandRun` marks `draining` what is in
`this.scheduled` (`BackgroundJobManager.ts:1228-1229`, lowered at 1238), and the look asks
`?.draining` (1339): a job that can only be enqueued has no such mark, and its looks
are kept out by `activeByJobId` alone, which ends with the work.

| Variable | Code |
|---|---|
| `record[r]` | the `JobRunRecord` of run `r`, as far as recovery reads it |
| `lock[k]` | the lock of the start at instant `k` (`startedAt` names it); a dead process's runs out |
| `hand[k]` | the `runByHand` in hand: before `takeLock`, before its first record, `setup`, `work`, `told` (the status is set, the end is audited and announced), `end`, `release` |
| `active[s]`, `draining[s]`, `handoff[s][r]` | `activeByJobId`, the job's `draining`, `handoffs` by run id |
| `seek[s]`, `recovered[s]` | `recoverHandRunsOf` in hand: list, probe each running record's lock, report the older, restart or report the latest; whether this process is through with it |
| `begun`, `crowded` | history variables: starts of a run's work; whether a run was started beside another |

The steps of a start follow `startHandRun`, `runByHand` and `executeJob`; those
of a look, `recoverHandRuns`, `recoverHandRunsOf` and `recoverOne`. `LeavesWork`
is the end of `executeJob`: it removes the job from `activeByJobId` and the
handoff of the run id, whichever start they are of by now, as the code's
`delete` by job id and run id does. `Enqueues` asks what `enqueue` asks: is the
active run pending or running. A run that was told is neither, so another can
be started beside it: `crowded` says so, and the properties are about the rest.
`Attended` is how long a run in hand is spared by the looks: to its release when the
job has a schedule, to the end of its work when it has none.

### AuditTrail, AuditLog — the audit log

`AuditTrail` is what `recordAuditEvent`'s callers count on: a record is accepted
(`Accept`), the oldest are stored in their order (`Store`), once more when a
write said it failed, a critical caller is answered when its record is stored
(`Answer`), a process that ends loses what it had not stored (`End`).

| Variable of `AuditLog` | Code |
|---|---|
| `chain` | `chainSeq`, `chainPrevHash`, `chainResumed`; a hash is named by its record |
| `call[e]` | `recordAuditEvent` of `e`: stamping the first record, in `writeEvent`'s flush, in `flushAuditQueue`'s, answered, refused, dropped, cut |
| `queue`, `batch` | `auditQueue`, `eventsToFlush` |
| `turns`, `stage` | `flushChain`: the flushes asked for, each with who asked and whether with fsync; where the first one is |
| `log`, `live`, `archives`, `torn` | every line ever written; where the live file and each archive begin; whether the live file ends in the middle of a line |
| `head` | the newest published head |
| `synced`, `owed` | history variables |

A rotation only moves where a file begins. A write that fails or is killed
leaves any number of whole lines and maybe a piece of the next (`Part`); the next
append goes on in that line, which then cannot be read (`Glued`). `Settles` is
the end of a flush and of whoever awaits it in the same turn of the loop.

### PageStore — pages, history, trash, index

| Variable | Code |
|---|---|
| `file[p]`, `trash[p]` | the page file, by uuid: its title and text; the file in the trash |
| `manifest[p]`, `snapshot[p]` | the versions the manifest lists; the version files, each a diff from a text |
| `stored`, `index` | `page-index.json`; `pageIndex`: live titles and tombstones |
| `byTitle`, `byUuid` | `titleIndex` with `pageCache`; `uuidIndex` |
| `writes` | `pageIndexWriteQueue`: the copies of the index that wait to be written |
| `serial[p]` | `pageWriteSerial`: the calls on `p`, the running one first |
| `call[c]` | a request: its kind, the name it was asked by, the page it waits for (`page`), the page it found in its turn (`target`), how far it is |
| `spoilt`, `gone` | history variables: pages whose history was begun anew or purged, that were written in another page's turn, or that share a title; deletes whose page was left alone since |
| `ousted` | history variable: pages whose title a call that had looked it up before took from them (section 7), or that came back from the trash, since they were saved |

`SaveAsks` to `VersionEnds` are `PageManager.savePage` and the provider's: the
page is looked up by its name, checked, queued, looked up again in its turn,
written, the file it was saved over removed, the version and the manifest
written, the index queued. A version or a manifest that cannot be written is
logged, and the save goes on to the index and is answered (`VersionFails`,
`VersioningFileProvider.ts:2304-2318`); a manifest that cannot be read counts as none and
a version that cannot be read as an empty text (`VersionMisreads`, 2112-2122,
3186-3203). `call[c].list` of an answered save is empty when its version failed. `DeleteAsks` to `DeleteMoves`, `TrashAsks` with
`RestoreFinds` and `RestoreMoves`, `PurgeFinds` and `PurgeEnds` are the other
three. `IndexLands` writes the oldest copy in the queue; `IndexFails` fails one
call and lets the rest go on. `StartsUp` is `initializeFromIndex`, `Killed` a
kill between any two awaits.

### RenderCache — the page cache

| Variable | Code |
|---|---|
| `data[t]`, `owed[t]` | the data of topic `t`, as the number of its writes; the writes whose bump is still to come |
| `version[t]`, `bumps` | `cache-version:<topic>` in the store, `Unbumped` is `'0'`; every bump makes a value that was never used |
| `entry` | the stored page: what it was made from and the versions it was stored with |
| `full` | `maxKeys` of node-cache is reached; other users' keys come and go |
| `req[r]` | a call of `parse`: checking an entry's topics, rendering, about to store, answered; `use` is the entry or the render in hand |
| `announced`, `req[r].floor`, `use.caught` | history variables: the data at the last bump that was kept; the same when the request came; the topics whose version a clear took while the page was in use |

A topic is the data of one manager, which writes and then bumps (`writeAccounts`
and its like). A render declares the base topics first and others as its plugins
fetch managers, each before it reads; which, and in which order, is free. The
versions live in the store they guard: `Clear` takes them all, and a full store
refuses a bump (logged, not repeated) and an entry (`parse` then answers with the
page's source).

### AddonInstaller — an add-on's releases on disk

| Variable | Code |
|---|---|
| `lock` | the add-on's entry in `addons-lock.json`: `version`, `pending`, `previous`, `None` where there is none |
| `tarballs`, `dir`, `prev` | the stored tarballs; what `<slug>/` and `.previous-<slug>/` hold: a release, nothing, a half-removed folder, or somebody else's |
| `range` | the configured version range |
| `pc`, `target`, `olds`, `settling` | the next write of the start or of the Update; the release in hand; the tarballs that go once the lock is written; whether the undo is that of `settleUpdatedAddons` |
| `damaged`, `tried`, `running`, `excuse` | history variables: tarballs that were lost or changed; what the load pass did; what was loaded; whether this start has a reason not to load |

An action ends at a write to the disk, and `Crash` may come between any two.
A start goes `Start`, the undo of an unconfirmed switch (`Undo`), `Answer`
(`installOne`), then the switch (`SwitchSteps`), the check and repair of what is
installed, or an install; then `Load` and, after a switch, `ConfirmLock` or the
undo. `Update` to `StageClean` are `stageUpdate`. `Tear` begins the removal of a
folder; `StepFails` is a step that throws, with what each catch does.

## 4. The runs

| Run | Module, cfg | Instance | Shows |
|---|---|---|---|
| `slot_locks` | `SlotLocks` | 2 live processes and a dead one's lock, either backend, lease 3, clock to 8 | one holder at a time until one comes back late; both backends implement `SlotLease` |
| `job_slots` | `JobSlotsCheck` | schedule {1,2,4,5,7}, all due sets, all rules | the sets choose what the code's lists choose |
| `scheduler_one` | `JobScheduler_one` | 1 server, 3 slots, 2 attempts, 2 failures, 1 stop | types, no slot dropped, attempts bounded, every slot settles |
| `scheduler_crash` | `JobScheduler_crash` | 1 server, 3 slots, 4 attempts, a failure, a crash, a stop with a slow store, catch-up of all | chosen slots stay due, nothing settled runs again, a begun run settles |
| `scheduler_two` | `JobScheduler_two` | 2 servers, 1 slot, 2 runs of it, a crash and a stop | one server has a slot in hand; the lock names it |
| `scheduler_stale` | `JobScheduler_stale` | 1 server, 1 attempt, 1 crash | `FinalIsFinal` **violated** (section 7) |
| `restore` | `SiteRestore` | 2 parts of 2 paths, one of them may not start, 2 restores, 2 stops | types, all or nothing unless torn, only committed data goes in, each start decides, refused is final, the replaced data is kept |
| `audit` | `AuditLog` | a critical event and two others, queue of 2, files of 1 record, 1 archive, 1 failed write or kill | types, the chain stays linked, the head accuses nobody wrongly, a stop loses nothing, every call is answered, what waits is written; the log implements `AuditTrail` |
| `hand_runs` | `HandRuns` | a job with a schedule, 1 process, 2 runs, 2 attempts, 6 starts, 2 crashes, 1 stop | types, live runs are held, beginnings bounded, completed is final, nothing is silently lost |
| `pages` | `PageStore` | 3 requests of any kind, 2 uuids, 2 titles, 2 faults: kills, failed index writes, versions and manifests that cannot be written or read | types and turns, saved is in the history (unless its version failed) and served, deleted is restorable |
| `render_cache` | `RenderCache` | 2 requests, 2 topics, one of them a base topic, a write of each, 1 clear | what is served is fresh but for the case of the clear |
| `addon_installer` | `AddonInstaller` | 3 releases, 2 ranges, 3 stops, 2 steps that throw, 1 damaged tarball, 1 edit, 2 Updates | the fallback is kept, what loads is pinned, a stop costs nothing, updates are settled and end |

Seven configurations are no runs of the project but counterexamples a reader can
watch, each of the one property it names; section 7 explains them.

| Configuration | Instance | Violated |
|---|---|---|
| `SiteRestore_torn` | 2 parts of 2 paths, 1 restore, 2 stops | `PicksUp`: a start picks up where a stop cut one off |
| `AuditLog_synced` | 2 critical events and one other, nothing fails | `CompletedIsSynced`: an answered critical record was synced |
| `RenderCache_clear` | as `render_cache` | `ReRendered`: a page made before a bump is not served after it |
| `AddonInstaller_first` | 2 releases, one stop, nothing else goes wrong | `ForeignIsForeign`: a folder without an entry is somebody else's |
| `HandRuns_overlap` | 3 runs asked for, nothing fails | two are in work at a time |
| `HandRuns_unscheduled` | a job without a schedule, 1 process, 2 runs, nothing fails | `CompletedIsFinal`: a completed run is not begun again, nor reported as cut off |
| `PageStore_overlap` | 3 calls, no fault | two are at work on one page |

`SqliteTypeOK`, `FileTypeOK`, `CacheTypeOK` and `InstallerTypeOK` are proved
and in no run.

Why the bounds are enough for what each asks:

- *Lock*: the clock runs to more than twice the lease, so a lease expires, is
  stolen, and the thief's expires too. Two processes and a third's leftover is
  the case of a rolling update. Nothing bounds how late a process that gave the
  slot up comes back. With three live ones the file lock does not
  keep its promise (section 7).
- *Slots*: the gaps of {1,2,4,5,7} put a reading of the clock on a slot,
  between slots, one unit (`OnTime`) and more after one; five slots are more
  than `Cap` = 2 on each side of the end of a run.
- *One server*: three slots, with a gap in `scheduler_one` (one adopted or due,
  two due together, one that comes due during the other's run or backoff), in a
  row in `scheduler_crash` (more due together than `Cap`). Two attempts and two
  failures reach the last attempt; `scheduler_crash` has an attempt for every
  cut-off and one more, because a cut-off last attempt is finding 1. The
  passing run without crashes is where `NoSlotDropped` and `EverySlotSettles`
  hold: with a crash they do not (section 7).
- *Two servers*: everything about exclusion is about one slot; a second run
  of it (`MaxRuns` = 1 lets a look start while at most one run id was made, and the run it
  starts is a second) shows a slot that changes hands.
- *Restore*: two parts are needed for "together", two paths for a part cut off
  in the middle; one part may not start. Two restores let one be replaced,
  cancelled while it is staged, or follow an applied one (the kept copies of
  two generations). Two stops: one after the commit, one in the start that
  applies, and the third start ends undisturbed; or one while staging, one while
  refusing. The last start is not stopped, so every behaviour gets to serve.
- *Audit*: a queue of two is full with a critical record waiting or without one,
  and a record more comes in while a batch is written. Files of one record and
  one archive rotate at every flush and remove an archive at the second. One
  fault is a failed write, whole or in part, or a kill, before or after a
  restart: the chain is resumed from a torn file, an empty live one, an archive.
- *Runs by hand*: a run that is begun, cut off, restarted, cut off and
  reported needs two crashes and three starts; the other run is started before,
  between or after. One stop lets a run be handed off, with or without the
  grace's end, before or after a crash. Two runs that are asked for and one restart
  by each process after the first make five starts at most: the bound of six is
  never met. `MayAskInLook` keeps the runs
  that are asked for while a look recovers out of this run; with it true, one
  crash and one stop, the properties hold over 987 000 states.
- *Pages*: two requests meet and a third waits behind one of them, or finds what
  they left; a fault comes at or between any two steps, and two let a version fail
  before a kill or a misread manifest. Two titles and two uuids
  let a name change hands by rename, by delete and create, and by restore. In
  random walks with six calls, three pages, three titles and two faults (some
  24 million states) no property failed.
- *Page cache*: one request fills while the other checks, renders or stores; a write
  of each topic lets a page be old in one topic and not in the other, and one of the two is
  declared late, by a plugin. One clear makes a bumped version unbumped again. The
  proof is for any number of writes and clears.
- *Add-on installer*: three releases are what is installed, what is staged and what
  replaces it, and the ranges let an edit take the first or the last away. Three
  stops cut off a switch, the undo of it, and the undo of that; two Updates let
  one replace another; two failures let a switch fail and its way back too.

Each property of a passing run has a mutant: a definition of the model is
replaced by a slip of the same kind a programmer makes (a dropped owner check,
a save before the run in place of after it, a steal that does not look at what it
moved), and the property is violated. They stand beside what they mutate, marked
"Mutant of".

## 5. Fairness

`SiteRestore`, `PageStore`, `RenderCache` and the locks state none: their properties are of
safety. `FairSpec` of `JobScheduler`, `HandRuns` and `AuditLog` states weak
fairness only. In `JobScheduler`:

- `LookStep(s)`, `LaneStep(s)`: the event loop takes every step that is ready,
  the timer (`setInterval(tick, TICK_MS)`) keeps starting looks, and the
  provider's calls return. The work of a run ends, with any of its endings, by
  its time limit (`runWithTimeout`).
- `StartsUp(s)`: the service manager starts a process that ended.
- `GraceEnds(s)`, `Leaves(s)`: a shutdown runs to its end.
- `LeaseExpires(t)`, `Tick`: time passes.

Nothing is asked of failures, crashes and stops: they may never happen, and the
bounds say how often they can. Which ending the work of a run has is not chosen
fairly: a run may fail as often as the bound allows, then it ends otherwise.
`Tick` past `MaxTime` only serves a retry that is waiting.

`HandRuns` has the same for its looks (`SeekStep`), the steps of a run in hand
(`HandStep`), the processes and the leases. `AuditLog` has it for the read of the
chain's head (`Resumes`), the flushes (`Flushing`: every await of `doFlush`
returns, well or with an error), the flush interval (`TimerFlushes`, a
`setInterval`) and the supervisor (`StartsUp`). Callers, failed writes, kills
and stops are never asked for.

`FairInstaller` has it for the steps of a start together (`Progress`): each awaits a
call on the file system or a bounded request, which returns, and a site that
stopped is started again. Updates, edits, failures, damage and stops are never asked
for, nor that a load succeeds.

## 6. The proofs

Eight modules hold theorems; every leaf is checked by SMT, Zenon or LS4.

**SlotLocks_proofs**, first the lock with one row, for every set of owners, lease and bound.
`RowBacksHolder` is inductive together with the type invariant: whoever holds
the slot is the row's owner, until the row's expiry or earlier. `OneHolder` alone is not inductive: a
step from a state with one holder and a row naming somebody else gives a second one.
From `RowBacksHolder`, a `TakeLock` that succeeds finds no other holder, so
it is a `Grant`: `SqliteImplementsLease` (`SqliteSpec => LeaseSpec`) and
`SqliteOneHolder`.

Then the lock of a site, whichever backend was opened.
`FileTypesCorrect` is for every set of processes. `TwoProcessesLocksKept`,
`TwoProcessesOneHolder` and `TwoProcessesImplementLease` are for any two processes
and any lease, and claim exclusion until one of them comes back to a lock file of
its own that had run out (`late`). Neither limit can go: with three processes, or
after such a return, the file lock has two holders (section 7). On the database
nobody comes back so (`SqliteOneHolder` says `~late` too). On files `PairInv(o, p)` says of either process and the other: the
lock of a holder lies under the slot's name, or in the other's hands on its way
back, and lasts as long as the holder was told (`KeptInv`); only one has moved a
file, and not its own (`MovedInv`); a lock whose owner no longer counts on it is
judged as it lies (`SeenInv`), and is live when the owner itself comes back to
it (`RetakeInv`): that it is not is what `late` records. `PairAlone`: what is said of the two leaves room for one holder.
The SQLite part is `RowBacksHolder`.

**JobScheduler_proofs**, first of the slots, for every finite schedule, every rule and every question
(`InstantsAssumption`: the instants of `JobSlotsCheck` are numbers). `OldestExists`
(a non-empty set of naturals has its least element, by the well-foundedness of
`<`), `ChosenAreDue`, `NewestIsOne` and `NewestIsKept` (the newest `n`),
`NewestDueRuns` (catch-up rules other than `none`: the newest due slot runs); and
of whatever is asked, `SelectedNewestRuns` and `SelectedBacklogBounded` over `AnsweredAsAsked`: the answer is that
of the question.

Then of the scheduler, for any servers, slots, rules, attempts and bounds.

- `SchedulerTypeCorrect`: `Spec => []TypeOK`. The inductive invariant is
  `Typed`: `TypeOK` says that a copy in hand is a state; what is needed besides
  is that a lane that has a slot in hand has one of `Slots`, that its record
  there is a run of that slot, and that a look that works on an unfinished run has one
  (`Lanes`, `Looks`): those say where in the code each value is there.
- `SchedulerLockBacked`: `Spec => []LockBacked`. Inductive with `Typed`, one
  server at a time (`Backed`): a lock changes by `takeLock` (only when free or
  one's own), by `releaseLock` (only one's own) and by the end of its owner. The
  third part, that a look and a drain of one process never overlap, is what
  keeps `handleUnfinished`'s probe from giving up the lock of a run of its own
  process: take it away and the second part fails.
- `SchedulerExcludes`: `Spec => []SlotLockExcludes`, from `LockBacked`: one lock
  cannot name two.
- For one server, with `NeverCutOff \/ AttemptsToSpare`: no process is cut off
  while it runs a slot (no crash, and a store that answers within the grace of a stop),
  or the failures, crashes and stops together leave an attempt. Otherwise
  `FinalIsFinal` is false (section 7, 1). With two servers it is false in any
  case. `OneServerAgrees`: the inductive invariant `OneInv`. What a look or a
  drain read is what is stored (`CopiesInv`); what is final lies behind the next
  slot and what was started is final or the current run (`PastInv`); what a
  drain has before it is at or after the next slot (`TodoInv`), its run is the one
  the state names (`RunInv`); the starts of a slot are counted by the attempt of
  its run and the stops that ended (`StartsInv`). From it
  `OneServerAttemptsBounded`, `OneServerTodoStillDue`, `OneServerFinalIsFinal`
  and `OneServerNextNeverGoesBack`.
- `OneServerNoSlotDropped`, with `NeverCutOff` (a crash between `takeLock` and
  `saveState` drops a slot) and `SkippedFit`: a look passes over no more slots than
  `recordSkipped` keeps, which is the newest `Cap`. `FewSlotsFit` gives the latter when
  there are no more slots than `Cap`. `DropInv`: a slot behind the next one is noted, and one
  between the next one and where a drain ends is noted or still before it.

**SiteRestore_proofs**, for any parts, paths per part, restores and stops.
`OnlyCommitted` is not inductive: that a swap puts committed data in place
depends on what was staged, recorded and committed before. `RestoreInv` adds
that staging and starting exclude each other (`ModesApart`), that a part in
extraction is not yet recorded (`StagingBegun`), that a recorded part was
extracted to its end (`StagedWhole`), that a record in state staged is of a
committed restore (`StagedIsCommitted`), and that whatever swap is in hand
belongs to a pending part of such a record (`Swapping`). `RestoresOnlyCommitted`,
`EveryStartDecides` and `RefusedNeverApplied` follow; the last because only a
swap changes a live path, and a swap in hand means the record says staged.
`RestoresTogether` and `ReplacedKeptBeside` claim nothing of a restore that is torn:
a part cut off or failed in its swaps, left out after another went in, or discarded
in part. They need `TogetherInv` besides: as long
as nothing is torn, a path is as it was, restored, or in between (`PathsInv`); a
part is as the record says (`PartsInv`); and once one part is applied or being
applied, every other one is staged whole and none is set aside any more (`WholeInv`).
That is what the look through all staged paths before the first swap is for.

**HandRuns_proofs**, for any number of processes, runs, attempts, crashes and stops.

- `HandTypesCorrect`: `Spec => []HandTypeOK`, with `SeekInv`: a look that probes
  has something to probe, and a restart is announced only with an attempt left.
- `LiveRunsStayHeld`: `Spec => []LiveRunsAreHeld`. That a lock is there is not
  inductive: a look of the run's own process may probe it (a lock is granted to its
  owner again) and give it up. `HeldInv` adds why none does: a job with a schedule
  drains as long as a run is in hand, one without has its active run until the
  work ends (`KeepsOut`), and its process's look is idle so long (`InCharge`); a
  process has one run in hand (`Alone`), so that the flag falls with the last. For a job
  without a schedule the claim ends with the work, for one with a schedule with the release. A start
  during a look, or beside another run, is what `crowded` records.
- For one server and a job with a schedule: `OneServerBeginningsBounded` and
  `OneServerCompletedIsFinal`, with any number of crashes and stops, until a run
  crowds another. Without a schedule the second is false (section 7, 8). `OneInv`: what a look listed is still
  unfinished (`ListInv`), a run in hand is as its record says (`AtHand`), and a run
  was begun once for each attempt and each stop that ended, less one when it was handed
  off (`CountInv`). Two servers that recover the same run begin it twice
  (section 7).

**AuditLog_proofs**, for any events, queue and file sizes, archives, failed
writes and kills.

- `LogTypesCorrect`: `Spec => []LogTypeOK`, with `StageInv`: a flush under way is
  the first that was asked for.
- `LogKeepsAccount`: where the record of each call is. Nowhere before it is
  accepted; waiting or in the files while its first flush is not settled; in
  the files once that was settled well. It is inductive with `TurnsInv` (a call
  awaits one flush at a time, and a flush was asked for by a call that awaits it)
  and with the clause that the flush under way has its caller's record in hand or
  finds it written: this is why a flush that finds the queue empty may answer.
- `LogImplementsTrail`: `Spec => TrailSpec`. Under the mapping (what waits is
  `batch \o queue`, the trail is the lines) a step is `Begin`, `Accept`,
  `Store(n)`, `Answer` or `End(n)`, or a stutter: a failed write stores `n`
  records and keeps them waiting, a kill stores `n` and ends. An answer needs the
  record in the files, which the account says.
- `LogChainUnbroken`: the records that wait are linked to one another
  (`WaitLinked`), and the first of them to the last line of the files when that can
  be read, or was put down before by a write that failed (`FrontLinked`); with
  `ResumeInv` (nothing waits before the chain is resumed) and `FilesInv` (the live
  file is never so far behind that there is no line to resume from). A failed write
  puts its batch back in front, which is where it was.
- `LogWitnessHonest`: of the published head, from these and `OneInv` (a record is
  stamped once, so a number names one record).
- `LogStopLosesNothing`: `OwedInv`, what waited at the stop is written or still
  waits, and the stop's own flush, the last in turn, has all of it in hand.

**PageStore_proofs**, for any requests, pages, titles and faults.

- `PagesTypesCorrect`: `Spec => []PagesTypeOK`, whose last conjuncts say that a
  call at work is the head of its page's queue. Inductive with `CallsInv` (which
  field of a call has its value where), `QueueInv` (a call that waits is in its
  page's queue, once), `WritesInv` (each queued write is of one call that waits
  for it, so settling it settles that call) and `DownInv`.
- `DeletedStaysRestorable`: `Spec => []DeletedIsRestorable`. `GoneInv` says of such a
  page: file in the trash, none in place; the tombstone in the index; in the
  stored index, or in a queued copy with no copy behind it that lacks it; and no
  purge of the page under way. The order of the queue is what makes it true.
- `SavedStaysInHistory`: `Spec => []SavedIsInHistory`. `HistInv` says that in every
  history that is not spoilt a version is a diff from the text of the one before or, when
  that could not be read, carries its own whole (`Holds`), that a version being
  written follows what the manifest lists, and that a save past it whose version did
  not fail is listed. The lemma
  `OneAtAHistory` is the use of the queue: two calls at that point of one page
  are one call.
- `SavedStaysServed`: `Spec => []SavedIsServed`. `ServedOK(c)` follows the save's
  title through the four places it is kept: the lookups have it once the file is
  in place, the index once the manifest is written, every queued copy from the
  save's own on, and, once it is answered, the stored index and all that is
  queued. So no copy that lands later, and no start that reads one, gives
  the title to another page. `LandedOK`: who is about to write the index for a
  page has nobody else's text in it. The proof is what found the stale
  lookup of section 7: three requests do not reach it.

**RenderCache_proofs**, for any requests, topics, base topics and bounds.

- `CacheTypesCorrect`: `CacheSpec => []CacheTypeOK`.
- `PagesServedFresh`: `CacheSpec => []ServedIsFresh`. What is served is fresh only
  because of what was stored and read long before. `Vouched` is the link: if the
  version a page was made with is the topic's now, its data is no older than what
  was announced. That holds of the stored entry (`EntryInv`), of an entry that is being
  checked for the topics still to be compared, while those compared are no older
  than what was announced at the question (`CheckInv`), and of a page in the making
  for what it read and what it is still to read (`MakeInv`). That a version is never
  used twice carries it over a bump; a clear breaks it exactly for the topics in
  `caught`.
- `NoClearNoneStale`: with `MaxClears = 0`, `CacheSpec => []ReRendered`: the finding
  of section 7 needs the clear.

**AddonInstaller_proofs**, for any releases, ranges, stops, failures, damages, edits and
Updates. `InstallerInv` is inductive: the types, `FallbackKept`, and for each stage
of a start what it counts on: an undo has a release to go back to (`UndoInv`); a
switch has one staged that is in the range and stored, and its folder is in place before the
lock says so (`SwitchInv`); a check or a repair has an entry that answers (`VerifyInv`);
an install has its tarball before its folder and that before the lock, and what it
then removes is not what the lock names (`InstallInv`); what is loaded is
unpacked and pinned, and only what loaded or is off is confirmed (`LoadInv`); an
Update never runs beside an unconfirmed switch (`StageInv`); and what ran is what the
lock names until the process ends (`HistoryInv`). From it
`InstallerTypesCorrect`, `FallbackStaysKept`, `LoadsWhatIsPinned`,
`CrashesCostNothing` and the action property `UpdatesSettle`. `CrashesCostNothing`
is of starts in which no step throws, the registry helps where it is needed, no folder
stands in the way (as that of a first install that was cut off does) and the
stored tarball is undamaged. That the folder is what
the lock names is no part of it outside a load: a stop leaves any folder behind, and the
check at the next start is what makes up for it.

Assumptions: those named in the modules (`ASSUME`): `Slots` a finite set of positive
numbers, no process called as the free or the dead owner, rules and counts in their ranges.

Only model-checked: `AgreesWithTheList`, which compares the sets with the code's
filter, sort and slice of a list (what `SelectSeq` and `SortSeq` return for every
list is an induction over the list). Out of the prover's reach: liveness under
fairness (`EverySlotSettles`, `BegunRunsSettle`, `NeverSilent`,
`EveryCallIsAnswered`, `WaitingIsWritten`, `UpdateEnds`), `ENABLED`, and what a recursive
definition computes; there are none of the last in these modules. The run
and the configurations that end in a violation, and what fails beyond the hypotheses above, need no proof:
a trace shows them.

## 7. Where the code and its word differ

The first has a run that ends in the violation, with its steps, the others of the list a
configuration to watch them by.

1. **A slot failed for good runs once more** (`scheduler_stale`). `look`
   reads the state once (`BackgroundJobManager.ts:617`). When
   `handleUnfinished` finds the last attempt cut off by a crash,
   `afterFailedAttempt` saves `nextSlot` past the slot and returns false, and
   `look` goes on at line 640 with its first copy: the slot is due, and runs.
2. **A start cut off in the middle of a part does not pick up there**
   (`SiteRestore_torn`). `applyPartAtStart` renames the staged paths in one by one
   (`siteRestore.ts:303-314`) and marks the part after the last (320). If the
   process dies in between, the next start finds staged files missing, which
   is how it tells a restore that lost a part: it refuses, sets the rest aside, and
   the site serves one path restored and one not; cut off between the two
   renames, and refused for another path, a live path is gone until somebody
   renames its `.pre-restore` back. The header says a start that stops half-way
   picks up where it stopped "instead of seeing a 'missing' part" (26-28), which
   holds between two parts and not within one.
3. **A critical record can be answered without an fsync** (`AuditLog_synced`). Its
   flush waits behind those asked for before. One of those that was asked for
   without fsync (the interval's, a full queue's, or `flushAuditQueue`'s of
   another critical call) takes the whole queue and appends it to the page
   cache; the record's own flush then finds the queue empty, returns at
   `FileAuditProvider.ts:585` without a sync, and `writeEvent` resolves. "It is
   written and `fsync`ed before `writeEvent` resolves" (783-784).
4. **A clear during a render lets a page go stale** (`RenderCache_clear`). The versions of
   the topics live in the store `adminClearCache` empties (`WikiRoutes.ts:19462`,
   `NodeCacheProvider.ts:221`), and every topic reads `'0'` again. A render that read a
   topic before its first bump and is stored after the clear carries `'0'`: it
   is served, though the topic was bumped in between, until its time is up or the
   topic changes again. "Every cached render that read it is re-rendered on its next
   read" (`CacheManager.ts:259-260`).
5. **A first install that is cut off is never tried again** (`AddonInstaller_first`).
   `installFresh` unpacks the folder and then writes the lock
   (`addonInstaller.ts:383-391`). Stopped in between, or when the lock cannot be
   written, it leaves a folder without an entry, which every later start takes for
   somebody else's (431). "It is tried again at the next start" (25), and the guide
   says that of the folders "the installer did not put there" only.
6. **Two runs by hand at a time** (`HandRuns_overlap`). `executeJob` sets the
   status of a run, then awaits the audit record and the notification of its
   end, and removes the job from `activeByJobId` in its `finally`. A run
   enqueued in between is started, since the active one is neither pending nor
   running (`BackgroundJobManager.ts:1195`); the `finally` then removes the
   job, which stands for the second run, and a third is started beside it. "Only
   one instance of a given jobId runs at a time" (313-314). The same window
   lowers `draining` under the second run, and a look may then probe its lock.
7. **Two calls write one page at a time** (`PageStore_overlap`). A save or a
   delete waits in the queue of the page its name stood for when it was asked,
   and looks the name up again in its turn (`VersioningFileProvider.ts:2202`). When
   the page was deleted meanwhile and its name taken by another, it writes that
   one, outside its queue. "One write at a time per page" (`PageManager.ts:2826`,
   `FileSystemProvider.ts:974`).
8. **A completed run by hand is taken for cut off** (`HandRuns_unscheduled`). When the
   work of a run ends, `executeJob` removes it from `activeByJobId`; only then is its end
   recorded and its lock released (`BackgroundJobManager.ts:1311-1318`). The look after
   it spares a job that drains (1339), which one without a schedule never does. A look in
   between lists the run as running, probes its lock, which is granted since the process owns
   it, and after the record of its end is written starts the run again, or reports it as cut off. "A job running here
   … is looked at again next time" (1326-1331). A process looks until it has seen the job
   once, and a job at work is not seen, so the run is one asked for before that. `CompletedIsFinal` and `NeverSilent` are checked,
   and the former proved, for jobs with a schedule. `BeginningsBounded` holds in this
   configuration too: a restart is an attempt.

The rest is in the models, as what the code does; the properties name it as an
exception, or the bounds leave it out.

- *File lock, three processes*: `takeLock` renames whatever is under the slot's
  name and looks at it afterwards. A stealer that read an expired lock may move
  the live lock of one who stole in between; until it is linked back the name
  is free, and a third process's exclusive create succeeds there, so that two
  hold the slot. The header says a live holder is never stolen from
  (`FileJobStateProvider.ts:14-15`). With two processes there is nobody to create
  in between.
- *File lock, a late return*: a process releases the slot while the other, which read
  the lock when an earlier lease had run out, has it aside; the release finds no file, and the other
  links it back. The first retry comes 60 s later (`BackgroundJobManager.ts:48`),
  which is the lock's TTL (39): `takeLock` finds its own lock, expired, and
  renews it by a read and a write (`FileJobStateProvider.ts:151`), while the other may
  again have judged it expired and be stealing it. Both are told they hold the slot. The properties
  say nothing after such a return (`late`).
- *Scheduler, a crash between `takeLock` (919) and `saveState` (947)*: there is a
  lock and no current run. The next start takes "held" for "a live server runs
  it", and the end of the drain (910) moves past the slot: no run and no
  record remain. `NoSlotDropped` fails when it is
  added to `JobScheduler_crash.cfg`.
- *Scheduler, two servers*: a look that read the state before the other server
  started the slot drains it; when the other has finished and released the lock,
  `takeLock` succeeds, and nothing is read again after it. `FinalIsFinal` fails
  with two servers, while `SlotLockExcludes` holds.
- *Runs by hand, two servers*: both can probe the lock of one cut-off run, one
  after the other, and both restart it: `BeginningsBounded` and
  `CompletedIsFinal` are about one server, `LiveRunsAreHeld` is proved for any
  number. A crash before the first record of a run loses it: nobody knows of it.
- *Restore*: a stop in the middle of removing a staged folder (a cancel, a
  replacement) leaves it there in part, and the next start applies it: the
  record still says staged, and a folder that exists is not missing
  (`StopsDiscarding`). A rename that fails undoes nothing before it
  (`SwapFails`). And a cancel discards the restore it finds after its audit
  record is written, which need not be the one it recorded.
- *Audit*: a write that failed may have put its records down; they go back into
  the queue and are in the log twice. A critical record whose write failed is
  refused to its caller and written later all the same. The first record
  after a torn line is written on in that line and cannot be read, so that a
  restart right after it resumes from the record before the torn one. The published head is the newest
  record stamped, and may name one that a kill then takes (`WitnessHonest` lists
  these). `chainResumed` is set before the head is read (`BaseAuditProvider.ts:461`):
  the model has the boot's own record first, as shipped; with that event
  disabled two first records would both begin at number 1.
- *Pages*: a page the start found in the folder and not in the index leaves no
  tombstone when it is deleted before its next save (`VersioningFileProvider.ts:2518-2532`).
  A save that waited behind a delete of its page creates it again and begins
  its history anew, over the versions that are there. A kill between the move to
  the trash and the write of the index leaves a page neither served nor listed
  in the trash. Two calls that give two pages one title both pass the check
  before either's file is written. A delete resolves its name again in its turn,
  and may delete the page that has the name by then. A save with a rename whose
  page was deleted and whose name was taken removes the other page's file.
- *Pages, a version that fails*: the save is answered though the history has
  nothing of it; the comment calls that non-fatal (`VersioningFileProvider.ts:2304-2318`),
  and the caller is not told. A manifest that cannot be read restarts the history at
  version 1, over the versions that are there; a version that cannot be read is taken
  for an empty text, and the diff made from it cannot be read back.
  `SavedIsInHistory` leaves the first out, `spoilt` names the second, `Misread` the third.
- *Pages, a lookup that is out of date*: a rename looks up which page its old name
  stands for (`FileSystemProvider.ts:778`), writes the page, and then takes the old
  name out of `titleIndex` and `pageCache` (`929-943`), whoever has it by then. When the page
  was deleted after the rename was asked, and another took the name, it is that one the
  rename finds; if that one is deleted too, and a third page is saved under
  the name before the rename is in place, the third is on disk and in the
  index, its save was answered, and it is not found by its title until the next start.
  It takes five requests and three pages, more than the run has; the
  property excuses such a page (`ousted`), and the proof covers every other.
- *Page cache*: a bump that a full store refuses is lost but for a warning, and pages
  made before the write stay until their time is up: `ServedIsFresh` counts from the last
  bump that was kept. A render whose entry is refused is thrown away, and `parse`
  answers with the page's source in its place.
- *Add-on installer*: two stops, in an undo and again after its second rename, put the
  new release under `.previous-<slug>` and then back in place; the check against
  the tarball finds it and repairs it at once. When the write of the lock fails in a
  switch, the add-on is skipped for that start though both releases are on disk.

## 8. What is abstracted, what is left out

- One job, whose rule does not change; persisted (`persist` true). Several jobs
  share nothing but the provider and the shutdown. A changed rule, a job
  paused or reconfigured (`refreshFromConfig`), the first look after a
  restore and the administrator's `rerunSlot`, `retryNow` and `runNow` are not
  there yet; nor are the slots of a job beside its runs by hand.
- Checkpoints are left out: the state machine does not read them.
- The backoff is one number, not a table of three; audit events,
  notifications and logging are left out. `recordSkipped` is there for the
  history it writes.
- `due.length === 0` (line 644) cannot happen here: `nextSlot` is a slot.
  It is the code's answer to a rule that changed or to daylight saving.
- The provider's calls are atomic, which `putState` is (an atomic rename, or one
  statement); the file backend's `recordRun` is a read and a write, serialised within
  one process: two servers can lose each other's records there (a hazard without a property yet).
  The history has no limit.
- A tick comes at any time: the 30-second timer is not counted. The clock is one
  for all servers, as it is on one host.
- A heartbeat's `renewLock` that is under way while its own process releases the
  slot is not modelled: `pc[o]` is one call at a time.
- The file lock's exclusive write is modelled as the link it ends in; its
  temporary file belongs to one process and nobody else sees it.
- A restore's data is the number of the restore. All parts swap the same number
  of paths; the order of parts and paths is any. A live path is always there
  before the first restore. Not modelled: the databases' own record beside the
  site's, the merge of the instance `.env`, the audit files' `put`, a record
  that cannot be read or names a path its manager does not own (applied to
  nothing, left alone), `<manifest>.last` and the report. Removing an older kept
  copy is one step, as is what `rmSync` does to a `.incomplete`.
- Runs by hand: `takeLock` of a start's own fresh key is always granted, and a
  live process's heartbeats keep its lock. A provider that fails is left out.
  Whether who asked for a run may still ask for its restart is left open (a
  report in its place is always possible). Work that goes on after its run was
  handed off has no step.
- Audit: the file provider. The database and cloud providers, retention
  (`cleanup`), `restartChain`, redaction and the readers are left out. One
  flush of the interval waits at a time. How many bytes a write put down is not
  looked at. A limit of no archives would begin the chain anew at every rotation;
  the model has one at least. A record is its event: each event is recorded once.
- Pages: public pages and the fast start. Each save has a text of its own, so a text
  is named by its call; a slug is its title. `getPage` is one step, and a call on
  an idle page goes from `checkConflicts` to its turn without a gap. Which of two
  entries with one title a start keeps is left open. Versions and manifests
  are written whole or not at all. Left out: vaults and private pages, the stale-save
  check (the routes read the page at `WikiRoutes.ts:3986` and compare at 4290,
  outside the page's queue), the version cache (which nothing clears when a
  history is purged or begun anew), checkpoints, the purge by age, the repairs
  of a start.
- Page cache: one key, one process. A page's data is, per topic, the number of writes
  its first read saw; later reads see no older data. The topic of the clock, whose
  version is the minute, is left out, as are regions cleared alone (an eviction) and
  which requests share a key.
- Add-on installer: one add-on. A release is its number, its tarball what it says, a folder
  the release it was unpacked from. Whatever the registry, a check or the audit record
  refuses is a step that fails. Stored tarballs are damaged while the site is down, folders
  not at all but by a removal that was cut off. An add-on is never taken out of the
  configuration.
- Not modelled: throttles, policies and permission decisions (sequential, a
  matter of operators over data), rendering, plugins, search, media,
  export, users and sign-in, configuration, loading of add-ons and the HTTP layer: what
  can go wrong in them is in the data. They are most of the code by size
  (`WikiRoutes.ts` alone has 23 000 lines); the modelled parts are where the
  order of steps decides.

## 9. Running it

    tlc -config JobScheduler_one.cfg JobScheduler.tla
    tlapm JobScheduler_proofs.tla

`PROJECT.json` names module and configuration of each run, the mutants, and for
each definition the lines it stands for. The longest runs take some two minutes
(`audit`, with its liveness properties, and `hand_runs`), the longest proof,
`PageStore_proofs`, a few.
