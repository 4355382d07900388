---------------------------- MODULE JobScheduler ----------------------------
(***************************************************************************)
(* One scheduled job on the servers that share its state                   *)
(* (src/src/managers/BackgroundJobManager.ts): the look for due slots, the *)
(* drain that runs the chosen ones, the attempts of a slot, the handoff at *)
(* shutdown and what the next start makes of a run that was cut off.       *)
(*                                                                         *)
(* A step is one segment of the code, from one await to the call it next   *)
(* awaits, and the call is part of it: a state read before an await is a   *)
(* copy (snap) and may be old when it is written back.                     *)
(*                                                                         *)
(* The slot lock is the lease of SlotLease, seen from the scheduler: its   *)
(* holder keeps it as long as it lives (the heartbeat), and that of a dead *)
(* process runs out some time later.                                       *)
(***************************************************************************)
EXTENDS JobSlots

CONSTANTS
  Server,       \* the processes, LOCK_OWNER; a restart of one is a new owner
  NoServer,     \* the owner of a free lock
  DeadServer,   \* the owner of a lock whose process is gone
  CatchUp,      \* the job's catchUp
  Overlap,      \* the job's overlap
  MaxAttempts,  \* the job's maxAttempts
  Backoff,      \* the wait before the next attempt (BACKOFF_MS, one value)
  SlowStore,    \* whether a call on the state may outlast the shutdown grace
  MaxTime,      \* bound: slots come due until then
  MaxFailures,  \* bound: how often the work of a run fails
  MaxCrashes,   \* bound: how often a process dies without a handoff
  MaxStops,     \* bound: how often a process is told to stop
  MaxRuns       \* bound: how many run ids a slot may have when a look starts

ASSUME OwnersAssumption == {NoServer, DeadServer} \cap Server = {} /\ NoServer # DeadServer
ASSUME RulesAssumption == CatchUp \in CatchUpRules /\ Overlap \in OverlapRules
ASSUME AttemptsAssumption == MaxAttempts \in Nat \ {0} /\ Backoff \in Nat \ {0}
ASSUME SlowStoreAssumption == SlowStore \in BOOLEAN
ASSUME BoundsAssumption == {MaxTime, MaxFailures, MaxCrashes, MaxStops, MaxRuns} \subseteq Nat

VARIABLES
  now,        \* the clock the servers share
  mode,       \* mode[s]: down, up, stopping (handOff), late (its grace is over)
  store,      \* JobState as the provider keeps it
  lock,       \* lock[t]: who holds the lock of slot t
  history,    \* the run records of the provider
  look,       \* look[s]: the look in hand (tick, look)
  lane,       \* lane[s]: the drain in hand (drain, runSlot)
  busyUntil,  \* busyUntil[s]: when the job's last run in this process ended
  made,       \* made[t]: how many run ids were made for slot t
  tally,      \* what the bounds count
  starts,     \* history variable: how often the work of slot t was started
  outcome     \* history variable: what the scheduler last said of slot t

durable == <<store, lock, history>>
ghosts  == <<starts, outcome>>
vars    == <<now, mode, durable, look, lane, busyUntil, made, tally, ghosts>>

-----------------------------------------------------------------------------
(* JobRunRecord: its run id is the slot and the number of the run. *)

NoRun == [slot |-> Null, nth |-> 0, attempt |-> 0, status |-> "none", retryAt |-> Null]

SameRun(r, q) == r.slot = q.slot /\ r.nth = q.nth

(* recordRun: the record of a run replaces the one it had. *)
Recorded(r) == {h \in history : ~SameRun(h, r)} \cup {r}

(* JobState.  A state that is not there (known FALSE) reads as emptyState. *)
NoState == [known |-> FALSE, last |-> Null, next |-> Null, current |-> NoRun]

Known(state) == [state EXCEPT !.known = TRUE]

(* nextSlotAfter: never earlier than the one already recorded. *)
NextSlotAfter(recorded, slot) == IF recorded > slot THEN recorded ELSE NextSlot(slot)

(* afterFailedAttempt: the record of a failed attempt, with a time to try  *)
(* again while attempts are left.                                          *)
FailedAt(r, t) == [r EXCEPT !.status = "failed",
                            !.retryAt = IF r.attempt < MaxAttempts THEN t + Backoff ELSE Null]

(* What it saves over the state it read. *)
AfterFailure(state, r) ==
  IF r.retryAt # Null
  THEN [Known(state) EXCEPT !.current = r]
  ELSE [Known(state) EXCEPT !.current = NoRun, !.next = NextSlotAfter(state.next, r.slot)]

Said(slot, word) == outcome' = [outcome EXCEPT ![slot] = word]

SaidIfLast(r) == IF r.retryAt # Null THEN UNCHANGED outcome ELSE Said(r.slot, "failed")

-----------------------------------------------------------------------------
NoLook == [pc |-> "idle", at |-> Null, snap |-> NoState, fresh |-> NoState, skip |-> {}, run |-> {}]

NoLane == [pc |-> "idle", todo |-> {}, slot |-> Null, resume |-> NoRun, after |-> Null,
           record |-> NoRun, snap |-> NoState, byGrace |-> FALSE]

Init == /\ now = 0
        /\ mode = [s \in Server |-> "down"]
        /\ store = NoState
        /\ lock = [t \in Slots |-> NoServer]
        /\ history = {}
        /\ look = [s \in Server |-> NoLook]
        /\ lane = [s \in Server |-> NoLane]
        /\ busyUntil = [s \in Server |-> Null]
        /\ made = [t \in Slots |-> 0]
        /\ tally = [failures |-> 0, crashes |-> 0, stops |-> 0]
        /\ starts = [t \in Slots |-> 0]
        /\ outcome = [t \in Slots |-> "open"]

(* Mutant of Takeable: the lock of a live server is taken from it. *)
TakeableFromAny(s, t) == lock[t] \in {NoServer} \cup Server

(* takeLock succeeds on a free lock and on our own. *)
Takeable(s, t) == lock[t] \in {NoServer, s}

Taken(s, t) == lock' = [lock EXCEPT ![t] = s]

(* releaseLock: nothing happens to a lock that is not ours. *)
Released(s, t) == lock' = IF lock[t] = s THEN [lock EXCEPT ![t] = NoServer] ELSE lock

-----------------------------------------------------------------------------
(* look: one at a time in a process (ticking), and none while it drains. *)

LookGoes(s, to) == look' = [look EXCEPT ![s].pc = to]
LookEnds(s)     == look' = [look EXCEPT ![s] = NoLook]

LookStarts(s) == /\ mode[s] = "up"
                 /\ look[s].pc = "idle"
                 /\ lane[s].pc = "idle"
                 /\ \A t \in Slots : made[t] <= MaxRuns
                 /\ look' = [look EXCEPT ![s] = [NoLook EXCEPT !.pc = "seen", !.at = now, !.snap = store]]
                 /\ UNCHANGED <<now, mode, durable, lane, busyUntil, made, tally, ghosts>>

Seen(s) == look[s].pc = "seen"

(* A job seen for the first time starts from now. *)
Adopts(s) == LET at == look[s].at IN
  /\ Seen(s)
  /\ ~look[s].snap.known
  /\ store' = [Known(NoState) EXCEPT !.next = NextSlot(at)]
  /\ outcome' = [t \in Slots |-> IF t <= at /\ outcome[t] = "open" THEN "before" ELSE outcome[t]]
  /\ LookEnds(s)
  /\ UNCHANGED <<now, mode, lock, history, lane, busyUntil, made, tally, starts>>

(* startDrain: nothing starts once the process is stopping. *)
StartsDrain(s, items, slot, resume, after) ==
  /\ LookEnds(s)
  /\ IF mode[s] = "up"
     THEN lane' = [lane EXCEPT ![s] = [NoLane EXCEPT !.pc = "turn", !.todo = items, !.slot = slot,
                                                     !.resume = resume, !.after = after]]
     ELSE UNCHANGED lane
  /\ UNCHANGED <<now, mode, durable, busyUntil, made, tally, ghosts>>

(* handleUnfinished: a run the state names as current. *)
Unfinished(s) == look[s].snap.current

(* Running, and its lock is held: a live server has it. *)
LeavesRunning(s) == /\ Seen(s)
                    /\ Unfinished(s).status = "running"
                    /\ ~Takeable(s, Unfinished(s).slot)
                    /\ LookEnds(s)
                    /\ UNCHANGED <<now, mode, durable, lane, busyUntil, made, tally, ghosts>>

(* Running, and nobody holds it: its server stopped during the run. *)
ProbesLock(s) == /\ Seen(s)
                 /\ Unfinished(s).status = "running"
                 /\ Takeable(s, Unfinished(s).slot)
                 /\ Taken(s, Unfinished(s).slot)
                 /\ LookGoes(s, "probed")
                 /\ UNCHANGED <<now, mode, store, history, lane, busyUntil, made, tally, ghosts>>

ReleasesProbe(s) == /\ look[s].pc = "probed"
                    /\ Released(s, Unfinished(s).slot)
                    /\ LookGoes(s, "cutOffRead")
                    /\ UNCHANGED <<now, mode, store, history, lane, busyUntil, made, tally, ghosts>>

CutOffReads(s) == /\ look[s].pc = "cutOffRead"
                  /\ look' = [look EXCEPT ![s].pc = "cutOffSave", ![s].fresh = store]
                  /\ UNCHANGED <<now, mode, durable, lane, busyUntil, made, tally, ghosts>>

CutOff(s) == FailedAt(Unfinished(s), look[s].at)

CutOffSaves(s) == /\ look[s].pc = "cutOffSave"
                  /\ store' = AfterFailure(look[s].fresh, CutOff(s))
                  /\ SaidIfLast(CutOff(s))
                  /\ LookGoes(s, "cutOffRecord")
                  /\ UNCHANGED <<now, mode, lock, history, lane, busyUntil, made, tally, starts>>

(* With attempts left the job waits.  After the last, the same look goes   *)
(* on to the due slots, with the state it read before it failed the run.   *)
CutOffRecords(s) == /\ look[s].pc = "cutOffRecord"
                    /\ history' = Recorded(CutOff(s))
                    /\ IF CutOff(s).retryAt # Null THEN LookEnds(s) ELSE LookGoes(s, "due")
                    /\ UNCHANGED <<now, mode, store, lock, lane, busyUntil, made, tally, ghosts>>

(* Handed off at shutdown: picked up at once, as the same attempt. *)
ResumesInterrupted(s) == /\ Seen(s)
                         /\ Unfinished(s).status = "interrupted"
                         /\ StartsDrain(s, {Unfinished(s).slot}, Unfinished(s).slot, Unfinished(s), Null)

WaitsForRetry(s) == /\ Seen(s)
                    /\ Unfinished(s).status = "failed"
                    /\ Unfinished(s).retryAt > look[s].at
                    /\ LookEnds(s)
                    /\ UNCHANGED <<now, mode, durable, lane, busyUntil, made, tally, ghosts>>

(* Mutant of Retries: the attempt is not counted. *)
RetriesUncounted(s) == /\ Seen(s)
                       /\ Unfinished(s).status = "failed"
                       /\ Unfinished(s).retryAt # Null /\ Unfinished(s).retryAt <= look[s].at
                       /\ StartsDrain(s, {Unfinished(s).slot}, Unfinished(s).slot, Unfinished(s), Null)

Retries(s) == /\ Seen(s)
              /\ Unfinished(s).status = "failed"
              /\ Unfinished(s).retryAt # Null /\ Unfinished(s).retryAt <= look[s].at
              /\ StartsDrain(s, {Unfinished(s).slot}, Unfinished(s).slot,
                             [Unfinished(s) EXCEPT !.attempt = @ + 1], Null)

(* Nothing unfinished, or a failed run that is not tried again. *)
Settled(r) == r = NoRun \/ (r.status = "failed" /\ r.retryAt = Null)

(* The rest of the look works on the copy of the state it read first. *)
OnToSlots(s) == \/ look[s].pc = "due"
                \/ Seen(s) /\ look[s].snap.known /\ Settled(Unfinished(s))

NothingDue(s) == /\ OnToSlots(s)
                 /\ look[s].snap.next = Null \/ look[s].snap.next > look[s].at
                 /\ LookEnds(s)
                 /\ UNCHANGED <<now, mode, durable, lane, busyUntil, made, tally, ghosts>>

(* The newest Cap of the slots passed over get a record each. *)
ChoosesSlots(s) ==
  LET at  == look[s].at
      due == SlotsBetween(look[s].snap.next, at)
      run == Chosen(due, at, busyUntil[s], CatchUp, Overlap)
  IN  /\ OnToSlots(s)
      /\ look[s].snap.next # Null /\ look[s].snap.next <= at
      /\ look' = [look EXCEPT ![s].pc = "chosen", ![s].run = run, ![s].skip = NewestOf(due \ run, Cap)]
      /\ UNCHANGED <<now, mode, durable, lane, busyUntil, made, tally, ghosts>>

RecordsSkipped(s) == \E t \in look[s].skip :
  /\ look[s].pc = "chosen"
  /\ IsOldest(t, look[s].skip)
  /\ history' = Recorded([NoRun EXCEPT !.slot = t, !.nth = made[t] + 1, !.status = "skipped"])
  /\ made' = [made EXCEPT ![t] = @ + 1]
  /\ Said(t, "skipped")
  /\ look' = [look EXCEPT ![s].skip = @ \ {t}]
  /\ UNCHANGED <<now, mode, store, lock, lane, busyUntil, tally, starts>>

(* The slot after the newest due one is the first after the look. *)
After(s) == NextSlot(look[s].at)

SkippedAll(s) == look[s].pc = "chosen" /\ look[s].skip = {}

MovesOn(s) == /\ SkippedAll(s)
              /\ look[s].run = {}
              /\ store' = [look[s].snap EXCEPT !.next = After(s)]
              /\ LookEnds(s)
              /\ UNCHANGED <<now, mode, lock, history, lane, busyUntil, made, tally, ghosts>>

Drains(s) == /\ SkippedAll(s)
             /\ look[s].run # {}
             /\ StartsDrain(s, look[s].run, Null, NoRun, After(s))

-----------------------------------------------------------------------------
(* drain: the chosen slots one at a time, oldest first. *)

LaneGoes(s, from, to) == lane[s].pc = from /\ lane' = [lane EXCEPT ![s].pc = to]

(* The copy of the state that the next save of this lane starts from. *)
LaneReads(s, from, to) == lane[s].pc = from /\ lane' = [lane EXCEPT ![s].pc = to, ![s].snap = store]

LaneEnds(s) == /\ lane' = [lane EXCEPT ![s] = NoLane]
               /\ busyUntil' = [busyUntil EXCEPT ![s] = now]

(* On to the slot after this one. *)
NextTurn(s) == lane' = [lane EXCEPT ![s].pc = "turn", ![s].todo = @ \ {lane[s].slot}, ![s].resume = NoRun]

TurnReads(s) == \E t \in lane[s].todo :
  /\ lane[s].pc = "turn"
  /\ lane[s].resume = NoRun
  /\ IsOldest(t, lane[s].todo)
  /\ lane' = [lane EXCEPT ![s].pc = "turnSave", ![s].slot = t, ![s].snap = store]
  /\ UNCHANGED <<now, mode, durable, look, busyUntil, made, tally, ghosts>>

(* Mutant of TurnSaves: the state moves past the slots before they ran. *)
TurnSavesAfter(s) == /\ LaneGoes(s, "turnSave", "take")
                     /\ store' = [Known(lane[s].snap) EXCEPT !.next = lane[s].after]
                     /\ UNCHANGED <<now, mode, lock, history, look, busyUntil, made, tally, ghosts>>

(* Until a slot's run starts it is still the next one. *)
TurnSaves(s) == /\ LaneGoes(s, "turnSave", "take")
                /\ store' = [Known(lane[s].snap) EXCEPT !.next = lane[s].slot]
                /\ UNCHANGED <<now, mode, lock, history, look, busyUntil, made, tally, ghosts>>

(* runSlot.  A slot that is resumed is already the next one. *)
AtTake(s) == \/ lane[s].pc = "take"
             \/ lane[s].pc = "turn" /\ lane[s].resume # NoRun

(* Shutdown began: the slot is left as the next one. *)
LeavesSlot(s) == /\ AtTake(s)
                 /\ mode[s] # "up"
                 /\ LaneEnds(s)
                 /\ UNCHANGED <<now, mode, durable, look, made, tally, ghosts>>

SlotIsHeld(s) == /\ AtTake(s)
                 /\ mode[s] = "up"
                 /\ ~Takeable(s, lane[s].slot)
                 /\ NextTurn(s)
                 /\ UNCHANGED <<now, mode, durable, look, busyUntil, made, tally, ghosts>>

(* Mutant of TakesSlot: the run starts on a free lock without taking it. *)
StartsOnFreeLock(s) == /\ AtTake(s)
                       /\ mode[s] = "up"
                       /\ Takeable(s, lane[s].slot)
                       /\ lane' = [lane EXCEPT ![s].pc = "beginRead"]
                       /\ UNCHANGED <<now, mode, durable, look, busyUntil, made, tally, ghosts>>

TakesSlot(s) == /\ AtTake(s)
                /\ mode[s] = "up"
                /\ Takeable(s, lane[s].slot)
                /\ Taken(s, lane[s].slot)
                /\ lane' = [lane EXCEPT ![s].pc = "beginRead"]
                /\ UNCHANGED <<now, mode, store, history, look, busyUntil, made, tally, ghosts>>

(* The run's record: a new run id, or that of the run resumed. *)
BeginReads(s) == LET l == lane[s]
                     r == IF l.resume = NoRun
                          THEN [NoRun EXCEPT !.slot = l.slot, !.nth = made[l.slot] + 1, !.attempt = 1]
                          ELSE [l.resume EXCEPT !.retryAt = Null]
                 IN
  /\ l.pc = "beginRead"
  /\ lane' = [lane EXCEPT ![s].pc = "beginSave", ![s].snap = store,
                          ![s].record = [r EXCEPT !.status = "running"]]
  /\ made' = IF l.resume = NoRun THEN [made EXCEPT ![l.slot] = @ + 1] ELSE made
  /\ UNCHANGED <<now, mode, durable, look, busyUntil, tally, ghosts>>

BeginSaves(s) == /\ LaneGoes(s, "beginSave", "beginRecord")
                 /\ store' = [Known(lane[s].snap) EXCEPT !.current = lane[s].record]
                 /\ UNCHANGED <<now, mode, lock, history, look, busyUntil, made, tally, ghosts>>

(* The run is recorded, and its work starts (executeJob). *)
BeginRecords(s) == /\ LaneGoes(s, "beginRecord", "work")
                   /\ history' = Recorded(lane[s].record)
                   /\ starts' = [starts EXCEPT ![lane[s].slot] = @ + 1]
                   /\ UNCHANGED <<now, mode, store, lock, look, busyUntil, made, tally, outcome>>

(* The work returns: with success, *)
Succeeds(s) == /\ LaneGoes(s, "work", "doneRead")
               /\ UNCHANGED <<now, mode, durable, look, busyUntil, made, tally, ghosts>>

(* with a failure or past its time limit, *)
Fails(s) == /\ mode[s] = "up"
            /\ tally.failures < MaxFailures
            /\ LaneGoes(s, "work", "failRead")
            /\ tally' = [tally EXCEPT !.failures = @ + 1]
            /\ UNCHANGED <<now, mode, durable, look, busyUntil, made, ghosts>>

(* or unfinished, because the process is stopping. *)
Interrupted(s) == /\ mode[s] # "up"
                  /\ LaneGoes(s, "work", "handRead")
                  /\ UNCHANGED <<now, mode, durable, look, busyUntil, made, tally, ghosts>>

(* A completed run: the slot is done, and never moves lastSlotDone back. *)
DoneReads(s) == /\ LaneReads(s, "doneRead", "doneSave")
                /\ UNCHANGED <<now, mode, durable, look, busyUntil, made, tally, ghosts>>

(* Mutant of DoneSaves: the run stays the current one. *)
DoneSavesKeepingRun(s) == LET l == lane[s] IN
  /\ LaneGoes(s, "doneSave", "doneRecord")
  /\ store' = [Known(l.snap) EXCEPT !.last = IF l.snap.last > l.slot THEN l.snap.last ELSE l.slot,
                                    !.next = NextSlotAfter(l.snap.next, l.slot)]
  /\ Said(l.slot, "done")
  /\ UNCHANGED <<now, mode, lock, history, look, busyUntil, made, tally, starts>>

DoneSaves(s) == LET l == lane[s] IN
  /\ LaneGoes(s, "doneSave", "doneRecord")
  /\ store' = [Known(l.snap) EXCEPT !.current = NoRun,
                                    !.last = IF l.snap.last > l.slot THEN l.snap.last ELSE l.slot,
                                    !.next = NextSlotAfter(l.snap.next, l.slot)]
  /\ Said(l.slot, "done")
  /\ UNCHANGED <<now, mode, lock, history, look, busyUntil, made, tally, starts>>

DoneRecords(s) == /\ LaneGoes(s, "doneRecord", "release")
                  /\ history' = Recorded([lane[s].record EXCEPT !.status = "completed"])
                  /\ UNCHANGED <<now, mode, store, lock, look, busyUntil, made, tally, ghosts>>

(* A failed attempt (afterFailedAttempt). *)
FailReads(s) == /\ lane[s].pc = "failRead"
                /\ lane' = [lane EXCEPT ![s].pc = "failSave", ![s].snap = store,
                                        ![s].record = FailedAt(@, now)]
                /\ UNCHANGED <<now, mode, durable, look, busyUntil, made, tally, ghosts>>

FailSaves(s) == /\ LaneGoes(s, "failSave", "failRecord")
                /\ store' = AfterFailure(lane[s].snap, lane[s].record)
                /\ SaidIfLast(lane[s].record)
                /\ UNCHANGED <<now, mode, lock, history, look, busyUntil, made, tally, starts>>

FailRecords(s) == /\ LaneGoes(s, "failRecord", "release")
                  /\ history' = Recorded(lane[s].record)
                  /\ UNCHANGED <<now, mode, store, lock, look, busyUntil, made, tally, ghosts>>

(* handOffRun: the run as the next process finds it. *)
HandReads(s) == /\ lane[s].pc = "handRead"
                /\ lane' = [lane EXCEPT ![s].pc = "handSave", ![s].snap = store,
                                        ![s].record.status = "interrupted"]
                /\ UNCHANGED <<now, mode, durable, look, busyUntil, made, tally, ghosts>>

(* Mutant of HandSaves: the run handed off is not left as the current one. *)
HandSavesNoRun(s) == /\ LaneGoes(s, "handSave", "handRecord")
                     /\ store' = [Known(lane[s].snap) EXCEPT !.current = NoRun,
                                                             !.next = NextSlot(lane[s].slot)]
                     /\ UNCHANGED <<now, mode, lock, history, look, busyUntil, made, tally, ghosts>>

HandSaves(s) == /\ LaneGoes(s, "handSave", "handRecord")
                /\ store' = [Known(lane[s].snap) EXCEPT !.current = lane[s].record]
                /\ UNCHANGED <<now, mode, lock, history, look, busyUntil, made, tally, ghosts>>

HandRecords(s) == /\ LaneGoes(s, "handRecord", "release")
                  /\ history' = Recorded(lane[s].record)
                  /\ UNCHANGED <<now, mode, store, lock, look, busyUntil, made, tally, ghosts>>

(* The lock goes last.  The drain goes on after a slot that is done or     *)
(* failed for good, and stops after one that waits for another attempt or  *)
(* was handed off.                                                         *)
GoesOn(s) == /\ lane[s].record.status # "interrupted"
             /\ lane[s].record.retryAt = Null

ReleasesSlot(s) == /\ lane[s].pc = "release"
                   /\ Released(s, lane[s].slot)
                   /\ IF GoesOn(s) THEN NextTurn(s) /\ UNCHANGED busyUntil ELSE LaneEnds(s)
                   /\ UNCHANGED <<now, mode, store, history, look, made, tally, ghosts>>

(* All slots handled: the state moves to the slot after them, if the drain has one. *)
DrainEnds(s) == /\ lane[s].pc = "turn"
                /\ lane[s].todo = {}
                /\ lane[s].after = Null
                /\ LaneEnds(s)
                /\ UNCHANGED <<now, mode, durable, look, made, tally, ghosts>>

AfterReads(s) == /\ lane[s].todo = {}
                 /\ lane[s].after # Null
                 /\ LaneReads(s, "turn", "afterSave")
                 /\ UNCHANGED <<now, mode, durable, look, busyUntil, made, tally, ghosts>>

(* Mutant of AfterSaves: on to the first slot after now, not after the look. *)
AfterSavesNow(s) == /\ lane[s].pc = "afterSave"
                    /\ store' = [Known(lane[s].snap) EXCEPT !.next = NextSlot(now)]
                    /\ LaneEnds(s)
                    /\ UNCHANGED <<now, mode, lock, history, look, made, tally, ghosts>>

AfterSaves(s) == /\ lane[s].pc = "afterSave"
                 /\ store' = [Known(lane[s].snap) EXCEPT !.next = lane[s].after]
                 /\ LaneEnds(s)
                 /\ UNCHANGED <<now, mode, lock, history, look, made, tally, ghosts>>

-----------------------------------------------------------------------------
(* The process: start, handOff at a signal, the end of its grace, its end. *)

StartsUp(s) == /\ mode[s] = "down"
               /\ mode' = [mode EXCEPT ![s] = "up"]
               /\ UNCHANGED <<now, durable, look, lane, busyUntil, made, tally, ghosts>>

Stops(s) == /\ mode[s] = "up"
            /\ tally.stops < MaxStops
            /\ mode' = [mode EXCEPT ![s] = "stopping"]
            /\ tally' = [tally EXCEPT !.stops = @ + 1]
            /\ UNCHANGED <<now, durable, look, lane, busyUntil, made, ghosts>>

(* whenIdle lost the race: a run still at work is handed off in its place.  *)
GraceEnds(s) == /\ mode[s] = "stopping"
                /\ lane[s].pc = "work" \/ (SlowStore /\ lane[s].pc # "idle")
                /\ mode' = [mode EXCEPT ![s] = "late"]
                /\ lane' = IF lane[s].pc = "work"
                           THEN [lane EXCEPT ![s].pc = "handRead", ![s].byGrace = TRUE]
                           ELSE lane
                /\ UNCHANGED <<now, durable, look, busyUntil, made, tally, ghosts>>

(* What a process leaves behind: the store, and the locks it held. *)
Dies(s) == /\ mode' = [mode EXCEPT ![s] = "down"]
           /\ look' = [look EXCEPT ![s] = NoLook]
           /\ lane' = [lane EXCEPT ![s] = NoLane]
           /\ busyUntil' = [busyUntil EXCEPT ![s] = Null]
           /\ lock' = [t \in Slots |-> IF lock[t] = s THEN DeadServer ELSE lock[t]]
           /\ UNCHANGED <<now, store, history, made, ghosts>>

(* handOff returned: it waits for the drains until the grace ends, then    *)
(* for the handoffs it started itself, and for nothing else.               *)
Leaves(s) == /\ \/ mode[s] = "stopping" /\ lane[s].pc = "idle"
                \/ mode[s] = "late" /\ ~lane[s].byGrace
             /\ Dies(s)
             /\ UNCHANGED tally

Crashes(s) == /\ mode[s] # "down"
              /\ tally.crashes < MaxCrashes
              /\ tally' = [tally EXCEPT !.crashes = @ + 1]
              /\ Dies(s)

LeaseExpires(t) == /\ lock[t] = DeadServer
                   /\ lock' = [lock EXCEPT ![t] = NoServer]
                   /\ UNCHANGED <<now, mode, store, history, look, lane, busyUntil, made, tally, ghosts>>

(* Past MaxTime the clock only runs until a waiting retry is due. *)
Tick == /\ now < MaxTime \/ store.current.retryAt > now
        /\ now' = now + 1
        /\ UNCHANGED <<mode, durable, look, lane, busyUntil, made, tally, ghosts>>

LookStep(s) == \/ LookStarts(s) \/ Adopts(s)
               \/ LeavesRunning(s) \/ ProbesLock(s) \/ ReleasesProbe(s)
               \/ CutOffReads(s) \/ CutOffSaves(s) \/ CutOffRecords(s)
               \/ ResumesInterrupted(s) \/ WaitsForRetry(s) \/ Retries(s)
               \/ NothingDue(s) \/ ChoosesSlots(s) \/ RecordsSkipped(s)
               \/ MovesOn(s) \/ Drains(s)

LaneStep(s) == \/ TurnReads(s) \/ TurnSaves(s)
               \/ LeavesSlot(s) \/ SlotIsHeld(s) \/ TakesSlot(s)
               \/ BeginReads(s) \/ BeginSaves(s) \/ BeginRecords(s)
               \/ Succeeds(s) \/ Fails(s) \/ Interrupted(s)
               \/ DoneReads(s) \/ DoneSaves(s) \/ DoneRecords(s)
               \/ FailReads(s) \/ FailSaves(s) \/ FailRecords(s)
               \/ HandReads(s) \/ HandSaves(s) \/ HandRecords(s)
               \/ ReleasesSlot(s) \/ DrainEnds(s) \/ AfterReads(s) \/ AfterSaves(s)

ProcessStep(s) == \/ StartsUp(s) \/ Stops(s) \/ GraceEnds(s) \/ Leaves(s) \/ Crashes(s)

Next == \/ \E s \in Server : LookStep(s) \/ LaneStep(s) \/ ProcessStep(s)
        \/ \E t \in Slots : LeaseExpires(t)
        \/ Tick

Spec == Init /\ [][Next]_vars

(* The event loop takes every step that is ready; a run ends, if only by   *)
(* its time limit; a supervisor starts a process that ended; a grace and a *)
(* lease end; time passes.  Nothing is asked of failures, crashes, stops.  *)
Fairness == /\ \A s \in Server : /\ WF_vars(LookStep(s))
                                 /\ WF_vars(LaneStep(s))
                                 /\ WF_vars(StartsUp(s))
                                 /\ WF_vars(GraceEnds(s))
                                 /\ WF_vars(Leaves(s))
            /\ \A t \in Slots : WF_vars(LeaseExpires(t))
            /\ WF_vars(Tick)

FairSpec == Spec /\ Fairness

-----------------------------------------------------------------------------
Run == [slot : Slots, nth : Nat, attempt : Nat, retryAt : Nat,
        status : {"running", "completed", "failed", "interrupted", "skipped"}]

Slot0 == Slots \cup {Null}
Run0  == Run \cup {NoRun}

State == [known : BOOLEAN, last : Slot0, next : Slot0, current : Run0]

Look == [pc : {"idle", "seen", "probed", "cutOffRead", "cutOffSave", "cutOffRecord", "due", "chosen"},
         at : Nat, snap : State, fresh : State, skip : SUBSET Slots, run : SUBSET Slots]

(* The lane holds its slot's lock from takeLock to releaseLock. *)
HoldingPc == {"beginRead", "beginSave", "beginRecord", "work", "doneRead", "doneSave", "doneRecord",
              "failRead", "failSave", "failRecord", "handRead", "handSave", "handRecord", "release"}

Lane == [pc : HoldingPc \cup {"idle", "turn", "turnSave", "take", "afterSave"},
         todo : SUBSET Slots, slot : Slot0, resume : Run0, after : Slot0,
         record : Run0, snap : State, byGrace : BOOLEAN]

SharedTypeOK == /\ now \in Nat
                /\ mode \in [Server -> {"down", "up", "stopping", "late"}]
                /\ store \in State
                /\ lock \in [Slots -> Server \cup {NoServer, DeadServer}]
                /\ history \subseteq Run
                /\ busyUntil \in [Server -> Nat]
                /\ made \in [Slots -> Nat]
                /\ tally \in [failures : Nat, crashes : Nat, stops : Nat]
                /\ starts \in [Slots -> Nat]
                /\ outcome \in [Slots -> {"open", "before", "done", "failed", "skipped"}]

TypeOK == /\ SharedTypeOK
          /\ look \in [Server -> Look]
          /\ lane \in [Server -> Lane]

InHand(s) == lane[s].pc \in HoldingPc

(* Two servers never have the same slot in hand, from takeLock to          *)
(* releaseLock, whatever they read, write, probe or leave behind.          *)
SlotLockExcludes == \A s, p \in Server :
  InHand(s) /\ InHand(p) /\ lane[s].slot = lane[p].slot => s = p

(* Why: who has a slot in hand is named by its lock, and so is who probes  *)
(* one; a look and a drain of one process never overlap, so that a probe   *)
(* never gives up the lock of a run of its own process.                    *)
LockBacked == \A s \in Server :
  /\ InHand(s) => lock[lane[s].slot] = s
  /\ look[s].pc = "probed" => lock[Unfinished(s).slot] = s
  /\ lane[s].pc # "idle" => look[s].pc = "idle"

(* A slot the state has moved past has a record: it was run or skipped,    *)
(* never dropped, whatever was cut off in between.                         *)
NoSlotDropped == store.known => \A t \in Slots :
  \/ outcome[t] = "before"
  \/ store.next # Null /\ store.next <= t
  \/ \E h \in history : h.slot = t

(* A slot chosen and not yet handled stays at or after nextSlot: the drain *)
(* can be cut off anywhere and the next start finds the slot due.          *)
TodoStillDue == \A s \in Server : \A t \in lane[s].todo :
  outcome[t] \in {"done", "failed"} \/ (store.next # Null /\ store.next <= t)

(* However its runs are cut off and by whom, a slot gets maxAttempts       *)
(* starts, and one more for each handoff, which is not an attempt.         *)
AttemptsBounded == \A t \in Slots : starts[t] <= MaxAttempts + tally.stops

(* A slot that is done or failed for good is not run again. *)
FinalIsFinal == [][\A t \in Slots : outcome[t] \in {"done", "failed"} => starts'[t] = starts[t]]_vars

(* The state never goes back to a slot it moved past. *)
NextNeverGoesBack == [][store.known => \/ store'.next = Null
                                       \/ store.next # Null /\ store.next <= store'.next]_vars

(* Every slot that comes due is done, failed for good or skipped in the    *)
(* end, through failures, crashes and handoffs.                            *)
EverySlotSettles == \A t \in Slots : now >= t ~> outcome[t] # "open"

(* The run the state names as current ends with its slot done or failed    *)
(* for good, however often it is cut off and resumed before that.          *)
BegunRunsSettle == \A t \in Slots : store.current.slot = t ~> outcome[t] # "open"
=============================================================================
