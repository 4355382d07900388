------------------------------ MODULE HandRuns ------------------------------
(***************************************************************************)
(* The runs of one job, with or without a schedule, that somebody started  *)
(* by hand (src/src/managers/BackgroundJobManager.ts): enqueue, the run    *)
(* with its record and its lock, the handoff at shutdown, and what the     *)
(* looks of the next process make of a run that was cut off                *)
(* (recoverHandRuns).                                                      *)
(*                                                                         *)
(* A step is one segment of the code, from one await to the call it next   *)
(* awaits.  Every start has an instant of its own, its startedAt, which    *)
(* also names its lock; the locks are the leases of SlotLease.             *)
(***************************************************************************)
EXTENDS Integers, FiniteSets

CONSTANTS
  Server,       \* the processes; a restart of one is a new owner
  NoServer,     \* the owner of a free lock
  DeadServer,   \* the owner of a lock whose process is gone
  Run,          \* the run ids, randomUUID
  NoRun,        \* no run is active
  Scheduled,    \* whether the job has a schedule, or can only be asked for
  Resumable,    \* whether the job says a cut-off run may be run again
  MaxAttempts,  \* the job's maxAttempts
  MaxStarts,    \* bound: how often a run is started or restarted
  MaxCrashes,   \* bound: how often a process dies without a handoff
  MaxStops,     \* bound: how often a process is told to stop
  MayAskInLook  \* bound: whether a run may be asked for while a look recovers

ASSUME OwnersAssumption == {NoServer, DeadServer} \cap Server = {} /\ NoServer # DeadServer
ASSUME RunAssumption == NoRun \notin Run /\ {Resumable, Scheduled} \subseteq BOOLEAN
ASSUME AttemptsAssumption == MaxAttempts \in Nat \ {0}
ASSUME BoundsAssumption == {MaxStarts, MaxCrashes, MaxStops} \subseteq Nat /\ MayAskInLook \in BOOLEAN

VARIABLES
  mode,       \* mode[s]: down, up, stopping (handOff), late (its grace is over)
  record,     \* record[r]: the JobRunRecord the provider keeps
  lock,       \* lock[k]: who holds the lock of the start at k
  clock,      \* the instant of the last start
  hand,       \* hand[k]: the runByHand that started at k
  active,     \* active[s]: activeByJobId of the job, by its start; 0, none
  draining,   \* draining[s]: the draining flag of the scheduled job; FALSE without a schedule
  handoff,    \* handoff[s][r]: the start whose handoff is in handoffs under r; 0, none
  seek,       \* seek[s]: recoverHandRunsOf in s
  recovered,  \* recovered[s]: whether this process is through with that
  tally,      \* what the bounds count, and the run ids that were made
  begun,      \* history variable: how often the work of r was started
  crowded     \* history variable: whether a run was started beside another, see Crowds

vars == <<mode, record, lock, clock, hand, active, draining, handoff, seek, recovered,
          tally, begun, crowded>>

Instant == 1 .. MaxStarts

NoRecord == [status |-> "none", attempt |-> 0, at |-> 0]
NoHand   == [pc |-> "idle", server |-> NoServer, run |-> NoRun, attempt |-> 0,
             status |-> "none", byGrace |-> FALSE]

(* A record as listRuns gave it, with its run id. *)
Listed(r) == [run |-> r, status |-> record[r].status, attempt |-> record[r].attempt, at |-> record[r].at]
NoListed  == [run |-> NoRun, status |-> "none", attempt |-> 0, at |-> 0]

NoSeek == [pc |-> "idle", probe |-> {}, probed |-> 0, older |-> {}, latest |-> NoListed]

Init == /\ mode = [s \in Server |-> "down"]
        /\ record = [r \in Run |-> NoRecord]
        /\ lock = [k \in Instant |-> NoServer]
        /\ clock = 0
        /\ hand = [k \in Instant |-> NoHand]
        /\ active = [s \in Server |-> 0]
        /\ draining = [s \in Server |-> FALSE]
        /\ handoff = [s \in Server |-> [r \in Run |-> 0]]
        /\ seek = [s \in Server |-> NoSeek]
        /\ recovered = [s \in Server |-> FALSE]
        /\ tally = [crashes |-> 0, stops |-> 0, asked |-> {}]
        /\ begun = [r \in Run |-> 0]
        /\ crowded = FALSE

InHand(s) == {k \in Instant : hand[k].pc # "idle" /\ hand[k].server = s}

-----------------------------------------------------------------------------
(* startHandRun: the run is in hand at once, its work in the background.   *)
(* Only the entry of a schedule has the flag.                              *)
Starts(s, r, attempt) ==
  /\ clock < MaxStarts
  /\ clock' = clock + 1
  /\ hand' = [hand EXCEPT ![clock + 1] = [NoHand EXCEPT !.pc = "take", !.server = s,
                                                        !.run = r, !.attempt = attempt]]
  /\ active' = [active EXCEPT ![s] = clock + 1]
  /\ draining' = [draining EXCEPT ![s] = Scheduled]

(* A run started while another of the job is in hand, or asked for while a *)
(* look is after the runs that were cut off.                               *)
Crowds(beside) == crowded' = (crowded \/ beside)

(* The run that is active is pending or running. *)
Busy(s) == active[s] # 0 /\ hand[active[s]].pc # "told"

(* enqueue; a job that is busy gives its run's id back instead, and nothing *)
(* changes.                                                                 *)
Enqueues(s, r) == /\ mode[s] # "down"
                  /\ ~Busy(s)
                  /\ ~MayAskInLook => seek[s].pc = "idle"
                  /\ r \notin tally.asked
                  /\ tally' = [tally EXCEPT !.asked = @ \cup {r}]
                  /\ Starts(s, r, 1)
                  /\ Crowds(InHand(s) # {} \/ seek[s].pc # "idle")
                  /\ UNCHANGED <<mode, record, lock, handoff, seek, recovered, begun>>

-----------------------------------------------------------------------------
(* runByHand *)

Goes(k, from, to) == /\ hand[k].pc = from
                     /\ hand' = [hand EXCEPT ![k].pc = to]

(* takeLock of an instant nobody else started at. *)
TakesLock(k) == /\ Goes(k, "take", "record")
                /\ lock' = [lock EXCEPT ![k] = hand[k].server]
                /\ UNCHANGED <<mode, record, clock, active, draining, handoff, seek, recovered,
                               tally, begun, crowded>>

RecordOf(k, status) == [status |-> status, attempt |-> hand[k].attempt, at |-> k]

(* The record is written before the work starts; with the write its        *)
(* handoff is in place, under the run's id.                                *)
RecordsStart(k) ==
  /\ Goes(k, "record", "setup")
  /\ record' = [record EXCEPT ![hand[k].run] = RecordOf(k, "running")]
  /\ handoff' = IF Resumable THEN [handoff EXCEPT ![hand[k].server][hand[k].run] = k] ELSE handoff
  /\ UNCHANGED <<mode, lock, clock, active, draining, seek, recovered, tally, begun, crowded>>

BeginsWork(k) == /\ Goes(k, "setup", "work")
                 /\ begun' = [begun EXCEPT ![hand[k].run] = @ + 1]
                 /\ UNCHANGED <<mode, record, lock, clock, active, draining, handoff, seek,
                                recovered, tally, crowded>>

(* The job's function returned or threw: the run's status says so, and the *)
(* audit trail and the administrators are told.                            *)
EndsWork(k, status) ==
  /\ hand[k].pc = "work"
  /\ hand' = [hand EXCEPT ![k].pc = "told", ![k].status = status]
  /\ UNCHANGED <<mode, record, lock, clock, active, draining, handoff, seek, recovered,
                 tally, begun, crowded>>

(* A shutdown marks the runs that have a handoff: what of them was not     *)
(* completed is handed off when it ends, and all else is settled.          *)
Outcome(k) == IF /\ mode[hand[k].server] # "up"
                 /\ handoff[hand[k].server][hand[k].run] # 0
                 /\ hand[k].status = "failed"
              THEN "interrupted"
              ELSE hand[k].status

(* The end of executeJob and of the try in runByHand: the job is no longer *)
(* active and the run has no handoff, whichever start they were of.        *)
LeavesWork(k) ==
  /\ hand[k].pc = "told"
  /\ hand' = [hand EXCEPT ![k].pc = "end", ![k].status = Outcome(k)]
  /\ active' = [active EXCEPT ![hand[k].server] = 0]
  /\ handoff' = [handoff EXCEPT ![hand[k].server][hand[k].run] = 0]
  /\ UNCHANGED <<mode, record, lock, clock, draining, seek, recovered, tally, begun, crowded>>

RecordsEnd(k) == /\ Goes(k, "end", "release")
                 /\ record' = [record EXCEPT ![hand[k].run] = RecordOf(k, hand[k].status)]
                 /\ UNCHANGED <<mode, lock, clock, active, draining, handoff, seek, recovered,
                                tally, begun, crowded>>

GivenUp(k, s) == lock' = [lock EXCEPT ![k] = IF @ = s THEN NoServer ELSE @]

(* releaseLock comes last, and the flag of the job falls. *)
ReleasesLock(k) == /\ hand[k].pc = "release"
                   /\ hand' = [hand EXCEPT ![k] = NoHand]
                   /\ GivenUp(k, hand[k].server)
                   /\ draining' = [draining EXCEPT ![hand[k].server] = FALSE]
                   /\ UNCHANGED <<mode, record, clock, active, handoff, seek, recovered,
                                  tally, begun, crowded>>

(* The grace ended before the work did: it is handed off all the same. *)
HandsOff(k) == /\ hand[k].pc \in {"setup", "work", "told"}
               /\ mode[hand[k].server] = "late"
               /\ handoff[hand[k].server][hand[k].run] = k
               /\ hand' = [hand EXCEPT ![k].pc = "end", ![k].status = "interrupted", ![k].byGrace = TRUE]
               /\ UNCHANGED <<mode, record, lock, clock, active, draining, handoff, seek,
                              recovered, tally, begun, crowded>>

-----------------------------------------------------------------------------
(* recoverHandRuns: one look at a time, until one gets through. *)

Unfinished == {Listed(r) : r \in {q \in Run : record[q].status \in {"running", "interrupted"}}}

Newest(list) == CHOOSE l \in list : \A m \in list : m.at <= l.at

RunningIn(list) == {l \in list : l.status = "running"}

AfterProbe(probe) == IF probe = {} THEN "report" ELSE "probe"

(* Mutant of Seeks: a job whose run is being recorded is taken for idle. *)
SeeksWhileDraining(s) == /\ mode[s] = "up"
                         /\ seek[s].pc = "idle"
                         /\ ~recovered[s]
                         /\ active[s] = 0
                         /\ seek' = [seek EXCEPT ![s].pc = "list"]
                         /\ UNCHANGED <<mode, record, lock, clock, hand, active, draining, handoff,
                                        recovered, tally, begun, crowded>>

(* A look at an idle job that this process is not through with. *)
Seeks(s) == /\ mode[s] = "up"
            /\ seek[s].pc = "idle"
            /\ ~recovered[s]
            /\ active[s] = 0 /\ ~draining[s]
            /\ seek' = [seek EXCEPT ![s].pc = "list"]
            /\ UNCHANGED <<mode, record, lock, clock, hand, active, draining, handoff,
                           recovered, tally, begun, crowded>>

(* The list is read.  Nothing is unfinished: this process is through. *)
ListsNothing(s) == /\ seek[s].pc = "list"
                   /\ Unfinished = {}
                   /\ seek' = [seek EXCEPT ![s] = NoSeek]
                   /\ recovered' = [recovered EXCEPT ![s] = TRUE]
                   /\ UNCHANGED <<mode, record, lock, clock, hand, active, draining, handoff,
                                  tally, begun, crowded>>

Lists(s) == /\ seek[s].pc = "list"
            /\ Unfinished # {}
            /\ LET newest == Newest(Unfinished)
               IN  seek' = [seek EXCEPT ![s] =
                     [pc |-> AfterProbe(RunningIn(Unfinished)), probe |-> RunningIn(Unfinished),
                      probed |-> 0, older |-> Unfinished \ {newest}, latest |-> newest]]
            /\ UNCHANGED <<mode, record, lock, clock, hand, active, draining, handoff,
                           recovered, tally, begun, crowded>>

Takeable(s, k) == lock[k] \in {NoServer, s}

(* A run that says it is running: its lock is taken, if only to see that   *)
(* nobody has it, and given up again.                                      *)
Probes(s) == /\ seek[s].pc = "probe"
             /\ LET l == Newest(seek[s].probe)
                IN  /\ Takeable(s, l.at)
                    /\ lock' = [lock EXCEPT ![l.at] = s]
                    /\ seek' = [seek EXCEPT ![s].pc = "probed", ![s].probe = @ \ {l}, ![s].probed = l.at]
             /\ UNCHANGED <<mode, record, clock, hand, active, draining, handoff,
                    recovered, tally, begun, crowded>>

(* A live server has it: another look tries again. *)
FindsItHeld(s) == /\ seek[s].pc = "probe"
                  /\ ~Takeable(s, Newest(seek[s].probe).at)
                  /\ seek' = [seek EXCEPT ![s] = NoSeek]
                  /\ UNCHANGED <<mode, record, lock, clock, hand, active, draining, handoff,
                    recovered, tally, begun, crowded>>

Unprobes(s) == /\ seek[s].pc = "probed"
               /\ GivenUp(seek[s].probed, s)
               /\ seek' = [seek EXCEPT ![s].pc = AfterProbe(seek[s].probe), ![s].probed = 0]
               /\ UNCHANGED <<mode, record, clock, hand, active, draining, handoff,
                    recovered, tally, begun, crowded>>

(* reportCutOff: the record that was listed, failed. *)
Reported(l) == record' = [record EXCEPT ![l.run] = [status |-> "failed", attempt |-> l.attempt, at |-> l.at]]

(* Mutant of ReportsOlder: the older ones are left as they are. *)
ForgetsOlder(s) == /\ seek[s].pc = "report"
                   /\ seek[s].older # {}
                   /\ seek' = [seek EXCEPT ![s].older = {}]
                   /\ UNCHANGED <<mode, record, lock, clock, hand, active, draining, handoff,
                    recovered, tally, begun, crowded>>

ReportsOlder(s) == /\ seek[s].pc = "report"
                   /\ seek[s].older # {}
                   /\ LET l == Newest(seek[s].older)
                      IN  Reported(l) /\ seek' = [seek EXCEPT ![s].older = @ \ {l}]
                   /\ UNCHANGED <<mode, lock, clock, hand, active, draining, handoff,
                    recovered, tally, begun, crowded>>

(* Mutant of NextAttempt: a crash is no attempt either. *)
NextAttemptUncounted(l) == l.attempt

(* A handoff is not an attempt; a crash is. *)
NextAttempt(l) == IF l.status = "interrupted" THEN l.attempt ELSE l.attempt + 1

(* recoverOne: reported, because the job, its attempts or the permission   *)
(* of who asked do not let it be restarted ...                             *)
ReportsLatest(s) == /\ seek[s].pc = "report"
                    /\ seek[s].older = {}
                    /\ Reported(seek[s].latest)
                    /\ seek' = [seek EXCEPT ![s] = NoSeek]
                    /\ recovered' = [recovered EXCEPT ![s] = TRUE]
                    /\ UNCHANGED <<mode, lock, clock, hand, active, draining, handoff, tally, begun, crowded>>

(* Mutant of Announces: the attempts are not counted against the limit. *)
AnnouncesRegardless(s) == /\ seek[s].pc = "report"
                          /\ seek[s].older = {}
                          /\ Resumable
                          /\ seek' = [seek EXCEPT ![s].pc = "restart"]
                          /\ UNCHANGED <<mode, record, lock, clock, hand, active, draining, handoff,
                                         recovered, tally, begun, crowded>>

(* ... or announced, and started again with what the list said.            *)
Announces(s) == /\ seek[s].pc = "report"
                /\ seek[s].older = {}
                /\ Resumable
                /\ NextAttempt(seek[s].latest) <= MaxAttempts
                /\ seek' = [seek EXCEPT ![s].pc = "restart"]
                /\ UNCHANGED <<mode, record, lock, clock, hand, active, draining, handoff,
                    recovered, tally, begun, crowded>>

Restarts(s) == /\ seek[s].pc = "restart"
               /\ Starts(s, seek[s].latest.run, NextAttempt(seek[s].latest))
               /\ seek' = [seek EXCEPT ![s] = NoSeek]
               /\ recovered' = [recovered EXCEPT ![s] = TRUE]
               /\ Crowds(InHand(s) # {})
               /\ UNCHANGED <<mode, record, lock, handoff, tally, begun>>

-----------------------------------------------------------------------------
(* The processes *)

StartsUp(s) == /\ mode[s] = "down"
               /\ mode' = [mode EXCEPT ![s] = "up"]
               /\ UNCHANGED <<record, lock, clock, hand, active, draining, handoff, seek, recovered,
                            tally, begun, crowded>>

Stops(s) == /\ mode[s] = "up"
            /\ tally.stops < MaxStops
            /\ mode' = [mode EXCEPT ![s] = "stopping"]
            /\ tally' = [tally EXCEPT !.stops = @ + 1]
            /\ UNCHANGED <<record, lock, clock, hand, active, draining, handoff, seek, recovered,
                            begun, crowded>>

GraceEnds(s) == /\ mode[s] = "stopping"
                /\ InHand(s) # {}
                /\ mode' = [mode EXCEPT ![s] = "late"]
                /\ UNCHANGED <<record, lock, clock, hand, active, draining, handoff, seek, recovered,
                            tally, begun, crowded>>

Dies(s) == /\ mode' = [mode EXCEPT ![s] = "down"]
           /\ hand' = [k \in Instant |-> IF hand[k].server = s THEN NoHand ELSE hand[k]]
           /\ active' = [active EXCEPT ![s] = 0]
           /\ draining' = [draining EXCEPT ![s] = FALSE]
           /\ handoff' = [handoff EXCEPT ![s] = [r \in Run |-> 0]]
           /\ seek' = [seek EXCEPT ![s] = NoSeek]
           /\ recovered' = [recovered EXCEPT ![s] = FALSE]
           /\ lock' = [k \in Instant |-> IF lock[k] = s THEN DeadServer ELSE lock[k]]
           /\ UNCHANGED <<record, clock, begun, crowded>>

(* handOff waits for the runs until the grace ends, then for the handoffs  *)
(* it starts itself, and for nothing else.                                 *)
Awaited(k) == \/ /\ hand[k].pc \in {"setup", "work", "told"}
                 /\ handoff[hand[k].server][hand[k].run] = k
              \/ hand[k].byGrace

Leaves(s) == /\ \/ mode[s] = "stopping" /\ InHand(s) = {}
                \/ mode[s] = "late" /\ \A k \in InHand(s) : ~Awaited(k)
             /\ Dies(s)
             /\ UNCHANGED tally

Crashes(s) == /\ mode[s] # "down"
              /\ tally.crashes < MaxCrashes
              /\ tally' = [tally EXCEPT !.crashes = @ + 1]
              /\ Dies(s)

LeaseExpires(k) == /\ lock[k] = DeadServer
                   /\ lock' = [lock EXCEPT ![k] = NoServer]
                   /\ UNCHANGED <<mode, record, clock, hand, active, draining, handoff, seek, recovered,
                            tally, begun, crowded>>

HandStep(k) == \/ TakesLock(k) \/ RecordsStart(k) \/ BeginsWork(k)
               \/ \E status \in {"completed", "failed"} : EndsWork(k, status)
               \/ LeavesWork(k) \/ HandsOff(k) \/ RecordsEnd(k) \/ ReleasesLock(k)

SeekStep(s) == \/ Seeks(s) \/ ListsNothing(s) \/ Lists(s) \/ Probes(s) \/ FindsItHeld(s)
               \/ Unprobes(s) \/ ReportsOlder(s) \/ ReportsLatest(s) \/ Announces(s) \/ Restarts(s)

ProcessStep(s) == StartsUp(s) \/ Stops(s) \/ GraceEnds(s) \/ Leaves(s) \/ Crashes(s)

Next == \/ \E s \in Server : \/ SeekStep(s) \/ ProcessStep(s)
                             \/ \E r \in Run : Enqueues(s, r)
        \/ \E k \in Instant : HandStep(k) \/ LeaseExpires(k)

Spec == Init /\ [][Next]_vars

(* The event loop takes every step that is ready, the interval looks again *)
(* and again, a run ends, if only by its time limit, a supervisor starts a *)
(* process that ended, a grace and a lease end.  Nothing is asked of those *)
(* who ask for runs, of crashes and of stops.                              *)
Fairness == /\ \A s \in Server : /\ WF_vars(SeekStep(s))
                                 /\ WF_vars(StartsUp(s))
                                 /\ WF_vars(GraceEnds(s))
                                 /\ WF_vars(Leaves(s))
            /\ \A k \in Instant : WF_vars(HandStep(k)) /\ WF_vars(LeaseExpires(k))

FairSpec == Spec /\ Fairness

-----------------------------------------------------------------------------
Statuses == {"none", "running", "interrupted", "completed", "failed"}

Record == [status : Statuses, attempt : 0 .. MaxAttempts, at : 0 .. MaxStarts]

Hand == [pc : {"idle", "take", "record", "setup", "work", "told", "end", "release"},
         server : Server \cup {NoServer}, run : Run \cup {NoRun}, attempt : 0 .. MaxAttempts,
         status : Statuses, byGrace : BOOLEAN]

ListedRecord == [run : Run \cup {NoRun}, status : Statuses, attempt : 0 .. MaxAttempts, at : 0 .. MaxStarts]

Seeker == [pc : {"idle", "list", "probe", "probed", "report", "restart"},
           probe : SUBSET ListedRecord, probed : 0 .. MaxStarts,
           older : SUBSET ListedRecord, latest : ListedRecord]

HandTypeOK == /\ mode \in [Server -> {"down", "up", "stopping", "late"}]
              /\ record \in [Run -> Record]
              /\ lock \in [Instant -> Server \cup {NoServer, DeadServer}]
              /\ clock \in 0 .. MaxStarts
              /\ hand \in [Instant -> Hand]
              /\ active \in [Server -> 0 .. MaxStarts]
              /\ draining \in [Server -> BOOLEAN]
              /\ handoff \in [Server -> [Run -> 0 .. MaxStarts]]
              /\ seek \in [Server -> Seeker]
              /\ recovered \in [Server -> BOOLEAN]
              /\ tally \in [crashes : Nat, stops : Nat, asked : SUBSET Run]
              /\ begun \in [Run -> Nat]
              /\ crowded \in BOOLEAN

(* "Only one instance of a given jobId runs at a time." *)
OneInstanceAtATime == \A s \in Server :
  Cardinality({k \in InHand(s) : hand[k].pc = "work"}) <= 1

(* Where a run is known to a look as one that is in hand. *)
Attended == {"record", "setup", "work", "told"} \cup (IF Scheduled THEN {"end", "release"} ELSE {})

(* A run that is in hand is held by its lock from before its record says   *)
(* it is running until its work ends and, when its job has a schedule,     *)
(* until after the record says how it ended, so that a look can tell it    *)
(* from one that was cut off, as long as no run crowded another.           *)
LiveRunsAreHeld == crowded \/ \A k \in Instant :
  hand[k].pc \in Attended => lock[k] = hand[k].server

(* A run that was recorded as completed is never begun again, and nothing  *)
(* but completed is ever said of it, as long as no run crowded another.    *)
CompletedIsFinal == [][\A r \in Run : record[r].status = "completed" =>
                         crowded' \/ (record'[r] = record[r] /\ begun'[r] = begun[r])]_vars

(* A run is begun maxAttempts times at most, and once more for every       *)
(* handoff, which is not an attempt, however often it is cut off, as long  *)
(* as no run crowded another.                                              *)
BeginningsBounded == crowded \/ \A r \in Run : begun[r] <= MaxAttempts + tally.stops

(* "A restart that cuts one off is never silent": a run that has a record  *)
(* comes to be completed or failed there, restarted or reported by the     *)
(* next process when it was cut off or handed off.                         *)
NeverSilent == \A r \in Run :
  record[r].status \in {"running", "interrupted"} ~> record[r].status \in {"completed", "failed"}
=============================================================================
