------------------------------ MODULE AuditLog ------------------------------
(***************************************************************************)
(* The audit log kept in files: recordAuditEvent                           *)
(* (src/src/utils/auditEvents.ts), the chain stamped on every record       *)
(* (src/src/providers/BaseAuditProvider.ts) and the queue, the flushes and *)
(* the files of src/src/providers/FileAuditProvider.ts.                    *)
(*                                                                         *)
(* A step is one segment of the code between two awaits.  A hash names the *)
(* record it was made of, so that a record is linked by the event before   *)
(* it.  All the files are one sequence, the live log its end: a rotation   *)
(* only moves where a file begins.  A write cut off in the middle leaves a *)
(* line without its end, and the next write goes on in that line.          *)
(***************************************************************************)
EXTENDS Integers, Sequences, SequencesExt, FiniteSetsExt

CONSTANTS
  Event,        \* the events the code records, each once
  Critical,     \* the ones whose action is refused when they cannot be recorded
  Genesis,      \* what the first record of a chain is linked to
  Timer, Close, \* who else asks for a flush: the interval, and close
  MaxQueue,     \* maxQueueSize
  FileSize,     \* records after which the live log is rotated (maxFileSize)
  MaxFiles,     \* archives kept
  MaxFaults     \* bound: how often a write fails or the process is killed

ASSUME EventAssumption == /\ Critical \subseteq Event
                          /\ {Genesis, Timer, Close} \cap Event = {}
                          /\ Timer # Close
ASSUME SizeAssumption == MaxQueue \in Nat \ {0} /\ FileSize \in Nat \ {0} /\ MaxFiles \in Nat \ {0}
ASSUME BoundsAssumption == MaxFaults \in Nat

VARIABLES
  mode,      \* down, up, closing
  chain,     \* chainSeq, chainPrevHash and chainResumed
  call,      \* call[e]: how far the call that records e is
  queue,     \* auditQueue
  turns,     \* flushChain: the flushes asked for and not settled, oldest first
  stage,     \* where the first of them is: idle, write, publish, rotate
  batch,     \* eventsToFlush
  log,       \* every line ever written to the files
  archives,  \* where in log each archive begins, oldest first
  torn,      \* whether the live file ends in a line that was cut off
  live,      \* where in log the live file begins
  head,      \* the newest published head (the witness), seq 0 when none
  faults,    \* what the bound counts
  synced,    \* history variable: critical events whose line was forced to the device
  owed       \* history variable: events still waiting when close was called

memory  == <<chain, queue, turns, stage, batch>>
files   == <<log, torn, archives, live>>
vars    == <<mode, memory, call, files, head, faults, synced, owed>>

-----------------------------------------------------------------------------
(* What loadChainHead makes of files without a record. *)
NoRecord == [event |-> Genesis, seq |-> 0, prev |-> Genesis]

(* A line of the files: its record, and whether it can be read. *)
Whole(r) == [rec |-> r, whole |-> TRUE]
Glued(r) == [rec |-> r, whole |-> FALSE]   \* written on in a torn line

(* Mutant of NewChain: the numbers start below zero. *)
NewChainBelow == [seq |-> -1, prev |-> Genesis, resumed |-> "no"]

NewChain == [seq |-> 0, prev |-> Genesis, resumed |-> "no"]

Init == /\ mode = "down"
        /\ chain = NewChain
        /\ call = [e \in Event |-> "new"]
        /\ queue = <<>>
        /\ turns = <<>>
        /\ stage = "idle"
        /\ batch = <<>>
        /\ log = <<>>
        /\ torn = FALSE
        /\ archives = <<>>
        /\ live = 1
        /\ head = [seq |-> 0, event |-> Genesis]
        /\ faults = 0
        /\ synced = {}
        /\ owed = {}

-----------------------------------------------------------------------------
(* The files *)

EventsOf(recs) == {recs[i].event : i \in DOMAIN recs}

LinesFrom(lines, i) == {lines[j].rec.event : j \in {k \in DOMAIN lines : k >= i}}

Written == LinesFrom(log, 1)

(* recs are appended: the first of them goes on in the line that was cut off. *)
Landing(recs) == log' = log \o [i \in DOMAIN recs |-> IF i = 1 /\ torn THEN Glued(recs[i]) ELSE Whole(recs[i])]

(* The part of a write that reached the files when it failed or was cut    *)
(* off: whole lines, and maybe a piece of the next.                        *)
Part == {p \in [n : 0 .. Len(batch), piece : BOOLEAN] : p.piece => p.n < Len(batch)}

Landed(p) == /\ Landing(SubSeq(batch, 1, p.n))
             /\ torn' = (p.piece \/ (p.n = 0 /\ torn))

(* loadChainHead: the last line that can be read of the newest file that   *)
(* is not empty; nothing when none of its lines can.                       *)
NewestFile == IF Len(log) >= live \/ torn \/ archives = <<>> THEN live .. Len(log)
                                                             ELSE Last(archives) .. Len(log)

LastReadable == LET readable == {i \in NewestFile : log[i].whole}
                IN  IF readable = {} THEN NoRecord ELSE log[Max(readable)].rec

-----------------------------------------------------------------------------
(* logAuditEvent: stamp the record, move the head, put it in the queue and *)
(* ask for a flush when it is critical or the queue is full (writeEvent).  *)

Turn(by, sync) == [by |-> by, sync |-> sync]

Stamps(e, seq, prev) ==
  LET rec == [event |-> e, seq |-> seq + 1, prev |-> prev]
  IN  /\ chain' = [seq |-> seq + 1, prev |-> e, resumed |-> "yes"]
      /\ queue' = Append(queue, rec)
      /\ IF e \in Critical \/ Len(queue) + 1 >= MaxQueue
         THEN /\ turns' = Append(turns, Turn(e, e \in Critical))
              /\ call' = [call EXCEPT ![e] = "writing"]
         ELSE /\ call' = [call EXCEPT ![e] = "recorded"]
              /\ UNCHANGED turns

(* The first record of a process: the head is read from the files first.   *)
(* It is the boot's own record of the start (recordStart), which is        *)
(* awaited before anything else can record.                                *)
FirstRecord(e) == /\ mode = "up"
                  /\ call[e] = "new"
                  /\ chain.resumed = "no"
                  /\ chain' = [chain EXCEPT !.resumed = "reading"]
                  /\ call' = [call EXCEPT ![e] = "resuming"]
                  /\ UNCHANGED <<mode, queue, turns, stage, batch, files, head, faults, synced, owed>>

Resumes(e) == /\ call[e] = "resuming"
              /\ LET last == LastReadable IN Stamps(e, last.seq, last.event)
              /\ UNCHANGED <<mode, stage, batch, files, head, faults, synced, owed>>

Records(e) == /\ mode \in {"up", "closing"}
              /\ call[e] = "new"
              /\ chain.resumed = "yes"
              /\ Stamps(e, chain.seq, chain.prev)
              /\ UNCHANGED <<mode, stage, batch, files, head, faults, synced, owed>>

-----------------------------------------------------------------------------
(* flush: the flushes run one after the other (flushChain). *)

(* Mutant of TimerFlushes: the interval is not set up before the stop. *)
TimerFlushesAtTheEnd == /\ mode = "closing"
                        /\ queue # <<>> \/ turns # <<>>
                        /\ \A i \in DOMAIN turns : turns[i].by # Timer
                        /\ turns' = Append(turns, Turn(Timer, FALSE))
                        /\ UNCHANGED <<mode, chain, call, queue, stage, batch, files, head, faults, synced, owed>>

(* The interval, when it finds something to do or to wait for; bound: one  *)
(* such flush waits at a time.                                             *)
TimerFlushes == /\ mode \in {"up", "closing"}
                /\ queue # <<>> \/ turns # <<>>
                /\ \A i \in DOMAIN turns : turns[i].by # Timer
                /\ turns' = Append(turns, Turn(Timer, FALSE))
                /\ UNCHANGED <<mode, chain, call, queue, stage, batch, files, head, faults, synced, owed>>

(* What a process that ends leaves of itself. *)
Forgets == /\ mode' = "down"
           /\ chain' = NewChain
           /\ queue' = <<>>
           /\ turns' = <<>>
           /\ stage' = "idle"
           /\ batch' = <<>>
           /\ owed' = {}
           /\ call' = [e \in Event |-> IF call[e] \in {"resuming", "writing", "flushing"} THEN "cut" ELSE call[e]]

(* Mutant of Settles: the caller of a flush that failed is not told. *)
SettlesUntold(ok) ==
  LET by   == Head(turns).by
      more == by \in Critical /\ ok /\ call[by] = "writing"
      said == IF ok THEN "recorded" ELSE IF by \in Critical THEN "refused" ELSE "dropped"
  IN  /\ stage' = "idle"
      /\ \/ /\ more
            /\ call' = [call EXCEPT ![by] = "flushing"]
            /\ turns' = Append(Tail(turns), Turn(by, FALSE))
         \/ /\ by \in Event /\ ~more
            /\ \/ ok /\ call' = [call EXCEPT ![by] = said]
               \/ ~ok /\ UNCHANGED call
            /\ turns' = Tail(turns)
         \/ /\ by = Timer
            /\ turns' = Tail(turns)
            /\ UNCHANGED call

(* The first flush is settled, and whoever awaits it goes on: a critical   *)
(* call asks for a second flush (flushAuditQueue), the others are through. *)
Settles(ok) ==
  LET by   == Head(turns).by
      more == by \in Critical /\ ok /\ call[by] = "writing"
      said == IF ok THEN "recorded" ELSE IF by \in Critical THEN "refused" ELSE "dropped"
  IN  /\ stage' = "idle"
      /\ \/ /\ more
            /\ call' = [call EXCEPT ![by] = "flushing"]
            /\ turns' = Append(Tail(turns), Turn(by, FALSE))
         \/ /\ by \in Event /\ ~more
            /\ call' = [call EXCEPT ![by] = said]
            /\ turns' = Tail(turns)
         \/ /\ by = Timer
            /\ turns' = Tail(turns)
            /\ UNCHANGED call

(* Mutant of Ends: close does not wait for its own turn. *)
EndsWithTheFirst == mode = "closing"

(* The flush of close is settled, well or not: the process ends. *)
Ends == Head(turns).by = Close

(* doFlush: nothing to do, or the whole queue. *)
NothingToFlush == /\ stage = "idle"
                  /\ turns # <<>>
                  /\ queue = <<>>
                  /\ \/ ~Ends /\ Settles(TRUE) /\ UNCHANGED <<mode, chain, queue, batch, owed>>
                     \/ Ends /\ Forgets
                  /\ UNCHANGED <<files, head, faults, synced>>

TakesQueue == /\ stage = "idle"
              /\ turns # <<>>
              /\ queue # <<>>
              /\ stage' = "write"
              /\ batch' = queue
              /\ queue' = <<>>
              /\ UNCHANGED <<mode, chain, call, turns, files, head, faults, synced, owed>>

(* The append, forced to the device when the flush was asked to. *)
Writes == /\ stage = "write"
          /\ stage' = "publish"
          /\ Landing(batch)
          /\ torn' = FALSE
          /\ synced' = IF Head(turns).sync THEN synced \cup (LinesFrom(log', live) \cap Critical) ELSE synced
          /\ batch' = <<>>
          /\ UNCHANGED <<mode, chain, call, queue, turns, archives, live, head, faults, owed>>

(* Mutant of Requeued: a failed batch is discarded. *)
RequeuedNone == queue

(* Mutant of Requeued: the failed batch goes behind what came in meanwhile. *)
RequeuedBehind == queue \o batch

(* The failed batch goes back, ahead of what came in meanwhile. *)
Requeued == batch \o queue

WriteFails(p) == /\ stage = "write"
                 /\ faults < MaxFaults
                 /\ faults' = faults + 1
                 /\ Landed(p)
                 /\ \/ /\ ~Ends
                       /\ Settles(FALSE)
                       /\ queue' = Requeued
                       /\ batch' = <<>>
                       /\ UNCHANGED <<mode, chain, owed>>
                    \/ Ends /\ Forgets
                 /\ UNCHANGED <<archives, live, head, synced>>

(* Mutant of Publishes: the number of the next record is published. *)
PublishesNext == /\ stage = "publish"
                 /\ stage' = "rotate"
                 /\ head' \in {head, [seq |-> chain.seq + 1, event |-> chain.prev]}
                 /\ UNCHANGED <<mode, chain, call, queue, turns, batch, files, faults, synced, owed>>

(* publishChainHead: the newest record stamped, when one is due. *)
Publishes == /\ stage = "publish"
             /\ stage' = "rotate"
             /\ head' \in {head, [seq |-> chain.seq, event |-> chain.prev]}
             /\ UNCHANGED <<mode, chain, call, queue, turns, batch, files, faults, synced, owed>>

(* rotateIfNeeded: a failure of its own is swallowed.  The archives over   *)
(* the limit are removed, oldest first.                                    *)
Rotates == /\ Len(log) - live + 1 >= FileSize
           /\ live' = Len(log) + 1
           /\ LET all == Append(archives, live)
              IN  archives' = IF Len(all) > MaxFiles THEN SubSeq(all, Len(all) - MaxFiles + 1, Len(all))
                                                     ELSE all
           /\ UNCHANGED <<log, torn>>

FlushEnds == /\ stage = "rotate"
             /\ Rotates \/ UNCHANGED files
             /\ \/ ~Ends /\ Settles(TRUE) /\ UNCHANGED <<mode, chain, queue, batch, owed>>
                \/ Ends /\ Forgets
             /\ UNCHANGED <<head, faults, synced>>

-----------------------------------------------------------------------------
(* The process *)

StartsUp == /\ mode = "down"
            /\ mode' = "up"
            /\ UNCHANGED <<memory, call, files, head, faults, synced, owed>>

(* close: one flush more, after the ones already asked for. *)
Stops == /\ mode = "up"
         /\ mode' = "closing"
         /\ turns' = Append(turns, Turn(Close, TRUE))
         /\ owed' = EventsOf(queue) \cup EventsOf(batch)
         /\ UNCHANGED <<chain, call, queue, stage, batch, files, head, faults, synced>>

(* A kill at any point: of a write under way, any part reached the files. *)
Killed(p) == /\ mode # "down"
             /\ faults < MaxFaults
             /\ faults' = faults + 1
             /\ IF stage = "write" THEN Landed(p) ELSE p = [n |-> 0, piece |-> FALSE] /\ UNCHANGED <<log, torn>>
             /\ Forgets
             /\ UNCHANGED <<archives, live, head, synced>>

Flushing == \/ NothingToFlush \/ TakesQueue \/ Writes
            \/ \E p \in Part : WriteFails(p)
            \/ Publishes \/ FlushEnds

Next == \/ \E e \in Event : FirstRecord(e) \/ Resumes(e) \/ Records(e)
        \/ TimerFlushes
        \/ Flushing
        \/ StartsUp \/ Stops
        \/ \E p \in Part : Killed(p)

Spec == Init /\ [][Next]_vars

(* The event loop takes every step that is ready, writes end one way or    *)
(* the other, the interval comes round, and a supervisor starts a process  *)
(* that ended.  Nothing is asked of failures, kills, stops and callers.    *)
Fairness == /\ \A e \in Event : WF_vars(Resumes(e))
            /\ WF_vars(TimerFlushes)
            /\ WF_vars(Flushing)
            /\ WF_vars(StartsUp)

FairSpec == Spec /\ Fairness

-----------------------------------------------------------------------------
Record == [event : Event, seq : Nat \ {0}, prev : Event \cup {Genesis}]

LogTypeOK ==
  /\ mode \in {"down", "up", "closing"}
  /\ chain \in [seq : Nat, prev : Event \cup {Genesis}, resumed : {"no", "reading", "yes"}]
  /\ call \in [Event -> {"new", "resuming", "writing", "flushing", "recorded", "refused", "dropped", "cut"}]
  /\ queue \in Seq(Record) /\ batch \in Seq(Record)
  /\ turns \in Seq([by : Event \cup {Timer, Close}, sync : BOOLEAN])
  /\ stage \in {"idle", "write", "publish", "rotate"}
  /\ log \in Seq([rec : Record, whole : BOOLEAN])
  /\ torn \in BOOLEAN
  /\ archives \in Seq(Nat \ {0}) /\ live \in Nat \ {0}
  /\ head \in [seq : Nat, event : Event \cup {Genesis}]
  /\ faults \in Nat
  /\ synced \subseteq Event /\ owed \subseteq Event

Waiting == EventsOf(batch) \cup EventsOf(queue)

(* Two readable records next to each other are linked, whatever failed,    *)
(* was cut off, was rotated or was resumed in between; only a record put   *)
(* down again after a write that failed follows another than its own.      *)
ChainUnbroken == \A i \in DOMAIN log \ {1} :
  log[i - 1].whole /\ log[i].whole =>
    \/ log[i].rec.prev = log[i - 1].rec.event /\ log[i].rec.seq = log[i - 1].rec.seq + 1
    \/ \E j \in 1 .. i - 1 : log[j].rec = log[i].rec

(* assessWitness: the published head and the records that can be read,     *)
(* archives first; of two records with the number of the head, the first.  *)
Kept == {i \in DOMAIN log : log[i].whole /\ (i >= live \/ (archives # <<>> /\ i >= archives[1]))}

SameNumber == {i \in Kept : log[i].rec.seq = head.seq}

Witness == IF \A i \in Kept : log[i].rec.seq < head.seq THEN "truncated"
           ELSE IF SameNumber # {} /\ log[Min(SameNumber)].rec.event = head.event THEN "intact"
           ELSE "altered"

(* The published head speaks against the log only when the record it names *)
(* cannot be read there (it still waits, a process that ended took it, an  *)
(* archive with it was removed, it was written on in a torn line), or when *)
(* the chain was begun anew and its numbers are there twice.               *)
WitnessHonest ==
  head.seq > 0 /\ Witness # "intact" =>
    \/ \A i \in Kept : log[i].rec.event # head.event
    \/ Cardinality({log[i].rec : i \in SameNumber}) > 1

(* A stop whose flush does not fail writes all that was waiting when it    *)
(* was called, whatever flushes were still under way.                      *)
StopLosesNothing ==
  [][mode = "closing" /\ mode' = "down" /\ faults' = faults => owed \subseteq Written']_vars

(* "Written and fsynced before writeEvent resolves" (getDurability): the   *)
(* action of a critical event does not complete while its record could     *)
(* still be lost with the page cache.                                      *)
CompletedIsSynced == \A e \in Critical : call[e] \in {"flushing", "recorded"} => e \in synced

(* Every call that was made is answered, one way or the other.             *)
EveryCallIsAnswered == \A e \in Event :
  call[e] \in {"resuming", "writing", "flushing"} ~> call[e] \in {"recorded", "refused", "dropped", "cut"}

(* A record that waits is written in the end, unless the process ends.     *)
WaitingIsWritten == \A e \in Event : e \in Waiting ~> e \in Written \/ mode = "down"

(* Seen from outside, the log is the trail its callers count on. *)
Trail == INSTANCE AuditTrail WITH
  serving  <- mode # "down",
  waiting  <- [i \in DOMAIN (batch \o queue) |-> (batch \o queue)[i].event],
  trail    <- [i \in DOMAIN log |-> log[i].rec.event],
  answered <- {e \in Critical : call[e] = "recorded"}

TrailSpec == Trail!TrailSpec
=============================================================================
