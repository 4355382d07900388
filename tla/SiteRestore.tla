----------------------------- MODULE SiteRestore -----------------------------
(***************************************************************************)
(* A whole-site restore (src/src/utils/siteRestore.ts, staged by           *)
(* BackupManager): parts are staged beside the live data while the site    *)
(* serves, one record binds them together, and the next start renames them *)
(* into place, part by part, or sets them aside.  The process may stop     *)
(* between any two operations on the file system.                          *)
(***************************************************************************)
EXTENDS Naturals, FiniteSets

CONSTANTS
  Part,         \* the managers whose restore is staged
  NoPart,       \* no manager
  Width,        \* how many paths a part swaps
  Optional,     \* the parts whose manager may not start (an add-on taken out)
  MaxRestores,  \* bound: how many restores begin
  MaxStops      \* bound: how often the process stops

ASSUME PartAssumption == NoPart \notin Part /\ Optional \subseteq Part
ASSUME WidthAssumption == Width \in Nat \ {0}
ASSUME RestoreBoundsAssumption == MaxRestores \in Nat /\ MaxStops \in Nat

(* What a path holds is told by the restore it came from. *)
Absent == 0
Before == 1    \* the data before any restore
Partial == 2   \* an archive not extracted to its end
Remnant == 3   \* a staged folder not deleted to its end; the restores come after it

Path == Part \X (1 .. Width)

PathsOf(m) == {m} \X (1 .. Width)

VARIABLES
  live,        \* live[p]
  staged,      \* <live>.staged
  kept,        \* <live>.pre-restore
  record,      \* the site restore manifest
  done,        \* whether there is a finished record to report (<manifest>.done)
  mode,        \* down, starting, serving
  todo,        \* the managers this start has not come to yet
  boot,        \* the part this start has in hand (applyPartAtStart)
  job,         \* the restore being staged (stageSiteRestore)
  cancelling,  \* whether a cancel has read the record and not yet discarded it
  serial,      \* the number of the last restore begun
  stops,       \* how often the process stopped
  committed,   \* history variable: the restores that were committed
  asked,       \* history variable: the parts of the last restore begun
  before,      \* history variable: what was live when it began
  torn,        \* history variable: why it may be in place in part only
  fresh        \* history variable: it was begun by this process

files  == <<live, staged, kept>>
disk   == <<files, record, done>>
inHand == <<mode, todo, boot, job, cancelling>>
said   == <<committed, asked, before, torn, fresh>>
vars   == <<disk, inHand, serial, stops, said>>

(* SiteRestoreManifest: a part it does not have is out. *)
NoRecord == [state |-> "none", parts |-> [m \in Part |-> "out"]]

Pending == {m \in Part : record.parts[m] = "pending"}

Recorded == {p \in Path : record.parts[p[1]] # "out"}

NoBoot == [pc |-> "idle", part |-> NoPart, left |-> {}, at |-> {}]
NoJob  == [pc |-> "idle", names |-> {}, part |-> NoPart, left |-> {}]

Init == /\ live = [p \in Path |-> Before]
        /\ staged = [p \in Path |-> Absent]
        /\ kept = [p \in Path |-> Absent]
        /\ record = NoRecord
        /\ done = FALSE
        /\ mode = "serving"
        /\ todo = {}
        /\ boot = NoBoot
        /\ job = NoJob
        /\ cancelling = FALSE
        /\ serial = Remnant
        /\ stops = 0
        /\ committed = {}
        /\ asked = {}
        /\ before = live
        /\ torn = {}
        /\ fresh = FALSE

-----------------------------------------------------------------------------
(* Staging, while the site serves.  Restores are staged one at a time, a   *)
(* cancel comes at any time.                                               *)

Without(paths) == [p \in Path |-> IF p \in paths THEN Absent ELSE staged[p]]

(* A restore asked for goes on when none is staged, or to replace the one  *)
(* that is; a complete backup of the live data comes first, and is awaited. *)
RestoreAsked == \E names \in SUBSET Part \ {{}} :
  /\ mode = "serving"
  /\ job.pc = "idle"
  /\ serial < Remnant + MaxRestores
  /\ job' = [NoJob EXCEPT !.pc = "backup", !.names = names]
  /\ UNCHANGED <<disk, mode, todo, boot, cancelling, serial, stops, said>>

BackupFails == /\ job.pc = "backup"
               /\ job' = NoJob
               /\ UNCHANGED <<disk, mode, todo, boot, cancelling, serial, stops, said>>

(* What is staged is discarded, and the record begun before any part is. *)
BeginSiteRestore ==
  /\ job.pc = "backup"
  /\ staged' = Without(Recorded)
  /\ record' = [NoRecord EXCEPT !.state = "staging"]
  /\ serial' = serial + 1
  /\ job' = [job EXCEPT !.pc = "between"]
  /\ asked' = job.names /\ before' = live /\ torn' = {} /\ fresh' = TRUE
  /\ UNCHANGED <<live, kept, done, mode, todo, boot, cancelling, stops, committed>>

StagesPart(m) == /\ job.pc = "between"
                 /\ m \in job.names
                 /\ job' = [job EXCEPT !.pc = "extract", !.part = m, !.left = PathsOf(m)]
                 /\ UNCHANGED <<disk, mode, todo, boot, cancelling, serial, stops, said>>

(* A backup that left all of a part out: nothing is recorded for it. *)
HasNothingToStage(m) ==
  /\ job.pc = "between"
  /\ m \in job.names
  /\ job' = [job EXCEPT !.names = @ \ {m}]
  /\ asked' = asked \ {m}
  /\ UNCHANGED <<disk, mode, todo, boot, cancelling, serial, stops, committed, before, torn, fresh>>

(* An archive is extracted over whatever an older staging left there. *)
ExtractsSome(p) ==
  /\ job.pc = "extract"
  /\ p \in job.left
  /\ staged' = [staged EXCEPT ![p] = Partial]
  /\ UNCHANGED <<live, kept, record, done, mode, todo, boot, job, cancelling, serial, stops, said>>

Extracts(p) == /\ job.pc = "extract"
               /\ p \in job.left
               /\ staged' = [staged EXCEPT ![p] = serial]
               /\ job' = [job EXCEPT !.left = @ \ {p}]
               /\ UNCHANGED <<live, kept, record, done, mode, todo, boot, cancelling, serial, stops, said>>

(* Mutant of RecordStagedPart: the part gets the state of the record. *)
RecordsNoPending ==
  /\ job.pc = "extract"
  /\ job.left = {}
  /\ record.state = "staging"
  /\ record' = [record EXCEPT !.parts[job.part] = "staged"]
  /\ job' = [job EXCEPT !.pc = "between", !.names = @ \ {job.part}, !.part = NoPart]
  /\ UNCHANGED <<files, done, mode, todo, boot, cancelling, serial, stops, said>>

(* recordStagedPart: only while staging. *)
RecordStagedPart ==
  /\ job.pc = "extract"
  /\ job.left = {}
  /\ record.state = "staging"
  /\ record' = [record EXCEPT !.parts[job.part] = "pending"]
  /\ job' = [job EXCEPT !.pc = "between", !.names = @ \ {job.part}, !.part = NoPart]
  /\ UNCHANGED <<files, done, mode, todo, boot, cancelling, serial, stops, said>>

(* Mutant of Missing: a part is missing when all of it is. *)
AllMissing == \E m \in Pending : \A p \in PathsOf(m) : staged[p] = Absent

Missing == \E m \in Pending : \E p \in PathsOf(m) : staged[p] = Absent

CommitSiteRestore ==
  /\ job.pc = "between"
  /\ job.names = {}
  /\ record.state = "staging"
  /\ ~Missing
  /\ record' = [record EXCEPT !.state = "staged"]
  /\ committed' = committed \cup {serial}
  /\ job' = [job EXCEPT !.pc = "report"]
  /\ UNCHANGED <<files, done, mode, todo, boot, cancelling, serial, stops, asked, before, torn, fresh>>

(* The report of what is not restored is written after the commit. *)
WriteRestoreReport ==
  /\ job.pc = "report"
  /\ job' = NoJob
  /\ UNCHANGED <<disk, mode, todo, boot, cancelling, serial, stops, said>>

(* A part that cannot be staged or recorded, a record that cannot be       *)
(* committed (a cancel took it away) or a report that cannot be written:   *)
(* what the part extracted is removed, and the rest discarded.             *)
StagingFails ==
  /\ job.pc \in {"between", "extract", "report"}
  /\ staged' = Without(Recorded \cup {p \in PathsOf(job.part) : p \notin job.left \/ staged[p] = Partial})
  /\ record' = NoRecord
  /\ job' = NoJob
  /\ UNCHANGED <<live, kept, done, mode, todo, boot, cancelling, serial, stops, said>>

(* cancelStagedSiteRestore: it is audited first, then discarded. *)
CancelAsked == /\ mode = "serving"
               /\ ~cancelling
               /\ record # NoRecord
               /\ cancelling' = TRUE
               /\ UNCHANGED <<disk, mode, todo, boot, job, serial, stops, said>>

CancelDiscards == /\ cancelling
                  /\ staged' = Without(Recorded)
                  /\ record' = NoRecord
                  /\ cancelling' = FALSE
                  /\ UNCHANGED <<live, kept, done, mode, todo, boot, job, serial, stops, said>>

-----------------------------------------------------------------------------
(* The start: each manager in turn asks what is to become of its part. *)

Boots == \E off \in SUBSET Optional :
  /\ mode = "down"
  /\ mode' = "starting"
  /\ todo' = Part \ off
  /\ UNCHANGED <<disk, boot, job, cancelling, serial, stops, said>>

Takes(m, pc, left) == /\ todo' = todo \ {m}
                      /\ boot' = [pc |-> pc, part |-> m, left |-> left, at |-> {}]

InPlace(m) == {p \in PathsOf(m) : staged[p] # Absent}

Asks(m) == mode = "starting" /\ boot.pc = "idle" /\ m \in todo

(* gatePart: none.  A staged file of a part the record does not wait for   *)
(* is a stray of an interrupted staging.                                   *)
FindsNothing(m) == /\ Asks(m)
                   /\ m \notin Pending
                   /\ Takes(m, "strays", InPlace(m))
                   /\ UNCHANGED <<disk, mode, job, cancelling, serial, stops, said>>

(* Mutant of Whole: a staging cut off counts as committed. *)
WholeUncommitted == /\ record.state # "refused"
                    /\ \A m \in Part : record.parts[m] # "set-aside"
                    /\ ~Missing

(* Mutant of Whole: a refused record is not told from a committed one. *)
WholeThoughRefused == /\ record.state # "staging"
                      /\ \A m \in Part : record.parts[m] # "set-aside"
                      /\ ~Missing

(* Committed, no part set aside, every pending part has its staged files. *)
Whole == /\ record.state = "staged"
         /\ \A m \in Part : record.parts[m] # "set-aside"
         /\ ~Missing

Applies(m) == /\ Asks(m)
              /\ m \in Pending
              /\ Whole
              /\ Takes(m, "apply", PathsOf(m))
              /\ UNCHANGED <<disk, mode, job, cancelling, serial, stops, said>>

Refuses(m) == /\ Asks(m)
              /\ m \in Pending
              /\ ~Whole
              /\ record' = [record EXCEPT !.state = "refused"]
              /\ Takes(m, "aside", InPlace(m))
              /\ UNCHANGED <<files, done, mode, job, cancelling, serial, stops, said>>

(* setAsidePath, for each staged path of the part. *)
SetsAside(p) == /\ boot.pc \in {"strays", "aside"}
                /\ p \in boot.left
                /\ staged' = [staged EXCEPT ![p] = Absent]
                /\ boot' = [boot EXCEPT !.left = @ \ {p}]
                /\ UNCHANGED <<live, kept, record, done, mode, todo, job, cancelling, serial, stops, said>>

StraysEnd == /\ boot.pc = "strays"
             /\ boot.left = {}
             /\ boot' = NoBoot
             /\ UNCHANGED <<disk, mode, todo, job, cancelling, serial, stops, said>>

(* The swap of one path: an older kept copy is removed, *)
RemovesKept(p) == /\ boot.pc = "apply"
                  /\ p \in boot.left
                  /\ kept' = [kept EXCEPT ![p] = Absent]
                  /\ boot' = [boot EXCEPT !.pc = "keep", !.at = {p}]
                  /\ UNCHANGED <<live, staged, record, done, mode, todo, job, cancelling, serial, stops, said>>

(* the live one steps aside, if there is one, *)
StepsAside(p) == /\ boot.pc = "keep"
                 /\ p \in boot.at
                 /\ kept' = [kept EXCEPT ![p] = live[p]]
                 /\ live' = [live EXCEPT ![p] = Absent]
                 /\ boot' = [boot EXCEPT !.pc = "place"]
                 /\ UNCHANGED <<staged, record, done, mode, todo, job, cancelling, serial, stops, said>>

(* Mutant of TakesName: the kept copy is removed after the swap. *)
TakesNameKeepsNone(p) ==
  /\ boot.pc = "place"
  /\ p \in boot.at
  /\ live' = [live EXCEPT ![p] = staged[p]]
  /\ staged' = [staged EXCEPT ![p] = Absent]
  /\ kept' = [kept EXCEPT ![p] = Absent]
  /\ boot' = [boot EXCEPT !.pc = "apply", !.at = {}, !.left = @ \ {p}]
  /\ UNCHANGED <<record, done, mode, todo, job, cancelling, serial, stops, said>>

(* and the staged one takes its name. *)
TakesName(p) == /\ boot.pc = "place"
                /\ p \in boot.at
                /\ live' = [live EXCEPT ![p] = staged[p]]
                /\ staged' = [staged EXCEPT ![p] = Absent]
                /\ boot' = [boot EXCEPT !.pc = "apply", !.at = {}, !.left = @ \ {p}]
                /\ UNCHANGED <<kept, record, done, mode, todo, job, cancelling, serial, stops, said>>

(* In the middle of a part's swaps: some path of it has moved, and the     *)
(* record does not say so.                                                 *)
InTheMiddle == \/ boot.pc = "place"
               \/ boot.pc \in {"apply", "keep"} /\ boot.left # PathsOf(boot.part)

Applied == {m \in Part : record.parts[m] = "applied"}

(* A swap that cannot be done ends the part; what was swapped stays. *)
SwapFails == /\ boot.pc \in {"apply", "keep", "place"}
             /\ boot.left # {}
             /\ boot' = [boot EXCEPT !.pc = "aside", !.left = {}, !.at = {}]
             /\ torn' = IF InTheMiddle \/ Applied # {} \/ torn # {} THEN torn \cup {"failed"} ELSE torn
             /\ UNCHANGED <<disk, mode, todo, job, cancelling, serial, stops, committed, asked, before, fresh>>

(* markPart: a part set aside refuses the rest; the last one makes the     *)
(* record ready to be renamed.                                             *)
MarkPart == LET verdict == IF boot.pc = "apply" THEN "applied" ELSE "set-aside" IN
  /\ boot.pc \in {"apply", "aside"}
  /\ boot.left = {}
  /\ record' = [state |-> IF verdict = "set-aside" THEN "refused" ELSE record.state,
                parts |-> [record.parts EXCEPT ![boot.part] = verdict]]
  /\ boot' = IF Pending = {boot.part} THEN [NoBoot EXCEPT !.pc = "rename"] ELSE NoBoot
  /\ UNCHANGED <<files, done, mode, todo, job, cancelling, serial, stops, said>>

RecordDone == /\ boot.pc = "rename"
              /\ record' = NoRecord
              /\ done' = TRUE
              /\ boot' = NoBoot
              /\ UNCHANGED <<files, mode, todo, job, cancelling, serial, stops, said>>

(* finishSiteRestoreAtBoot, once every manager has started: parts still    *)
(* pending are set aside (their managers did not start),                   *)
FinishPart(m) == /\ mode = "starting" /\ todo = {} /\ boot.pc = "idle"
                 /\ m \in Pending
                 /\ Takes(m, "aside", InPlace(m))
                 /\ record' = [record EXCEPT !.state = IF @ = "staging" THEN "refused" ELSE @]
                 /\ torn' = IF Applied # {} THEN torn \cup {"failed"} ELSE torn
                 /\ UNCHANGED <<files, done, mode, job, cancelling, serial, stops, committed, asked, before, fresh>>

(* Mutant of FinishSiteRestore: pending parts are left to the next start. *)
FinishLeavesPending ==
  /\ mode = "starting" /\ todo = {} /\ boot.pc = "idle"
  /\ record' = IF \A m \in Part : record.parts[m] = "out" THEN NoRecord ELSE record
  /\ done' = FALSE
  /\ mode' = "serving"
  /\ UNCHANGED <<files, todo, boot, job, cancelling, serial, stops, said>>

(* a record with no part is done, and a finished one is reported. *)
FinishSiteRestore ==
  /\ mode = "starting" /\ todo = {} /\ boot.pc = "idle"
  /\ Pending = {}
  /\ record' = IF \A m \in Part : record.parts[m] = "out" THEN NoRecord ELSE record
  /\ done' = FALSE
  /\ mode' = "serving"
  /\ UNCHANGED <<files, todo, boot, job, cancelling, serial, stops, said>>

-----------------------------------------------------------------------------
(* The process ends, told to or not: the disk stays as it is. *)

Ends(why) == /\ stops < MaxStops
             /\ stops' = stops + 1
             /\ mode' = "down"
             /\ todo' = {}
             /\ boot' = NoBoot
             /\ job' = NoJob
             /\ cancelling' = FALSE
             /\ torn' = torn \cup why
             /\ fresh' = FALSE
             /\ UNCHANGED <<live, kept, record, done, serial, committed, asked, before>>

Stops == /\ mode # "down"
         /\ staged' = staged
         /\ Ends(IF InTheMiddle THEN {"cut"} ELSE {})

Staged == {p \in Recorded : staged[p] # Absent}

(* The end comes in the middle of discarding: some of the staged paths are *)
(* gone, one may be in part, the record is still there.                    *)
StopsDiscarding == \E gone \in SUBSET Staged, half \in SUBSET Staged :
  /\ cancelling \/ job.pc # "idle"
  /\ gone \cap half = {} /\ Cardinality(half) <= 1
  /\ staged' = [p \in Path |-> IF p \in half THEN Remnant ELSE Without(gone)[p]]
  /\ Ends(IF half # {} THEN {"discarded"} ELSE {})

-----------------------------------------------------------------------------
StagingStep == \/ RestoreAsked \/ BackupFails \/ BeginSiteRestore
               \/ RecordStagedPart \/ CommitSiteRestore \/ WriteRestoreReport \/ StagingFails
               \/ CancelAsked \/ CancelDiscards
               \/ \E m \in Part : StagesPart(m) \/ HasNothingToStage(m)
               \/ \E p \in Path : ExtractsSome(p) \/ Extracts(p)

StartStep == \/ Boots \/ StraysEnd \/ SwapFails \/ MarkPart \/ RecordDone \/ FinishSiteRestore
             \/ \E m \in Part : FindsNothing(m) \/ Applies(m) \/ Refuses(m) \/ FinishPart(m)
             \/ \E p \in Path : SetsAside(p) \/ RemovesKept(p) \/ StepsAside(p) \/ TakesName(p)

Next == StagingStep \/ StartStep \/ Stops \/ StopsDiscarding

Spec == Init /\ [][Next]_vars

-----------------------------------------------------------------------------
Record == [state : {"none", "staging", "staged", "refused"},
           parts : [Part -> {"out", "pending", "applied", "set-aside"}]]

Boot == [pc : {"idle", "strays", "aside", "apply", "keep", "place", "rename"}, part : Part \cup {NoPart},
         left : SUBSET Path, at : SUBSET Path]

Job == [pc : {"idle", "backup", "between", "extract", "report"}, names : SUBSET Part,
        part : Part \cup {NoPart}, left : SUBSET Path]

RestoreTypeOK == /\ live \in [Path -> Nat] /\ staged \in [Path -> Nat]
                 /\ kept \in [Path -> Nat]
                 /\ record \in Record
                 /\ done \in BOOLEAN
                 /\ mode \in {"down", "starting", "serving"}
                 /\ todo \subseteq Part
                 /\ boot \in Boot
                 /\ job \in Job
                 /\ cancelling \in BOOLEAN
                 /\ serial \in Nat /\ stops \in Nat
                 /\ committed \subseteq Nat
                 /\ asked \subseteq Part /\ before \in [Path -> Nat]
                 /\ torn \subseteq {"cut", "failed", "discarded"} /\ fresh \in BOOLEAN

AllTogether == mode = "serving" =>
  \/ live = before
  \/ live = [p \in Path |-> IF p[1] \in asked THEN serial ELSE before[p]]

(* The parts go in together or not at all: when the site serves, the last  *)
(* restore begun is in place as a whole, every part it was asked for, or   *)
(* every path is what it was before, whatever was cancelled, replaced, cut *)
(* off while staged or between two parts - unless a part was cut off in    *)
(* the middle of its swaps, or was not swapped after another was (a rename *)
(* failed, its manager did not start), or a discard was cut off in the     *)
(* middle of a folder, which the next start takes for a whole one.         *)
AllOrNothing == torn = {} => AllTogether

(* What the header of siteRestore.ts says: a start that stops half-way     *)
(* picks up where it stopped, in the middle of a part's swaps too.         *)
PicksUp == torn \subseteq {"cut"} => AllTogether

(* Nothing is ever put in place, or kept, but a committed restore, or what *)
(* a discard left of one: no half-extracted part, none of a cut-off staging. *)
OnlyCommitted == \A p \in Path : {live[p], kept[p]} \subseteq {Absent, Before, Remnant} \cup committed

(* A start decides: a part waits for a start only in a process that began  *)
(* its staging, and never for a second one.                                *)
StartDecides == mode = "serving" /\ ~fresh => Pending = {}

(* A restored path has what it replaced beside it, not something older,    *)
(* with the exceptions of AllOrNothing.                                    *)
KeptBeside == mode = "serving" /\ torn = {} =>
  \A p \in Path : live[p] = serial => kept[p] = before[p]

(* A refused restore is not applied, not now and not at a later start.     *)
RefusedIsFinal == [][record.state = "refused" => live' = live]_vars
=============================================================================
