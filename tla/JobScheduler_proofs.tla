------------------------- MODULE JobScheduler_proofs -------------------------
(***************************************************************************)
(* The scheduler of JobScheduler keeps its types, and two servers never    *)
(* have the same slot in hand: for every schedule, every number of         *)
(* servers, every retry rule, and any number of failures, crashes, stops.  *)
(* Of one server besides: no slot is run too often, lost, or run again     *)
(* once it is final, and the state never goes back.  First what selectSlots*)
(* promises, as JobSlots states it: of the questions of JobSlotsCheck,     *)
(* over any instants, the newest due slot runs and a backlog does not.     *)
(***************************************************************************)
EXTENDS JobScheduler, JobSlotsCheck, FiniteSetTheorems, WellFoundedInduction, TLAPS

-----------------------------------------------------------------------------
(* The operators the steps are built from. *)

(* A set of instants that is not empty has an oldest one. *)
LEMMA OldestExists ==
  ASSUME NEW S, S \subseteq Nat, S # {}
  PROVE  \E s \in S : IsOldest(s, S)
<1> DEFINE R == OpToRel(<, Nat)
<1>1. PICK s \in S : \A t \in S : <<t, s>> \notin R
  BY NatLessThanWellFounded, WFMin, Zenon
<1>2. ASSUME NEW t \in S, t < s  PROVE FALSE
  <2>1. <<t, s>> \in Nat \X Nat /\ <<t, s>>[1] < <<t, s>>[2]
    BY <1>2
  <2>2. <<t, s>> \in R
    BY <2>1, Zenon DEF OpToRel
  <2> QED BY <1>1, <2>2
<1>3. \A t \in S : s <= t
  BY <1>2
<1> QED BY <1>3 DEF IsOldest

-----------------------------------------------------------------------------
(* The slots a rule chooses. *)

(* What a rule keeps are instants it was given. *)
LEMMA ChosenAreDue ==
  ASSUME NEW due, NEW at, NEW ended,
         NEW catchUp \in CatchUpRules, NEW overlap \in OverlapRules
  PROVE  Chosen(due, at, ended, catchUp, overlap) \subseteq due
  BY DEF Chosen, Waiting, CaughtUp, WhileBusy, WhileIdle, NewestOf, CatchUpRules

(* The newest instant of a set is among its n newest. *)
LEMMA NewestIsKept ==
  ASSUME NEW S, NEW n \in Nat \ {0}, NEW s \in S, \A t \in S : ~(s < t)
  PROVE  s \in NewestOf(S, n)
<1>1. {t \in S : s < t} = {}
  OBVIOUS
<1> QED BY <1>1, FS_EmptySet DEF NewestOf

(* The newest due slot runs, unless the job declared that it should not:   *)
(* the promise of NewestRuns, for every schedule and every bound.          *)
THEOREM NewestDueRuns ==
  ASSUME NEW due, due \subseteq Nat, NEW at \in Nat, NEW ended \in Nat,
         NEW catchUp \in CatchUpRules, NEW overlap \in OverlapRules,
         NEW s \in due, \A t \in due : t <= s,
         ~(overlap = "skip" /\ s < ended),
         ~(catchUp = "none" /\ at - s > OnTime)
  PROVE  s \in Chosen(due, at, ended, catchUp, overlap)
<1> DEFINE busy == WhileBusy(due, ended)
           idle == WhileIdle(due, ended)
<1>1. CASE s < ended
  <2>1. s \in busy /\ \A t \in busy : ~(s < t)
    BY <1>1 DEF WhileBusy
  <2>2. overlap = "queue"
    BY <1>1 DEF OverlapRules
  <2>3. s \in NewestOf(busy, 1)
    <3> HIDE DEF busy
    <3>1. 1 \in Nat \ {0}
      OBVIOUS
    <3> QED BY <2>1, <3>1, NewestIsKept, Zenon
  <2> QED BY <2>2, <2>3 DEF Chosen, Waiting
<1>2. CASE ~(s < ended)
  <2>1. s \in idle /\ \A t \in idle : ~(s < t)
    BY <1>2 DEF WhileIdle, WhileBusy
  <2>2. s \in NewestOf(idle, 1) /\ s \in NewestOf(idle, Cap)
    <3> HIDE DEF idle
    <3>1. 1 \in Nat \ {0}
      OBVIOUS
    <3> QED BY <2>1, <3>1, NewestIsKept, CapAssumption, Zenon
  <2>3. catchUp = "none" => at - s <= OnTime
    BY OnTimeAssumption
  <2>4. s \in CaughtUp(idle, at, catchUp)
    BY <2>1, <2>2, <2>3 DEF CaughtUp, CatchUpRules
  <2> QED BY <2>4 DEF Chosen
<1> QED BY <1>1, <1>2
-----------------------------------------------------------------------------
(* The n newest of a set of instants are no more than n: the oldest of     *)
(* them has fewer than n behind it.                                        *)
LEMMA NewestAreFew ==
  ASSUME NEW S, S \subseteq Nat, IsFiniteSet(S), NEW n \in Nat
  PROVE  IsFiniteSet(NewestOf(S, n)) /\ Cardinality(NewestOf(S, n)) <= n
<1> DEFINE N == NewestOf(S, n)
<1>1. N \subseteq S /\ IsFiniteSet(N)
  BY FS_Subset DEF NewestOf
<1>2. CASE N = {}
  BY <1>1, <1>2, FS_EmptySet
<1>3. CASE N # {}
  <2>1. PICK o \in N : IsOldest(o, N)
    BY <1>1, <1>3, OldestExists, Zenon
  <2> DEFINE newer == {t \in S : o < t}
  <2>2. IsFiniteSet(newer) /\ Cardinality(newer) < n /\ Cardinality(newer) \in Nat
    BY <2>1, FS_Subset, FS_CardinalityType DEF NewestOf
  <2>3. N \subseteq newer \cup {o}
    <3>1. \A t \in N : t \in Nat /\ o \in Nat /\ o <= t /\ t \in S
      BY <1>1, <2>1 DEF IsOldest
    <3> HIDE DEF N
    <3> QED BY <3>1
  <2>4. o \notin newer
    <3>1. o \in Nat
      BY <1>1, <2>1
    <3> QED BY <3>1
  <2> HIDE DEF newer, N
  <2>5. IsFiniteSet(newer \cup {o}) /\ Cardinality(newer \cup {o}) = Cardinality(newer) + 1
    BY <2>2, <2>4, FS_AddElement
  <2>6. Cardinality(N) <= Cardinality(newer \cup {o}) /\ Cardinality(N) \in Nat
    BY <2>3, <2>5, FS_Subset, FS_CardinalityType
  <2> QED BY <1>1, <2>2, <2>5, <2>6 DEF N
<1> QED BY <1>2, <1>3

(* Of the slots that came due during a run one is chosen at most, and of   *)
(* those missed while the job was idle Cap.                                *)
LEMMA FewOfABacklog ==
  ASSUME NEW due, due \subseteq Slots, NEW at \in Nat, NEW ended \in Nat,
         NEW catchUp \in CatchUpRules, NEW overlap \in OverlapRules,
         NEW picked, picked = Chosen(due, at, ended, catchUp, overlap),
         NEW busy, busy = WhileBusy(due, ended)
  PROVE  /\ Cardinality(picked \cap busy) <= 1
         /\ Cardinality({s \in picked : at - s > OnTime} \ busy) <= Cap
<1> DEFINE idle == due \ busy
           waiting == NewestOf(busy, 1)
           missed == {s \in picked : at - s > OnTime} \ busy
<1>1. /\ busy \subseteq Nat /\ IsFiniteSet(busy)
      /\ idle \subseteq Nat /\ IsFiniteSet(idle)
  BY SlotsAssumption, FS_Subset DEF WhileBusy
<1>2. picked = Waiting(busy, overlap) \cup CaughtUp(idle, at, catchUp)
  BY DEF Chosen, WhileIdle, WhileBusy
<1>3. IsFiniteSet(waiting) /\ Cardinality(waiting) <= 1
  BY <1>1, NewestAreFew
<1>4. picked \cap busy \subseteq waiting
  BY <1>2 DEF Waiting, CaughtUp
<1>5. Cardinality(picked \cap busy) <= 1
  <2> HIDE DEF waiting
  <2>1. /\ Cardinality(picked \cap busy) <= Cardinality(waiting)
        /\ Cardinality(picked \cap busy) \in Nat /\ Cardinality(waiting) \in Nat
    BY <1>3, <1>4, FS_Subset, FS_CardinalityType
  <2> QED BY <1>3, <2>1
<1>6. PICK n \in Nat : n <= Cap /\ missed \subseteq NewestOf(idle, n)
  <2>1. CASE catchUp = "none"
    <3>1. ASSUME NEW s \in missed  PROVE FALSE
      <4>1. s \in picked /\ s \notin busy /\ at - s > OnTime
        OBVIOUS
      <4>2. s \in CaughtUp(idle, at, catchUp)
        BY <1>2, <4>1 DEF Waiting, NewestOf
      <4>3. s \in Nat /\ at - s <= OnTime
        BY <1>1, <2>1, <4>2 DEF CaughtUp
      <4> QED BY <4>1, <4>3, OnTimeAssumption
    <3>2. 0 \in Nat /\ 0 <= Cap
      BY CapAssumption
    <3> QED BY <3>1, <3>2
  <2>2. CASE catchUp = "latest"
    <3>1. missed \subseteq NewestOf(idle, 1)
      BY <1>2, <2>2 DEF Waiting, CaughtUp, NewestOf
    <3>2. 1 \in Nat /\ 1 <= Cap
      BY CapAssumption
    <3> QED BY <3>1, <3>2
  <2>3. CASE catchUp = "all"
    <3>1. missed \subseteq NewestOf(idle, Cap)
      BY <1>2, <2>3 DEF Waiting, CaughtUp, NewestOf
    <3>2. Cap \in Nat /\ Cap <= Cap
      BY CapAssumption
    <3> QED BY <3>1, <3>2
  <2> QED BY <2>1, <2>2, <2>3 DEF CatchUpRules
<1>7. Cardinality(missed) <= Cap
  <2> DEFINE kept == NewestOf(idle, n)
  <2>1. IsFiniteSet(kept) /\ Cardinality(kept) <= n
    BY <1>1, NewestAreFew
  <2> HIDE DEF kept, missed
  <2>2. missed \subseteq kept
    BY <1>6 DEF kept
  <2>3. Cardinality(missed) <= Cardinality(kept) /\ Cardinality(missed) \in Nat /\ Cardinality(kept) \in Nat
    BY <2>1, <2>2, FS_Subset, FS_CardinalityType
  <2> QED BY <1>6, <2>1, <2>3, CapAssumption
<1> QED BY <1>5, <1>7

-----------------------------------------------------------------------------
(* The question is one that can be asked, and the answer what is chosen.   *)
AskedInv ==
  /\ asked \in Questions
  /\ \/ chosen = {}
     \/ chosen = Chosen(asked.due, asked.now, asked.busyUntil, asked.catchUp, asked.overlap)

(* Whatever was answered is what selectSlots chooses of what was asked.    *)
THEOREM AnsweredAsAsked == CheckSpec => []AskedInv
<1>1. CheckInit => AskedInv
  BY DEF CheckInit, AskedInv
<1>2. AskedInv /\ [Answer]_checkVars => AskedInv'
  BY DEF AskedInv, Answer, checkVars
<1> QED BY <1>1, <1>2, PTL DEF CheckSpec

(* The newest due slot runs, unless the job declared that it should not:   *)
(* for every schedule, and for any instants the clock and the end of the   *)
(* last run are read at.                                                   *)
THEOREM SelectedNewestRuns == CheckSpec => []NewestRuns
<1>1. AskedInv => NewestRuns
  <2> SUFFICES ASSUME AskedInv,
                      NEW s \in asked.due,
                      ~\E t \in asked.due : s < t,
                      ~(asked.overlap = "skip" /\ s < asked.busyUntil),
                      ~(asked.catchUp = "none" /\ asked.now - s > OnTime)
               PROVE  s \in Chosen(asked.due, asked.now, asked.busyUntil, asked.catchUp, asked.overlap)
    BY DEF NewestRuns
  <2>1. /\ asked.due \subseteq Nat /\ asked.now \in Nat /\ asked.busyUntil \in Nat
        /\ asked.catchUp \in CatchUpRules /\ asked.overlap \in OverlapRules
    BY SlotsAssumption, InstantsAssumption DEF AskedInv, Questions
  <2>2. \A t \in asked.due : t <= s
    BY <2>1
  <2> QED BY <2>1, <2>2, NewestDueRuns
<1> QED BY <1>1, AnsweredAsAsked, PTL

(* A backlog never runs in full: of the slots that came due during a run   *)
(* at most one, and of the missed ones at most Cap, for every schedule.    *)
THEOREM SelectedBacklogBounded == CheckSpec => []BacklogBounded
<1>1. AskedInv => BacklogBounded
  <2> SUFFICES ASSUME AskedInv  PROVE BacklogBounded
    OBVIOUS
  <2>1. /\ asked.due \subseteq Slots /\ asked.now \in Nat /\ asked.busyUntil \in Nat
        /\ asked.catchUp \in CatchUpRules /\ asked.overlap \in OverlapRules
    BY InstantsAssumption DEF AskedInv, Questions
  <2>2. CASE chosen = {}
    <3> DEFINE busy == WhileBusy(asked.due, asked.busyUntil)
    <3>1. chosen \cap busy = {} /\ {s \in chosen : asked.now - s > OnTime} \ busy = {}
      BY <2>2
    <3> HIDE DEF busy
    <3>2. Cardinality(chosen \cap busy) = 0 /\ Cardinality({s \in chosen : asked.now - s > OnTime} \ busy) = 0
      BY <3>1, FS_EmptySet
    <3> QED BY <3>2, CapAssumption DEF BacklogBounded, busy
  <2>3. CASE chosen = Chosen(asked.due, asked.now, asked.busyUntil, asked.catchUp, asked.overlap)
    BY <2>1, <2>3, FewOfABacklog DEF BacklogBounded
  <2> QED BY <2>2, <2>3 DEF AskedInv
<1> QED BY <1>1, AnsweredAsAsked, PTL

-----------------------------------------------------------------------------
(* The schedule. *)

(* nextSlot: the slot right after an instant, with none between the two,   *)
(* and Null only when no slot is left.                                     *)
LEMMA NextSlotIsNext ==
  ASSUME NEW after \in Nat
  PROVE  \/ /\ NextSlot(after) \in Slots
            /\ NextSlot(after) > after
            /\ \A s \in Slots : s > after => s >= NextSlot(after)
         \/ /\ NextSlot(after) = Null
            /\ \A s \in Slots : s <= after
<1> DEFINE later == {s \in Slots : s > after}
<1>1. Slots \subseteq Nat
  BY SlotsAssumption
<1>2. CASE later = {}
  BY <1>1, <1>2 DEF NextSlot
<1>3. CASE later # {}
  <2>1. \E s \in later : IsOldest(s, later)
    BY <1>1, <1>3, OldestExists
  <2>2. NextSlot(after) \in later /\ IsOldest(NextSlot(after), later)
    BY <1>3, <2>1 DEF NextSlot
  <2> QED BY <1>1, <2>2 DEF IsOldest
<1> QED BY <1>2, <1>3

LEMMA SlotsAreNat == Slots \subseteq Nat /\ Slot0 \subseteq Nat /\ Null \in Slot0 /\ Null \notin Slots
  BY SlotsAssumption DEF Slot0, Null

LEMMA NextSlotType ==
  ASSUME NEW t \in Nat
  PROVE  NextSlot(t) \in Slot0
  BY NextSlotIsNext DEF Slot0

LEMMA NextSlotAfterType ==
  ASSUME NEW r \in Slot0, NEW t \in Slots
  PROVE  NextSlotAfter(r, t) \in Slot0
  BY NextSlotType, SlotsAreNat DEF NextSlotAfter

LEMMA FailedIsRun ==
  ASSUME NEW r \in Run, NEW t \in Nat
  PROVE  FailedAt(r, t) \in Run
<1>1. (IF r.attempt < MaxAttempts THEN t + Backoff ELSE Null) \in Nat
  BY AttemptsAssumption DEF Run, Null
<1> QED BY <1>1 DEF FailedAt, Run

LEMMA AfterFailureIsState ==
  ASSUME NEW state \in State, NEW r \in Run
  PROVE  AfterFailure(state, r) \in State
<1>1. NextSlotAfter(state.next, r.slot) \in Slot0
  BY NextSlotAfterType DEF State, Run
<1> QED BY <1>1 DEF AfterFailure, Known, State, Run0

LEMMA NoStateIsState == NoState \in State /\ Known(NoState) \in State
  BY SlotsAreNat DEF NoState, State, Known, Run0

LEMMA RecordedAreRuns ==
  ASSUME history \subseteq Run, NEW r \in Run
  PROVE  Recorded(r) \subseteq Run
  BY DEF Recorded

(* A new record is that of a run, first attempt or skipped. *)
LEMMA NewRunIsRun ==
  ASSUME NEW t \in Slots, NEW n \in Nat
  PROVE  /\ [NoRun EXCEPT !.slot = t, !.nth = n, !.status = "skipped"] \in Run
         /\ [[NoRun EXCEPT !.slot = t, !.nth = n, !.attempt = 1] EXCEPT !.status = "running"] \in Run
<1> DEFINE Blank == [slot : Nat, nth : Nat, attempt : Nat, retryAt : Nat, status : {"none"}]
<1>1. ASSUME NEW r \in Blank
      PROVE  /\ [r EXCEPT !.slot = t, !.nth = n, !.status = "skipped"] \in Run
             /\ [[r EXCEPT !.slot = t, !.nth = n, !.attempt = 1] EXCEPT !.status = "running"] \in Run
  BY DEF Run
<1>2. NoRun \in Blank
  BY DEF NoRun, Null
<1> HIDE DEF Blank
<1> QED BY <1>1, <1>2

(* Whatever is said of a slot, it is said of one of the schedule. *)
LEMMA SaidIsOutcome ==
  ASSUME SharedTypeOK, NEW r \in Run, SaidIfLast(r)
  PROVE  outcome' \in [Slots -> {"open", "before", "done", "failed", "skipped"}]
<1>1. r.slot \in Slots
  BY DEF Run
<1> QED BY <1>1 DEF SharedTypeOK, SaidIfLast, Said

-----------------------------------------------------------------------------
(* The types, made inductive: a lane that has a slot in hand, or is about  *)
(* to, knows which, and what run of it once that began; a look only fails  *)
(* a run that is one.                                                      *)

Lanes == {l \in Lane :
  /\ l.resume # NoRun => l.slot \in Slots
  /\ l.pc \in HoldingPc \cup {"turnSave", "take"} => l.slot \in Slots
  /\ l.pc \in HoldingPc \ {"beginRead"} => l.record \in Run}

Looks == {k \in Look :
  k.pc \in {"probed", "cutOffRead", "cutOffSave", "cutOffRecord"} => k.snap.current \in Run}

Typed == /\ SharedTypeOK
         /\ look \in [Server -> Looks]
         /\ lane \in [Server -> Lanes]

LEMMA NoLaneIsLane == NoLane \in Lanes
  BY NoStateIsState, SlotsAreNat DEF NoLane, Lanes, Lane, HoldingPc, Run0

LEMMA NoLookIsLook == NoLook \in Looks
  BY NoStateIsState DEF NoLook, Looks, Look, Null

LEMMA LaneMoves ==
  ASSUME lane \in [Server -> Lanes], NEW s \in Server,
         NEW from \in HoldingPc \ {"beginRead"}, NEW to \in HoldingPc, LaneGoes(s, from, to)
  PROVE  lane' \in [Server -> Lanes]
  BY DEF LaneGoes, Lanes, Lane

LEMMA SharedUnchanged ==
  ASSUME SharedTypeOK, UNCHANGED <<now, mode, durable, busyUntil, made, tally, ghosts>>
  PROVE  SharedTypeOK'
  BY DEF SharedTypeOK, durable, ghosts

LEMMA DrainStarts ==
  ASSUME Typed, NEW s \in Server, NEW items \in SUBSET Slots, NEW slot \in Slot0,
         NEW resume \in Run0, resume # NoRun => slot \in Slots, NEW after \in Slot0,
         StartsDrain(s, items, slot, resume, after)
  PROVE  Typed'
<1>1. [NoLane EXCEPT !.pc = "turn", !.todo = items, !.slot = slot,
                     !.resume = resume, !.after = after] \in Lanes
  BY NoLaneIsLane DEF Lanes, Lane, HoldingPc
<1>2. lane' \in [Server -> Lanes]
  BY <1>1 DEF Typed, StartsDrain
<1>3. look' \in [Server -> Looks]
  BY NoLookIsLook DEF Typed, StartsDrain, LookEnds
<1>4. SharedTypeOK'
  BY SharedUnchanged DEF Typed, StartsDrain
<1> QED BY <1>2, <1>3, <1>4 DEF Typed

-----------------------------------------------------------------------------
LEMMA LookStepTyped ==
  ASSUME Typed, NEW s \in Server, LookStep(s)
  PROVE  Typed'
<1>1. /\ look \in [Server -> Looks] /\ lane \in [Server -> Lanes] /\ SharedTypeOK
      /\ look[s] \in Look /\ look[s] \in Looks
  BY DEF Typed, Looks
<1>2. /\ look[s].at \in Nat /\ look[s].snap \in State /\ look[s].fresh \in State
      /\ look[s].skip \subseteq Slots /\ look[s].run \subseteq Slots
  BY <1>1 DEF Look
<1>3. Unfinished(s) \in Run0 /\ (Unfinished(s).status # "none" => Unfinished(s) \in Run)
  BY <1>2 DEF Unfinished, State, Run0, NoRun
<1>4. Unfinished(s) \in Run => Unfinished(s).slot \in Slots
  BY DEF Run
<1>5. store \in State /\ now \in Nat /\ history \subseteq Run
  BY <1>1 DEF SharedTypeOK
<1>6. ASSUME LookEnds(s)  PROVE look' \in [Server -> Looks]
  BY <1>1, <1>6, NoLookIsLook DEF LookEnds
<1>7. CASE LookStarts(s)
  <2>1. [NoLook EXCEPT !.pc = "seen", !.at = now, !.snap = store] \in Looks
    BY <1>5, NoLookIsLook DEF Looks, Look
  <2>2. look' \in [Server -> Looks]
    BY <1>1, <1>7, <2>1 DEF LookStarts
  <2>3. SharedTypeOK' /\ lane' = lane
    BY <1>1, <1>7, SharedUnchanged DEF LookStarts
  <2> QED BY <1>1, <2>2, <2>3 DEF Typed
<1>8. CASE Adopts(s)
  <2>1. store' \in State
    BY <1>2, <1>8, NextSlotType, NoStateIsState DEF Adopts, State
  <2>2. outcome' \in [Slots -> {"open", "before", "done", "failed", "skipped"}]
    BY <1>1, <1>8 DEF Adopts, SharedTypeOK
  <2>3. SharedTypeOK'
    BY <1>1, <1>8, <2>1, <2>2 DEF Adopts, SharedTypeOK
  <2> QED BY <1>1, <1>6, <1>8, <2>3 DEF Adopts, Typed
<1>9. CASE LeavesRunning(s)
  BY <1>1, <1>6, <1>9, SharedUnchanged DEF LeavesRunning, Typed
<1>10. CASE ProbesLock(s)
  <2>1. Unfinished(s) \in Run
    BY <1>3, <1>10 DEF ProbesLock
  <2>2. [look[s] EXCEPT !.pc = "probed"] \in Looks
    BY <1>1, <2>1 DEF Looks, Look, Unfinished
  <2>3. look' \in [Server -> Looks]
    BY <1>1, <1>10, <2>2 DEF ProbesLock, LookGoes
  <2>4. lock' \in [Slots -> Server \cup {NoServer, DeadServer}]
    BY <1>1, <1>10 DEF ProbesLock, Taken, SharedTypeOK
  <2>5. SharedTypeOK' /\ lane' = lane
    BY <1>1, <1>10, <2>4 DEF ProbesLock, SharedTypeOK, ghosts
  <2> QED BY <1>1, <2>3, <2>5 DEF Typed
<1>11. CASE ReleasesProbe(s)
  <2>1. [look[s] EXCEPT !.pc = "cutOffRead"] \in Looks
    BY <1>1, <1>11 DEF ReleasesProbe, Looks, Look
  <2>2. look' \in [Server -> Looks]
    BY <1>1, <1>11, <2>1 DEF ReleasesProbe, LookGoes
  <2>3. lock' \in [Slots -> Server \cup {NoServer, DeadServer}]
    BY <1>1, <1>11 DEF ReleasesProbe, Released, SharedTypeOK
  <2>4. SharedTypeOK' /\ lane' = lane
    BY <1>1, <1>11, <2>3 DEF ReleasesProbe, SharedTypeOK, ghosts
  <2> QED BY <1>1, <2>2, <2>4 DEF Typed
<1>12. CASE CutOffReads(s)
  <2>1. [look[s] EXCEPT !.pc = "cutOffSave", !.fresh = store] \in Looks
    BY <1>1, <1>5, <1>12 DEF CutOffReads, Looks, Look
  <2>2. look' \in [Server -> Looks]
    BY <1>1, <1>12, <2>1 DEF CutOffReads
  <2>3. SharedTypeOK' /\ lane' = lane
    BY <1>1, <1>12, SharedUnchanged DEF CutOffReads
  <2> QED BY <1>1, <2>2, <2>3 DEF Typed
<1>13. look[s].pc \in {"cutOffSave", "cutOffRecord"} => CutOff(s) \in Run
  BY <1>1, <1>2, FailedIsRun DEF Looks, CutOff, Unfinished
<1>14. CASE CutOffSaves(s)
  <2>1. CutOff(s) \in Run
    BY <1>13, <1>14 DEF CutOffSaves
  <2>2. store' \in State
    BY <1>2, <1>14, <2>1, AfterFailureIsState DEF CutOffSaves
  <2>3. outcome' \in [Slots -> {"open", "before", "done", "failed", "skipped"}]
    BY <1>1, <1>14, <2>1, SaidIsOutcome DEF CutOffSaves
  <2>4. [look[s] EXCEPT !.pc = "cutOffRecord"] \in Looks
    BY <1>1, <1>14 DEF CutOffSaves, Looks, Look
  <2>5. look' \in [Server -> Looks]
    BY <1>1, <1>14, <2>4 DEF CutOffSaves, LookGoes
  <2>6. SharedTypeOK' /\ lane' = lane
    BY <1>1, <1>14, <2>2, <2>3 DEF CutOffSaves, SharedTypeOK
  <2> QED BY <1>1, <2>5, <2>6 DEF Typed
<1>15. CASE CutOffRecords(s)
  <2>1. history' \subseteq Run
    BY <1>5, <1>13, <1>15, RecordedAreRuns DEF CutOffRecords
  <2>2. [look[s] EXCEPT !.pc = "due"] \in Looks
    BY <1>1 DEF Looks, Look
  <2>3. look' \in [Server -> Looks]
    BY <1>1, <1>6, <1>15, <2>2 DEF CutOffRecords, LookGoes
  <2>4. SharedTypeOK' /\ lane' = lane
    BY <1>1, <1>15, <2>1 DEF CutOffRecords, SharedTypeOK, ghosts
  <2> QED BY <1>1, <2>3, <2>4 DEF Typed
<1>16. CASE ResumesInterrupted(s)
  <2>1. Unfinished(s) \in Run /\ Unfinished(s).slot \in Slots
    BY <1>3, <1>4, <1>16 DEF ResumesInterrupted
  <2>2. Unfinished(s).slot \in Slot0 /\ {Unfinished(s).slot} \in SUBSET Slots
    BY <2>1 DEF Slot0
  <2> QED BY <1>3, <1>16, <2>1, <2>2, SlotsAreNat, DrainStarts DEF ResumesInterrupted
<1>17. CASE WaitsForRetry(s)
  BY <1>1, <1>6, <1>17, SharedUnchanged DEF WaitsForRetry, Typed
<1>18. CASE Retries(s)
  <2> DEFINE again == [Unfinished(s) EXCEPT !.attempt = @ + 1]
  <2>1. Unfinished(s) \in Run /\ Unfinished(s).slot \in Slots
    BY <1>3, <1>4, <1>18 DEF Retries
  <2>2. Unfinished(s).slot \in Slot0 /\ {Unfinished(s).slot} \in SUBSET Slots
    BY <2>1 DEF Slot0
  <2>3. again \in Run0
    BY <2>1 DEF Run, Run0
  <2>4. StartsDrain(s, {Unfinished(s).slot}, Unfinished(s).slot, again, Null)
    BY <1>18 DEF Retries
  <2> HIDE DEF again
  <2> QED BY <2>1, <2>2, <2>3, <2>4, SlotsAreNat, DrainStarts
<1>19. CASE NothingDue(s)
  BY <1>1, <1>6, <1>19, SharedUnchanged DEF NothingDue, Typed
<1>20. CASE ChoosesSlots(s)
  <2> DEFINE due  == SlotsBetween(look[s].snap.next, look[s].at)
             run  == Chosen(due, look[s].at, busyUntil[s], CatchUp, Overlap)
             skip == NewestOf(due \ run, Cap)
  <2>1. due \subseteq Slots
    BY DEF SlotsBetween
  <2>2. run \subseteq due
    BY RulesAssumption DEF Chosen, Waiting, CaughtUp, WhileBusy, WhileIdle, NewestOf, CatchUpRules
  <2>3. skip \subseteq due
    BY DEF NewestOf
  <2>4. look' = [look EXCEPT ![s].pc = "chosen", ![s].run = run, ![s].skip = skip]
    BY <1>20 DEF ChoosesSlots
  <2>5. SharedTypeOK' /\ lane' = lane
    BY <1>1, <1>20, SharedUnchanged DEF ChoosesSlots
  <2> HIDE DEF due, run, skip
  <2>6. [look[s] EXCEPT !.pc = "chosen", !.run = run, !.skip = skip] \in Looks
    BY <1>1, <2>1, <2>2, <2>3 DEF Looks, Look
  <2>7. look' \in [Server -> Looks]
    BY <1>1, <2>4, <2>6
  <2> QED BY <1>1, <2>5, <2>7 DEF Typed
<1>21. CASE RecordsSkipped(s)
  <2>1. PICK t \in look[s].skip :
          /\ history' = Recorded([NoRun EXCEPT !.slot = t, !.nth = made[t] + 1, !.status = "skipped"])
          /\ made' = [made EXCEPT ![t] = @ + 1]
          /\ Said(t, "skipped")
          /\ look' = [look EXCEPT ![s].skip = @ \ {t}]
          /\ UNCHANGED <<now, mode, store, lock, lane, busyUntil, tally, starts>>
    BY <1>21 DEF RecordsSkipped
  <2>2. t \in Slots /\ made[t] \in Nat /\ made[t] + 1 \in Nat
    BY <1>1, <1>2 DEF SharedTypeOK
  <2>3. [NoRun EXCEPT !.slot = t, !.nth = made[t] + 1, !.status = "skipped"] \in Run
    BY <2>2, NewRunIsRun
  <2>4. history' \subseteq Run
    BY <1>5, <2>1, <2>3, RecordedAreRuns
  <2>5. [look[s] EXCEPT !.skip = @ \ {t}] \in Looks
    BY <1>1, <1>2 DEF Looks, Look
  <2>6. look' \in [Server -> Looks]
    BY <1>1, <2>1, <2>5
  <2>7. made' \in [Slots -> Nat] /\ outcome' \in [Slots -> {"open", "before", "done", "failed", "skipped"}]
    BY <1>1, <2>1, <2>2 DEF SharedTypeOK, Said
  <2>8. SharedTypeOK' /\ lane' = lane
    BY <1>1, <2>1, <2>4, <2>7 DEF SharedTypeOK
  <2> QED BY <1>1, <2>6, <2>8 DEF Typed
<1>22. After(s) \in Slot0
  BY <1>2, NextSlotType DEF After
<1>23. CASE MovesOn(s)
  <2>1. store' \in State
    BY <1>2, <1>22, <1>23 DEF MovesOn, State
  <2>2. SharedTypeOK' /\ lane' = lane
    BY <1>1, <1>23, <2>1 DEF MovesOn, SharedTypeOK, ghosts
  <2> QED BY <1>1, <1>6, <1>23, <2>2 DEF MovesOn, Typed
<1>24. CASE Drains(s)
  BY <1>2, <1>22, <1>24, SlotsAreNat, DrainStarts DEF Drains, Run0
<1> QED BY <1>7, <1>8, <1>9, <1>10, <1>11, <1>12, <1>14, <1>15, <1>16, <1>17, <1>18, <1>19,
           <1>20, <1>21, <1>23, <1>24 DEF LookStep

-----------------------------------------------------------------------------
LEMMA LaneStepTyped ==
  ASSUME Typed, NEW s \in Server, LaneStep(s)
  PROVE  Typed'
<1>1. /\ look \in [Server -> Looks] /\ lane \in [Server -> Lanes] /\ SharedTypeOK
      /\ lane[s] \in Lane /\ lane[s] \in Lanes
  BY DEF Typed, Lanes
<1>2. /\ lane[s].snap \in State /\ lane[s].todo \subseteq Slots /\ lane[s].after \in Slot0
      /\ lane[s].resume \in Run0 /\ lane[s].record \in Run0 /\ lane[s].slot \in Slot0
  BY <1>1 DEF Lane
<1>3. /\ lane[s].pc \in HoldingPc \cup {"turnSave", "take"} => lane[s].slot \in Slots
      /\ lane[s].resume # NoRun => lane[s].slot \in Slots
      /\ lane[s].pc \in HoldingPc \ {"beginRead"} => lane[s].record \in Run
  BY <1>1 DEF Lanes
<1>4. store \in State /\ now \in Nat /\ history \subseteq Run /\ busyUntil \in [Server -> Nat]
  BY <1>1 DEF SharedTypeOK
<1>5. ASSUME LaneEnds(s)
      PROVE  lane' \in [Server -> Lanes] /\ busyUntil' \in [Server -> Nat]
  BY <1>1, <1>4, <1>5, NoLaneIsLane DEF LaneEnds
<1>6. ASSUME NextTurn(s)  PROVE lane' \in [Server -> Lanes]
  <2>1. [lane[s] EXCEPT !.pc = "turn", !.todo = @ \ {lane[s].slot}, !.resume = NoRun] \in Lanes
    BY <1>1, <1>2 DEF Lanes, Lane, HoldingPc, Run0
  <2> QED BY <1>1, <1>6, <2>1 DEF NextTurn
<1>7. CASE TurnReads(s)
  <2>1. PICK t \in lane[s].todo :
          lane' = [lane EXCEPT ![s].pc = "turnSave", ![s].slot = t, ![s].snap = store]
    BY <1>7 DEF TurnReads
  <2>2. [lane[s] EXCEPT !.pc = "turnSave", !.slot = t, !.snap = store] \in Lanes
    BY <1>1, <1>2, <1>4 DEF Lanes, Lane, HoldingPc, Slot0
  <2>3. lane' \in [Server -> Lanes]
    BY <1>1, <2>1, <2>2
  <2>4. SharedTypeOK' /\ look' = look
    BY <1>1, <1>7, SharedUnchanged DEF TurnReads
  <2> QED BY <1>1, <2>3, <2>4 DEF Typed
<1>8. CASE TurnSaves(s)
  <2>1. [lane[s] EXCEPT !.pc = "take"] \in Lanes
    BY <1>1, <1>8 DEF TurnSaves, LaneGoes, Lanes, Lane, HoldingPc
  <2>2. lane' \in [Server -> Lanes]
    BY <1>1, <1>8, <2>1 DEF TurnSaves, LaneGoes
  <2>3. store' \in State
    BY <1>2, <1>8 DEF TurnSaves, Known, State
  <2>4. SharedTypeOK' /\ look' = look
    BY <1>1, <1>8, <2>3 DEF TurnSaves, SharedTypeOK, ghosts
  <2> QED BY <1>1, <2>2, <2>4 DEF Typed
<1>9. CASE LeavesSlot(s)
  <2>1. SharedTypeOK' /\ look' = look
    BY <1>1, <1>5, <1>9 DEF LeavesSlot, SharedTypeOK, durable, ghosts
  <2> QED BY <1>1, <1>5, <1>9, <2>1 DEF LeavesSlot, Typed
<1>10. CASE SlotIsHeld(s)
  BY <1>1, <1>6, <1>10, SharedUnchanged DEF SlotIsHeld, Typed
<1>11. CASE TakesSlot(s)
  <2>1. [lane[s] EXCEPT !.pc = "beginRead"] \in Lanes
    BY <1>1, <1>3, <1>11 DEF TakesSlot, AtTake, Lanes, Lane, HoldingPc
  <2>2. lane' \in [Server -> Lanes]
    BY <1>1, <1>11, <2>1 DEF TakesSlot
  <2>3. lock' \in [Slots -> Server \cup {NoServer, DeadServer}]
    BY <1>1, <1>11 DEF TakesSlot, Taken, SharedTypeOK
  <2>4. SharedTypeOK' /\ look' = look
    BY <1>1, <1>11, <2>3 DEF TakesSlot, SharedTypeOK, ghosts
  <2> QED BY <1>1, <2>2, <2>4 DEF Typed
<1>12. CASE BeginReads(s)
  <2> DEFINE r == IF lane[s].resume = NoRun
                  THEN [NoRun EXCEPT !.slot = lane[s].slot, !.nth = made[lane[s].slot] + 1, !.attempt = 1]
                  ELSE [lane[s].resume EXCEPT !.retryAt = Null]
             record == [r EXCEPT !.status = "running"]
  <2>1. lane[s].slot \in Slots /\ made[lane[s].slot] \in Nat
    BY <1>1, <1>3, <1>12 DEF BeginReads, HoldingPc, SharedTypeOK
  <2>2. record \in Run
    <3>1. CASE lane[s].resume = NoRun
      <4>1. record = [[NoRun EXCEPT !.slot = lane[s].slot, !.nth = made[lane[s].slot] + 1, !.attempt = 1]
                        EXCEPT !.status = "running"]
        BY <3>1
      <4>2. made[lane[s].slot] + 1 \in Nat
        BY <2>1
      <4> QED BY <2>1, <4>1, <4>2, NewRunIsRun
    <3>2. CASE lane[s].resume # NoRun
      <4>1. lane[s].resume \in Run
        BY <1>2, <3>2 DEF Run0
      <4> QED BY <3>2, <4>1 DEF Run, Null
    <3> QED BY <3>1, <3>2
  <2>3. lane' = [lane EXCEPT ![s].pc = "beginSave", ![s].snap = store, ![s].record = record]
    BY <1>12 DEF BeginReads
  <2>4. made' \in [Slots -> Nat]
    BY <1>1, <1>12, <2>1 DEF BeginReads, SharedTypeOK
  <2>5. SharedTypeOK' /\ look' = look
    BY <1>1, <1>12, <2>4 DEF BeginReads, SharedTypeOK, durable, ghosts
  <2> HIDE DEF r, record
  <2>6. [lane[s] EXCEPT !.pc = "beginSave", !.snap = store, !.record = record] \in Lanes
    BY <1>1, <1>4, <2>1, <2>2 DEF Lanes, Lane, HoldingPc, Run0
  <2>7. lane' \in [Server -> Lanes]
    BY <1>1, <2>3, <2>6
  <2> QED BY <1>1, <2>5, <2>7 DEF Typed
<1>13. CASE BeginSaves(s)
  <2>1. LaneGoes(s, "beginSave", "beginRecord") /\ lane[s].record \in Run
    BY <1>3, <1>13 DEF BeginSaves, LaneGoes, HoldingPc
  <2>2. lane' \in [Server -> Lanes]
    BY <1>1, <2>1, LaneMoves DEF HoldingPc
  <2>3. store' \in State
    BY <1>2, <1>13, <2>1 DEF BeginSaves, Known, State, Run0
  <2>4. SharedTypeOK' /\ look' = look
    BY <1>1, <1>13, <2>3 DEF BeginSaves, SharedTypeOK, ghosts
  <2> QED BY <1>1, <2>2, <2>4 DEF Typed
<1>14. CASE BeginRecords(s)
  <2>1. LaneGoes(s, "beginRecord", "work") /\ lane[s].record \in Run /\ lane[s].slot \in Slots
    BY <1>3, <1>14 DEF BeginRecords, LaneGoes, HoldingPc
  <2>2. lane' \in [Server -> Lanes]
    BY <1>1, <2>1, LaneMoves DEF HoldingPc
  <2>3. history' \subseteq Run
    BY <1>4, <1>14, <2>1, RecordedAreRuns DEF BeginRecords
  <2>4. starts' \in [Slots -> Nat]
    BY <1>1, <1>14, <2>1 DEF BeginRecords, SharedTypeOK
  <2>5. SharedTypeOK' /\ look' = look
    BY <1>1, <1>14, <2>3, <2>4 DEF BeginRecords, SharedTypeOK
  <2> QED BY <1>1, <2>2, <2>5 DEF Typed
<1>15. CASE Succeeds(s)
  <2>1. lane' \in [Server -> Lanes]
    BY <1>1, <1>15, LaneMoves DEF Succeeds, HoldingPc
  <2>2. SharedTypeOK' /\ look' = look
    BY <1>1, <1>15, SharedUnchanged DEF Succeeds
  <2> QED BY <1>1, <2>1, <2>2 DEF Typed
<1>16. CASE Fails(s)
  <2>1. lane' \in [Server -> Lanes]
    BY <1>1, <1>16, LaneMoves DEF Fails, HoldingPc
  <2>2. tally' \in [failures : Nat, crashes : Nat, stops : Nat]
    BY <1>1, <1>16 DEF Fails, SharedTypeOK
  <2>3. SharedTypeOK' /\ look' = look
    BY <1>1, <1>16, <2>2 DEF Fails, SharedTypeOK, durable, ghosts
  <2> QED BY <1>1, <2>1, <2>3 DEF Typed
<1>17. CASE Interrupted(s)
  <2>1. lane' \in [Server -> Lanes]
    BY <1>1, <1>17, LaneMoves DEF Interrupted, HoldingPc
  <2>2. SharedTypeOK' /\ look' = look
    BY <1>1, <1>17, SharedUnchanged DEF Interrupted
  <2> QED BY <1>1, <2>1, <2>2 DEF Typed
<1>18. CASE DoneReads(s)
  <2>1. [lane[s] EXCEPT !.pc = "doneSave", !.snap = store] \in Lanes
    BY <1>1, <1>4, <1>18 DEF DoneReads, LaneReads, Lanes, Lane, HoldingPc
  <2>2. lane' \in [Server -> Lanes]
    BY <1>1, <1>18, <2>1 DEF DoneReads, LaneReads
  <2>3. SharedTypeOK' /\ look' = look
    BY <1>1, <1>18, SharedUnchanged DEF DoneReads
  <2> QED BY <1>1, <2>2, <2>3 DEF Typed
<1>19. CASE DoneSaves(s)
  <2>1. LaneGoes(s, "doneSave", "doneRecord") /\ lane[s].slot \in Slots
    BY <1>3, <1>19 DEF DoneSaves, LaneGoes, HoldingPc
  <2>2. lane' \in [Server -> Lanes]
    BY <1>1, <2>1, LaneMoves DEF HoldingPc
  <2>3. NextSlotAfter(lane[s].snap.next, lane[s].slot) \in Slot0 /\ lane[s].slot \in Slot0
    BY <1>2, <2>1, NextSlotAfterType DEF State, Slot0
  <2>4. store' \in State
    BY <1>2, <1>19, <2>3 DEF DoneSaves, Known, State, Run0
  <2>5. outcome' \in [Slots -> {"open", "before", "done", "failed", "skipped"}]
    BY <1>1, <1>19, <2>1 DEF DoneSaves, Said, SharedTypeOK
  <2>6. SharedTypeOK' /\ look' = look
    BY <1>1, <1>19, <2>4, <2>5 DEF DoneSaves, SharedTypeOK
  <2> QED BY <1>1, <2>2, <2>6 DEF Typed
<1>20. CASE DoneRecords(s)
  <2>1. LaneGoes(s, "doneRecord", "release") /\ lane[s].record \in Run
    BY <1>3, <1>20 DEF DoneRecords, LaneGoes, HoldingPc
  <2>2. lane' \in [Server -> Lanes]
    BY <1>1, <2>1, LaneMoves DEF HoldingPc
  <2>3. [lane[s].record EXCEPT !.status = "completed"] \in Run
    BY <2>1 DEF Run
  <2>4. history' \subseteq Run
    BY <1>4, <1>20, <2>3, RecordedAreRuns DEF DoneRecords
  <2>5. SharedTypeOK' /\ look' = look
    BY <1>1, <1>20, <2>4 DEF DoneRecords, SharedTypeOK, ghosts
  <2> QED BY <1>1, <2>2, <2>5 DEF Typed
<1>21. CASE FailReads(s)
  <2> DEFINE record == FailedAt(lane[s].record, now)
  <2>1. record \in Run /\ lane[s].slot \in Slots
    BY <1>3, <1>4, <1>21, FailedIsRun DEF FailReads, HoldingPc
  <2>2. lane' = [lane EXCEPT ![s].pc = "failSave", ![s].snap = store, ![s].record = record]
    BY <1>1, <1>21 DEF FailReads
  <2>3. SharedTypeOK' /\ look' = look
    BY <1>1, <1>21, SharedUnchanged DEF FailReads
  <2> HIDE DEF record
  <2>4. [lane[s] EXCEPT !.pc = "failSave", !.snap = store, !.record = record] \in Lanes
    BY <1>1, <1>4, <2>1 DEF Lanes, Lane, HoldingPc, Run0
  <2>5. lane' \in [Server -> Lanes]
    BY <1>1, <2>2, <2>4
  <2> QED BY <1>1, <2>3, <2>5 DEF Typed
<1>22. CASE FailSaves(s)
  <2>1. LaneGoes(s, "failSave", "failRecord") /\ lane[s].record \in Run
    BY <1>3, <1>22 DEF FailSaves, LaneGoes, HoldingPc
  <2>2. lane' \in [Server -> Lanes]
    BY <1>1, <2>1, LaneMoves DEF HoldingPc
  <2>3. store' \in State
    BY <1>2, <1>22, <2>1, AfterFailureIsState DEF FailSaves
  <2>4. outcome' \in [Slots -> {"open", "before", "done", "failed", "skipped"}]
    BY <1>1, <1>22, <2>1, SaidIsOutcome DEF FailSaves
  <2>5. SharedTypeOK' /\ look' = look
    BY <1>1, <1>22, <2>3, <2>4 DEF FailSaves, SharedTypeOK
  <2> QED BY <1>1, <2>2, <2>5 DEF Typed
<1>23. CASE FailRecords(s)
  <2>1. LaneGoes(s, "failRecord", "release") /\ lane[s].record \in Run
    BY <1>3, <1>23 DEF FailRecords, LaneGoes, HoldingPc
  <2>2. lane' \in [Server -> Lanes]
    BY <1>1, <2>1, LaneMoves DEF HoldingPc
  <2>3. history' \subseteq Run
    BY <1>4, <1>23, <2>1, RecordedAreRuns DEF FailRecords
  <2>4. SharedTypeOK' /\ look' = look
    BY <1>1, <1>23, <2>3 DEF FailRecords, SharedTypeOK, ghosts
  <2> QED BY <1>1, <2>2, <2>4 DEF Typed
<1>24. CASE HandReads(s)
  <2> DEFINE record == [lane[s].record EXCEPT !.status = "interrupted"]
  <2>1. lane[s].record \in Run /\ lane[s].slot \in Slots
    BY <1>3, <1>24 DEF HandReads, HoldingPc
  <2>2. record \in Run
    BY <2>1 DEF Run
  <2>3. lane' = [lane EXCEPT ![s] = [lane[s] EXCEPT !.pc = "handSave", !.snap = store, !.record = record]]
    BY <1>1, <1>24 DEF HandReads, Lane
  <2>4. SharedTypeOK' /\ look' = look
    BY <1>1, <1>24, SharedUnchanged DEF HandReads
  <2> HIDE DEF record
  <2>5. [lane[s] EXCEPT !.pc = "handSave", !.snap = store, !.record = record] \in Lanes
    BY <1>1, <1>4, <2>1, <2>2 DEF Lanes, Lane, HoldingPc, Run0
  <2>6. lane' \in [Server -> Lanes]
    BY <1>1, <2>3, <2>5
  <2> QED BY <1>1, <2>4, <2>6 DEF Typed
<1>25. CASE HandSaves(s)
  <2>1. LaneGoes(s, "handSave", "handRecord") /\ lane[s].record \in Run
    BY <1>3, <1>25 DEF HandSaves, LaneGoes, HoldingPc
  <2>2. lane' \in [Server -> Lanes]
    BY <1>1, <2>1, LaneMoves DEF HoldingPc
  <2>3. store' \in State
    BY <1>2, <1>25, <2>1 DEF HandSaves, Known, State, Run0
  <2>4. SharedTypeOK' /\ look' = look
    BY <1>1, <1>25, <2>3 DEF HandSaves, SharedTypeOK, ghosts
  <2> QED BY <1>1, <2>2, <2>4 DEF Typed
<1>26. CASE HandRecords(s)
  <2>1. LaneGoes(s, "handRecord", "release") /\ lane[s].record \in Run
    BY <1>3, <1>26 DEF HandRecords, LaneGoes, HoldingPc
  <2>2. lane' \in [Server -> Lanes]
    BY <1>1, <2>1, LaneMoves DEF HoldingPc
  <2>3. history' \subseteq Run
    BY <1>4, <1>26, <2>1, RecordedAreRuns DEF HandRecords
  <2>4. SharedTypeOK' /\ look' = look
    BY <1>1, <1>26, <2>3 DEF HandRecords, SharedTypeOK, ghosts
  <2> QED BY <1>1, <2>2, <2>4 DEF Typed
<1>27. CASE ReleasesSlot(s)
  <2>1. lane' \in [Server -> Lanes] /\ busyUntil' \in [Server -> Nat]
    BY <1>4, <1>5, <1>6, <1>27 DEF ReleasesSlot
  <2>2. lock' \in [Slots -> Server \cup {NoServer, DeadServer}]
    BY <1>1, <1>27 DEF ReleasesSlot, Released, SharedTypeOK
  <2>3. SharedTypeOK' /\ look' = look
    BY <1>1, <1>27, <2>1, <2>2 DEF ReleasesSlot, SharedTypeOK, ghosts
  <2> QED BY <1>1, <2>1, <2>3 DEF Typed
<1>28. CASE DrainEnds(s)
  <2>1. SharedTypeOK' /\ look' = look
    BY <1>1, <1>5, <1>28 DEF DrainEnds, SharedTypeOK, durable, ghosts
  <2> QED BY <1>1, <1>5, <1>28, <2>1 DEF DrainEnds, Typed
<1>29. CASE AfterReads(s)
  <2>1. [lane[s] EXCEPT !.pc = "afterSave", !.snap = store] \in Lanes
    BY <1>1, <1>4 DEF Lanes, Lane, HoldingPc
  <2>2. lane' \in [Server -> Lanes]
    BY <1>1, <1>29, <2>1 DEF AfterReads, LaneReads
  <2>3. SharedTypeOK' /\ look' = look
    BY <1>1, <1>29, SharedUnchanged DEF AfterReads
  <2> QED BY <1>1, <2>2, <2>3 DEF Typed
<1>30. CASE AfterSaves(s)
  <2>1. store' \in State
    BY <1>2, <1>30 DEF AfterSaves, Known, State
  <2>2. SharedTypeOK' /\ look' = look
    BY <1>1, <1>5, <1>30, <2>1 DEF AfterSaves, SharedTypeOK, ghosts
  <2> QED BY <1>1, <1>5, <1>30, <2>2 DEF AfterSaves, Typed
<1> QED BY <1>7, <1>8, <1>9, <1>10, <1>11, <1>12, <1>13, <1>14, <1>15, <1>16, <1>17, <1>18, <1>19,
           <1>20, <1>21, <1>22, <1>23, <1>24, <1>25, <1>26, <1>27, <1>28, <1>29, <1>30 DEF LaneStep

-----------------------------------------------------------------------------
LEMMA DyingTyped ==
  ASSUME Typed, NEW s \in Server, Dies(s), tally' \in [failures : Nat, crashes : Nat, stops : Nat]
  PROVE  Typed'
<1>1. lane' \in [Server -> Lanes] /\ look' \in [Server -> Looks]
  BY NoLaneIsLane, NoLookIsLook DEF Typed, Dies
<1>2. mode' \in [Server -> {"down", "up", "stopping", "late"}] /\ busyUntil' \in [Server -> Nat]
  BY DEF Typed, SharedTypeOK, Dies, Null
<1>3. lock' \in [Slots -> Server \cup {NoServer, DeadServer}]
  BY DEF Typed, SharedTypeOK, Dies
<1>4. SharedTypeOK'
  BY <1>2, <1>3 DEF Typed, SharedTypeOK, Dies, ghosts
<1> QED BY <1>1, <1>4 DEF Typed

LEMMA ProcessStepTyped ==
  ASSUME Typed, NEW s \in Server, ProcessStep(s)
  PROVE  Typed'
<1>1. look \in [Server -> Looks] /\ lane \in [Server -> Lanes] /\ SharedTypeOK
  BY DEF Typed
<1>2. /\ mode \in [Server -> {"down", "up", "stopping", "late"}]
      /\ tally \in [failures : Nat, crashes : Nat, stops : Nat]
  BY <1>1 DEF SharedTypeOK
<1>3. CASE StartsUp(s)
  <2>1. mode' \in [Server -> {"down", "up", "stopping", "late"}]
    BY <1>2, <1>3 DEF StartsUp
  <2>2. SharedTypeOK' /\ look' = look /\ lane' = lane
    BY <1>1, <1>3, <2>1 DEF StartsUp, SharedTypeOK, durable, ghosts
  <2> QED BY <1>1, <2>2 DEF Typed
<1>4. CASE Stops(s)
  <2>1. mode' \in [Server -> {"down", "up", "stopping", "late"}]
    BY <1>2, <1>4 DEF Stops
  <2>2. tally' \in [failures : Nat, crashes : Nat, stops : Nat]
    BY <1>2, <1>4 DEF Stops
  <2>3. SharedTypeOK' /\ look' = look /\ lane' = lane
    BY <1>1, <1>4, <2>1, <2>2 DEF Stops, SharedTypeOK, durable, ghosts
  <2> QED BY <1>1, <2>3 DEF Typed
<1>5. CASE GraceEnds(s)
  <2>1. mode' \in [Server -> {"down", "up", "stopping", "late"}]
    BY <1>2, <1>5 DEF GraceEnds
  <2>2. lane[s].pc = "work" => [lane[s] EXCEPT !.pc = "handRead", !.byGrace = TRUE] \in Lanes
    BY <1>1 DEF Lanes, Lane, HoldingPc
  <2>3. lane' \in [Server -> Lanes]
    BY <1>1, <1>5, <2>2 DEF GraceEnds
  <2>4. SharedTypeOK' /\ look' = look
    BY <1>1, <1>5, <2>1 DEF GraceEnds, SharedTypeOK, durable, ghosts
  <2> QED BY <1>1, <2>3, <2>4 DEF Typed
<1>6. CASE Leaves(s)
  BY <1>2, <1>6, DyingTyped DEF Leaves
<1>7. CASE Crashes(s)
  <2>1. tally' \in [failures : Nat, crashes : Nat, stops : Nat]
    BY <1>2, <1>7 DEF Crashes
  <2> QED BY <1>7, <2>1, DyingTyped DEF Crashes
<1> QED BY <1>3, <1>4, <1>5, <1>6, <1>7 DEF ProcessStep

LEMMA TypedInit == Init => Typed
<1> SUFFICES ASSUME Init PROVE Typed
  OBVIOUS
<1>1. look \in [Server -> Looks] /\ lane \in [Server -> Lanes]
  BY NoLookIsLook, NoLaneIsLane DEF Init
<1>2. SharedTypeOK
  BY NoStateIsState DEF Init, SharedTypeOK, Null
<1> QED BY <1>1, <1>2 DEF Typed

LEMMA TypedStep == Typed /\ [Next]_vars => Typed'
<1> SUFFICES ASSUME Typed, [Next]_vars PROVE Typed'
  OBVIOUS
<1>1. CASE \E s \in Server : LookStep(s) \/ LaneStep(s) \/ ProcessStep(s)
  BY <1>1, LookStepTyped, LaneStepTyped, ProcessStepTyped
<1>2. CASE \E t \in Slots : LeaseExpires(t)
  <2>1. lock' \in [Slots -> Server \cup {NoServer, DeadServer}]
    BY <1>2 DEF LeaseExpires, Typed, SharedTypeOK
  <2> QED BY <1>2, <2>1 DEF LeaseExpires, Typed, SharedTypeOK, ghosts
<1>3. CASE Tick
  BY <1>3 DEF Tick, Typed, SharedTypeOK, durable, ghosts
<1>4. CASE UNCHANGED vars
  BY <1>4 DEF vars, Typed, SharedTypeOK, durable, ghosts
<1> QED BY <1>1, <1>2, <1>3, <1>4 DEF Next

(* Every state the scheduler reads, copies or writes back is well formed,  *)
(* and so are its records, locks and counts.                               *)
THEOREM SchedulerTypeCorrect == Spec => []TypeOK
<1>1. Typed => TypeOK
  BY DEF Typed, TypeOK, Looks, Lanes
<1> QED BY <1>1, TypedInit, TypedStep, PTL DEF Spec

-----------------------------------------------------------------------------
(* Two servers never have the same slot in hand.                           *)

(* LockBacked for one server. *)
Backed(p) == /\ InHand(p) => lock[lane[p].slot] = p
             /\ look[p].pc = "probed" => lock[Unfinished(p).slot] = p
             /\ lane[p].pc # "idle" => look[p].pc = "idle"

(* What is left of a server's claims when a step of s leaves its lane, its *)
(* look and whatever locks it has.                                         *)
LEMMA BackedKept ==
  ASSUME Typed, NEW p \in Server, Backed(p), lane'[p] = lane[p], look'[p] = look[p],
         \A t \in Slots : lock[t] = p => lock'[t] = p
  PROVE  Backed(p)'
<1>1. InHand(p) => lane[p].slot \in Slots
  BY DEF Typed, Lanes, InHand
<1>2. look[p].pc = "probed" => Unfinished(p).slot \in Slots
  BY DEF Typed, Looks, Unfinished, Run
<1> QED BY <1>1, <1>2 DEF Backed, InHand, Unfinished

LEMMA DrainStartsBacked ==
  ASSUME Typed, LockBacked, NEW s \in Server, NEW p \in Server, NEW items, NEW slot, NEW resume, NEW after,
         StartsDrain(s, items, slot, resume, after)
  PROVE  Backed(p)'
<1>1. look \in [Server -> Look] /\ lane \in [Server -> Lane] /\ lock' = lock
  BY DEF Typed, Looks, Lanes, StartsDrain, durable
<1>2. Backed(p)
  BY DEF LockBacked, Backed
<1>3. CASE p # s
  BY <1>1, <1>2, <1>3, BackedKept DEF StartsDrain, LookEnds
<1>4. CASE p = s
  <2>1. look'[s].pc = "idle"
    BY <1>1 DEF StartsDrain, LookEnds, NoLook
  <2>2. CASE lane' = lane
    BY <1>1, <1>2, <1>4, <2>1, <2>2 DEF Backed, InHand
  <2>3. CASE lane' = [lane EXCEPT ![s] = [NoLane EXCEPT !.pc = "turn", !.todo = items, !.slot = slot,
                                                       !.resume = resume, !.after = after]]
    <3>1. [NoLane EXCEPT !.pc = "turn", !.todo = items, !.slot = slot,
                         !.resume = resume, !.after = after].pc = "turn"
      BY DEF NoLane
    <3>2. lane'[s].pc = "turn"
      BY <1>1, <2>3, <3>1
    <3> QED BY <1>4, <2>1, <3>2 DEF Backed, InHand, HoldingPc
  <2> QED BY <2>2, <2>3 DEF StartsDrain
<1> QED BY <1>3, <1>4

LEMMA LookStepBacked ==
  ASSUME Typed, LockBacked, NEW s \in Server, LookStep(s), NEW p \in Server
  PROVE  Backed(p)'
<1>1. /\ look \in [Server -> Look] /\ lane \in [Server -> Lane]
      /\ lock \in [Slots -> Server \cup {NoServer, DeadServer}]
  BY DEF Typed, SharedTypeOK, Looks, Lanes
<1>2. Backed(p) /\ Backed(s)
  BY DEF LockBacked, Backed
<1> USE DEF Backed, InHand, Unfinished, Look
<1>3. CASE LookStarts(s)
  BY <1>1, <1>2, <1>3 DEF LookStarts, NoLook, durable
<1>4. CASE Adopts(s)
  BY <1>1, <1>2, <1>4 DEF Adopts, LookEnds, NoLook
<1>5. CASE LeavesRunning(s)
  BY <1>1, <1>2, <1>5 DEF LeavesRunning, LookEnds, NoLook, durable
<1>6. CASE ProbesLock(s)
  <2> DEFINE t == Unfinished(s).slot
  <2>1. t \in Slots /\ lock' = [lock EXCEPT ![t] = s] /\ lock[t] \in {NoServer, s}
    <3>1. look[s].snap.current \in Run0 /\ look[s].snap.current.status = "running"
      BY <1>1, <1>6 DEF ProbesLock, State
    <3>2. look[s].snap.current \in Run
      BY <3>1 DEF Run0, NoRun
    <3> QED BY <1>6, <3>2 DEF ProbesLock, Taken, Takeable, Run
  <2>2. lane' = lane /\ look' = [look EXCEPT ![s].pc = "probed"] /\ look[s].pc = "seen"
    BY <1>6 DEF ProbesLock, LookGoes, Seen
  <2>3. CASE p # s
    (* The slot was free or s's own, so p loses no lock. *)
    <3>1. \A u \in Slots : lock[u] = p => lock'[u] = p
      BY <1>1, <2>1, <2>3, OwnersAssumption
    <3> QED BY <1>1, <1>2, <2>2, <2>3, <3>1, BackedKept
  <2>4. CASE p = s
    (* Its look is under way, so s has no drain. *)
    <3>1. lane[s].pc = "idle"
      BY <1>2, <2>2
    <3>2. lock'[t] = s
      BY <1>1, <2>1
    <3>3. look'[s].snap = look[s].snap
      BY <1>1, <2>2
    <3> QED BY <2>2, <2>4, <3>1, <3>2, <3>3 DEF HoldingPc
  <2> QED BY <2>3, <2>4
<1>7. CASE ReleasesProbe(s)
  <2>1. /\ lane' = lane /\ look' = [look EXCEPT ![s].pc = "cutOffRead"] /\ look[s].pc = "probed"
        /\ lock' = IF lock[Unfinished(s).slot] = s THEN [lock EXCEPT ![Unfinished(s).slot] = NoServer] ELSE lock
    BY <1>7 DEF ReleasesProbe, LookGoes, Released
  <2>2. CASE p # s
    <3>1. \A u \in Slots : lock[u] = p => lock'[u] = p
      BY <1>1, <2>1, <2>2
    <3> QED BY <1>1, <1>2, <2>1, <2>2, <3>1, BackedKept
  <2>3. CASE p = s
    <3>1. lane[s].pc = "idle"
      BY <1>2, <2>1
    <3> QED BY <1>1, <2>1, <2>3, <3>1 DEF HoldingPc
  <2> QED BY <2>2, <2>3
<1>8. CASE CutOffReads(s)
  BY <1>1, <1>2, <1>8 DEF CutOffReads, durable
<1>9. CASE CutOffSaves(s)
  BY <1>1, <1>2, <1>9 DEF CutOffSaves, LookGoes
<1>10. CASE CutOffRecords(s)
  BY <1>1, <1>2, <1>10 DEF CutOffRecords, LookGoes, LookEnds, NoLook
<1>11. CASE ResumesInterrupted(s)
  BY <1>11, DrainStartsBacked DEF ResumesInterrupted
<1>12. CASE WaitsForRetry(s)
  BY <1>1, <1>2, <1>12 DEF WaitsForRetry, LookEnds, NoLook, durable
<1>13. CASE Retries(s)
  BY <1>13, DrainStartsBacked DEF Retries
<1>14. CASE NothingDue(s)
  BY <1>1, <1>2, <1>14 DEF NothingDue, LookEnds, NoLook, durable
<1>15. CASE ChoosesSlots(s)
  BY <1>1, <1>2, <1>15, SMTT(30) DEF ChoosesSlots, OnToSlots, Seen, durable
<1>16. CASE RecordsSkipped(s)
  BY <1>1, <1>2, <1>16 DEF RecordsSkipped
<1>17. CASE MovesOn(s)
  BY <1>1, <1>2, <1>17 DEF MovesOn, LookEnds, NoLook
<1>18. CASE Drains(s)
  BY <1>18, DrainStartsBacked DEF Drains
<1> QED BY <1>3, <1>4, <1>5, <1>6, <1>7, <1>8, <1>9, <1>10, <1>11, <1>12, <1>13, <1>14, <1>15,
           <1>16, <1>17, <1>18 DEF LookStep

LEMMA LaneStepBacked ==
  ASSUME Typed, LockBacked, NEW s \in Server, LaneStep(s), NEW p \in Server
  PROVE  Backed(p)'
<1>1. /\ look \in [Server -> Look] /\ lane \in [Server -> Lane]
      /\ lock \in [Slots -> Server \cup {NoServer, DeadServer}]
  BY DEF Typed, SharedTypeOK, Looks, Lanes
<1>2. Backed(p) /\ Backed(s)
  BY DEF LockBacked, Backed
<1> USE DEF Backed, InHand, HoldingPc, Unfinished, Lane
<1>3. CASE TurnReads(s)
  BY <1>1, <1>2, <1>3 DEF TurnReads, durable
<1>4. CASE TurnSaves(s)
  BY <1>1, <1>2, <1>4 DEF TurnSaves, LaneGoes
<1>5. CASE LeavesSlot(s)
  BY <1>1, <1>2, <1>5 DEF LeavesSlot, LaneEnds, NoLane, durable
<1>6. CASE SlotIsHeld(s)
  BY <1>1, <1>2, <1>6 DEF SlotIsHeld, AtTake, NextTurn, durable
<1>7. CASE TakesSlot(s)
  <2> DEFINE t == lane[s].slot
  <2>1. /\ look' = look /\ lane' = [lane EXCEPT ![s].pc = "beginRead"]
        /\ lane[s].pc # "idle" /\ lock' = [lock EXCEPT ![t] = s] /\ lock[t] \in {NoServer, s}
    BY <1>7 DEF TakesSlot, AtTake, Taken, Takeable
  <2>2. CASE p # s
    (* The slot was free or s's own, so p loses no lock. *)
    <3>1. \A u \in Slots : lock[u] = p => lock'[u] = p
      BY <1>1, <2>1, <2>2, OwnersAssumption
    <3> QED BY <1>1, <1>2, <2>1, <2>2, <3>1, BackedKept
  <2>3. CASE p = s
    <3>1. t \in Slots
      BY <1>7 DEF TakesSlot, AtTake, Typed, Lanes
    <3>2. lock'[t] = s /\ lane'[s].slot = t
      BY <1>1, <2>1, <3>1
    <3> QED BY <1>1, <1>2, <2>1, <2>3, <3>2
  <2> QED BY <2>2, <2>3
<1>8. CASE BeginReads(s)
  BY <1>1, <1>2, <1>8 DEF BeginReads, durable
<1>9. CASE BeginSaves(s)
  BY <1>1, <1>2, <1>9 DEF BeginSaves, LaneGoes
<1>10. CASE BeginRecords(s)
  BY <1>1, <1>2, <1>10 DEF BeginRecords, LaneGoes
<1>11. CASE Succeeds(s)
  BY <1>1, <1>2, <1>11 DEF Succeeds, LaneGoes, durable
<1>12. CASE Fails(s)
  BY <1>1, <1>2, <1>12 DEF Fails, LaneGoes, durable
<1>13. CASE Interrupted(s)
  BY <1>1, <1>2, <1>13 DEF Interrupted, LaneGoes, durable
<1>14. CASE DoneReads(s)
  BY <1>1, <1>2, <1>14 DEF DoneReads, LaneReads, durable
<1>15. CASE DoneSaves(s)
  BY <1>1, <1>2, <1>15 DEF DoneSaves, LaneGoes
<1>16. CASE DoneRecords(s)
  BY <1>1, <1>2, <1>16 DEF DoneRecords, LaneGoes
<1>17. CASE FailReads(s)
  BY <1>1, <1>2, <1>17 DEF FailReads, durable
<1>18. CASE FailSaves(s)
  BY <1>1, <1>2, <1>18 DEF FailSaves, LaneGoes
<1>19. CASE FailRecords(s)
  BY <1>1, <1>2, <1>19 DEF FailRecords, LaneGoes
<1>20. CASE HandReads(s)
  BY <1>1, <1>2, <1>20 DEF HandReads, durable
<1>21. CASE HandSaves(s)
  BY <1>1, <1>2, <1>21 DEF HandSaves, LaneGoes
<1>22. CASE HandRecords(s)
  BY <1>1, <1>2, <1>22 DEF HandRecords, LaneGoes
<1>23. CASE ReleasesSlot(s)
  <2>1. /\ look' = look /\ lane[s].pc = "release"
        /\ lock' = IF lock[lane[s].slot] = s THEN [lock EXCEPT ![lane[s].slot] = NoServer] ELSE lock
    BY <1>23 DEF ReleasesSlot, Released
  <2>2. lane'[s].pc \in {"turn", "idle"} /\ (p # s => lane'[p] = lane[p])
    BY <1>1, <1>23 DEF ReleasesSlot, NextTurn, LaneEnds, NoLane
  <2>3. CASE p # s
    <3>1. \A u \in Slots : lock[u] = p => lock'[u] = p
      BY <1>1, <2>1, <2>3
    <3> QED BY <1>1, <1>2, <2>1, <2>2, <2>3, <3>1, BackedKept
  <2>4. CASE p = s
    BY <1>2, <2>1, <2>2, <2>4
  <2> QED BY <2>3, <2>4
<1>24. CASE DrainEnds(s)
  BY <1>1, <1>2, <1>24 DEF DrainEnds, LaneEnds, NoLane, durable
<1>25. CASE AfterReads(s)
  BY <1>1, <1>2, <1>25 DEF AfterReads, LaneReads, durable
<1>26. CASE AfterSaves(s)
  BY <1>1, <1>2, <1>26 DEF AfterSaves, LaneEnds, NoLane
<1> QED BY <1>3, <1>4, <1>5, <1>6, <1>7, <1>8, <1>9, <1>10, <1>11, <1>12, <1>13, <1>14, <1>15,
           <1>16, <1>17, <1>18, <1>19, <1>20, <1>21, <1>22, <1>23, <1>24, <1>25, <1>26 DEF LaneStep

LEMMA ProcessStepBacked ==
  ASSUME Typed, LockBacked, NEW s \in Server, ProcessStep(s), NEW p \in Server
  PROVE  Backed(p)'
<1>1. /\ look \in [Server -> Look] /\ lane \in [Server -> Lane]
      /\ lock \in [Slots -> Server \cup {NoServer, DeadServer}]
  BY DEF Typed, SharedTypeOK, Looks, Lanes
<1>2. Backed(p) /\ Backed(s)
  BY DEF LockBacked, Backed
<1>3. ASSUME Dies(s)  PROVE Backed(p)'
  <2>1. CASE p # s
    BY <1>1, <1>2, <1>3, <2>1, BackedKept DEF Dies
  <2>2. CASE p = s
    BY <1>1, <1>3, <2>2 DEF Dies, Backed, InHand, HoldingPc, NoLane, NoLook
  <2> QED BY <2>1, <2>2
<1>4. CASE StartsUp(s)
  BY <1>2, <1>4, BackedKept DEF StartsUp, durable
<1>5. CASE Stops(s)
  BY <1>2, <1>5, BackedKept DEF Stops, durable
<1>6. CASE GraceEnds(s)
  BY <1>1, <1>2, <1>6 DEF GraceEnds, durable, Backed, InHand, HoldingPc, Unfinished, Lane
<1> QED BY <1>3, <1>4, <1>5, <1>6 DEF ProcessStep, Leaves, Crashes

LEMMA LockBackedStep == Typed /\ LockBacked /\ [Next]_vars => LockBacked'
<1> SUFFICES ASSUME Typed, LockBacked, [Next]_vars, NEW p \in Server PROVE Backed(p)'
  BY DEF LockBacked, Backed
<1>1. Backed(p)
  BY DEF LockBacked, Backed
<1>2. CASE \E s \in Server : LookStep(s) \/ LaneStep(s) \/ ProcessStep(s)
  BY <1>2, LookStepBacked, LaneStepBacked, ProcessStepBacked
<1>3. CASE \E t \in Slots : LeaseExpires(t)
  (* Only the lock of a dead process runs out. *)
  <2>1. lock \in [Slots -> Server \cup {NoServer, DeadServer}]
    BY DEF Typed, SharedTypeOK
  <2>2. \A u \in Slots : lock[u] = p => lock'[u] = p
    BY <1>3, <2>1, OwnersAssumption DEF LeaseExpires
  <2> QED BY <1>1, <1>3, <2>2, BackedKept DEF LeaseExpires
<1>4. CASE Tick
  BY <1>1, <1>4, BackedKept DEF Tick, durable
<1>5. CASE UNCHANGED vars
  BY <1>1, <1>5, BackedKept DEF vars, durable
<1> QED BY <1>2, <1>3, <1>4, <1>5 DEF Next

(* Whoever has a slot in hand is named by its lock, and so is whoever      *)
(* probes one, and a process never looks while it drains: the invariant    *)
(* that makes the slot lock exclude.                                       *)
THEOREM SchedulerLockBacked == Spec => []LockBacked
<1>1. Init => LockBacked
  BY DEF Init, LockBacked, InHand, HoldingPc, NoLane, NoLook
<1> QED BY <1>1, TypedInit, TypedStep, LockBackedStep, PTL DEF Spec

(* Two servers never have the same slot in hand, from takeLock to          *)
(* releaseLock, whatever they read, write, probe or leave behind.          *)
THEOREM SchedulerExcludes == Spec => []SlotLockExcludes
<1>1. LockBacked => SlotLockExcludes
  BY DEF LockBacked, SlotLockExcludes
<1> QED BY <1>1, SchedulerLockBacked, PTL

-----------------------------------------------------------------------------
(* One server.  No process is cut off while it runs a slot, *)
NeverCutOff == MaxCrashes = 0 /\ ~SlowStore

(* or whatever is cut off, failed or stopped, attempts are left. *)
AttemptsToSpare == MaxFailures + MaxCrashes + MaxStops < MaxAttempts

Final == {"done", "failed"}

(* The lane's run is the one the state names as running. *)
RunPc == {"beginRecord", "work", "doneRead", "doneSave", "failRead", "failSave", "handRead", "handSave"}

(* Nobody else writes: the copies are the state. *)
CopiesInv(s) ==
  /\ lane[s].pc \in {"turnSave", "beginSave", "doneSave", "failSave", "handSave", "afterSave"} => lane[s].snap = store
  /\ look[s].pc \in {"seen", "probed", "cutOffRead", "cutOffSave", "chosen"} => look[s].snap = store
  /\ look[s].pc = "cutOffSave" => look[s].fresh = store
  /\ look[s].pc # "due"
  /\ look[s].at <= now

(* The run the state names is of the next slot, and has attempts left. *)
CurrentInv ==
  store.current # NoRun =>
    /\ store.known /\ store.next = store.current.slot
    /\ store.current.status \in {"running", "failed", "interrupted"}
    /\ store.current.attempt \in 1 .. MaxAttempts
    /\ store.current.status = "failed" => store.current.retryAt # Null /\ store.current.attempt < MaxAttempts
    /\ store.current.status # "failed" => store.current.retryAt = Null

(* What is final is behind the next slot, and what was started is final or  *)
(* the run the state names.                                                *)
PastInv == \A t \in Slots :
  /\ outcome[t] \in Final => store.known /\ (store.next = Null \/ t < store.next)
  /\ starts[t] = 0 \/ outcome[t] \in Final \/ t = store.current.slot

LookInv(s) ==
  /\ look[s].pc \in {"probed", "cutOffRead", "cutOffSave", "cutOffRecord"} =>
       look[s].snap.current.status = "running" /\ look[s].snap.current.attempt < MaxAttempts
  /\ look[s].pc = "chosen" =>
       /\ store.known /\ store.current = NoRun /\ store.next # Null /\ store.next <= look[s].at
       /\ \A t \in look[s].run \cup look[s].skip : store.next <= t /\ t <= look[s].at

AtSlot(s) == lane[s].pc \in HoldingPc \cup {"turnSave", "take"} \/ (lane[s].pc = "turn" /\ lane[s].resume # NoRun)

(* What a drain has before it is at or after the next slot. *)
TodoInv(s) ==
  /\ IF lane[s].pc = "idle" THEN lane[s] = NoLane ELSE store.known
  /\ lane[s].after # Null =>
       store.next # Null /\ store.next <= lane[s].after /\ \A t \in lane[s].todo : t < lane[s].after
  /\ lane[s].resume # NoRun =>
       lane[s].after = Null /\ lane[s].todo = {lane[s].slot} /\ lane[s].pc \notin {"turnSave", "take", "afterSave"}
  /\ AtSlot(s) => lane[s].slot \in lane[s].todo /\ \A t \in lane[s].todo : lane[s].slot <= t
  /\ lane[s].pc = "turn" /\ lane[s].resume = NoRun => \A t \in lane[s].todo : store.next # Null /\ store.next <= t
  /\ lane[s].pc = "turnSave" => store.next # Null /\ store.next <= lane[s].slot
  /\ lane[s].pc \in {"take", "beginRead", "beginSave"} => store.next = lane[s].slot
  /\ lane[s].pc = "afterSave" => lane[s].after # Null /\ lane[s].todo = {}

(* The run of a drain and the run the state names. *)
RunInv(s) ==
  /\ lane[s].pc \in {"turn", "turnSave", "take", "beginRead", "beginSave", "afterSave"} /\ lane[s].resume = NoRun
       /\ (lane[s].todo # {} \/ lane[s].after # Null) => store.current = NoRun
  /\ lane[s].pc \in {"turn", "beginRead", "beginSave"} /\ lane[s].resume # NoRun =>
       /\ store.current.slot = lane[s].slot /\ lane[s].resume.slot = lane[s].slot
       /\ store.current.status \in {"interrupted", "failed"}
       /\ lane[s].resume.attempt = store.current.attempt + (IF store.current.status = "failed" THEN 1 ELSE 0)
  /\ lane[s].pc = "beginSave" =>
       /\ lane[s].record.slot = lane[s].slot /\ lane[s].record.status = "running" /\ lane[s].record.retryAt = Null
       /\ lane[s].record.attempt = IF lane[s].resume = NoRun THEN 1 ELSE lane[s].resume.attempt
  /\ lane[s].pc \in RunPc => store.current.slot = lane[s].slot /\ store.current.status = "running"
  /\ lane[s].pc \in RunPc \ {"failSave", "handSave"} => lane[s].record = store.current
  /\ lane[s].pc = "failSave" => \E t \in Nat : lane[s].record = FailedAt(store.current, t)
  /\ lane[s].pc = "handSave" => lane[s].record = [store.current EXCEPT !.status = "interrupted"]
  /\ lane[s].pc = "doneRecord" => lane[s].record.status = "running" /\ lane[s].record.retryAt = Null
  /\ lane[s].pc = "handRecord" => lane[s].record.status = "interrupted"
  /\ lane[s].pc \in {"doneRecord", "failRecord", "handRecord", "release"} =>
       IF GoesOn(s)
       THEN store.current = NoRun /\ store.next = NextSlot(lane[s].slot) /\ outcome[lane[s].slot] \in Final
       ELSE store.current = lane[s].record /\ lane[s].record.slot = lane[s].slot

(* How many stops ended. *)
Ended(s) == tally.stops - (IF mode[s] \in {"stopping", "late"} THEN 1 ELSE 0)

(* How often an attempt failed or can have been cut off. *)
Spent(s) == tally.failures + tally.crashes + Ended(s)

(* No run is cut off when no process dies in it; otherwise attempts are    *)
(* counted against what failed or cut them off.                            *)
CutOffInv(s) == NeverCutOff =>
  /\ store.current.status = "running" => lane[s].pc \in RunPc
  /\ mode[s] = "late" => lane[s].pc = "idle" \/ lane[s].byGrace
  /\ lane[s].byGrace => /\ lane[s].pc \in {"handRead", "handSave", "handRecord", "release"}
                        /\ lane[s].pc # "handRead" => lane[s].record.status = "interrupted"

SpentInv(s) == AttemptsToSpare =>
  /\ tally.failures <= MaxFailures /\ tally.crashes <= MaxCrashes /\ tally.stops <= MaxStops
  /\ store.current # NoRun => store.current.attempt <= Spent(s) + 1
  /\ (\/ store.current.status = "failed"
      \/ store.current.status = "running" /\ lane[s].pc \notin RunPc \ {"failRead", "failSave"})
     => store.current.attempt <= Spent(s)
  /\ lane[s].resume # NoRun => lane[s].resume.attempt <= Spent(s) + 1

(* A slot was started once for each attempt and each stop. *)
StartsInv(s) ==
  /\ mode[s] \in {"stopping", "late"} => tally.stops > 0
  /\ lane[s].pc # "idle" => mode[s] # "down"
  /\ lane[s].pc \in {"handRead", "handSave"} => mode[s] # "up"
  /\ \A t \in Slots : outcome[t] \in Final => starts[t] <= MaxAttempts + tally.stops
  /\ store.current # NoRun => starts[store.current.slot] <= store.current.attempt + Ended(s)
  /\ store.current.status = "interrupted" /\ mode[s] \in {"up", "down"} =>
       starts[store.current.slot] < store.current.attempt + Ended(s)
  /\ lane[s].pc = "beginRecord" => starts[lane[s].slot] < store.current.attempt + Ended(s)
  /\ lane[s].pc \in {"turn", "beginRead", "beginSave"} /\ lane[s].resume # NoRun =>
       starts[lane[s].slot] < lane[s].resume.attempt + Ended(s)

OneInv(s) == /\ CopiesInv(s) /\ LookInv(s) /\ TodoInv(s) /\ RunInv(s)
             /\ CurrentInv /\ PastInv
             /\ CutOffInv(s) /\ SpentInv(s) /\ StartsInv(s)


LEMMA KnownState ==
  ASSUME NEW state \in State, state.known
  PROVE  Known(state) = state
  BY DEF Known, State

LEMMA NoRunIsNone == NoRun.status = "none" /\ NoRun.slot = Null /\ NoRun.retryAt = Null /\ NoRun.attempt = 0 /\ NoRun \notin Run
<1>1. NoRun.status = "none" /\ \A r \in Run : r.status # "none"
  BY DEF NoRun, Run
<1> QED BY <1>1 DEF NoRun

LEMMA LaterIsMore ==
  ASSUME NEW a \in Nat, NEW b \in Nat, a <= b, b # a
  PROVE  b > a
  OBVIOUS

(* A run begins as a new one, or as the one it resumes. *)
LEMMA BegunRun ==
  ASSUME NEW s \in Server, Typed, OneInv(s), BeginReads(s)
  PROVE  \E r \in Run : /\ lane' = [lane EXCEPT ![s].pc = "beginSave", ![s].snap = store, ![s].record = r]
                        /\ r.slot = lane[s].slot /\ r.status = "running" /\ r.retryAt = Null
                        /\ r.attempt = IF lane[s].resume = NoRun THEN 1 ELSE lane[s].resume.attempt
<1> DEFINE r == [(IF lane[s].resume = NoRun
                  THEN [NoRun EXCEPT !.slot = lane[s].slot, !.nth = made[lane[s].slot] + 1, !.attempt = 1]
                  ELSE [lane[s].resume EXCEPT !.retryAt = Null]) EXCEPT !.status = "running"]
<1>1. lane' = [lane EXCEPT ![s].pc = "beginSave", ![s].snap = store, ![s].record = r]
  BY DEF BeginReads
<1>2. CASE lane[s].resume = NoRun
  <2>1. r.slot = lane[s].slot /\ r.status = "running" /\ r.retryAt = Null /\ r.attempt = 1
    BY <1>2 DEF NoRun
  <2>2. lane[s].slot \in Slots /\ made[lane[s].slot] + 1 \in Nat
    BY DEF BeginReads, Typed, SharedTypeOK, Lanes, HoldingPc
  <2>3. r = [[NoRun EXCEPT !.slot = lane[s].slot, !.nth = made[lane[s].slot] + 1, !.attempt = 1] EXCEPT !.status = "running"]
    BY <1>2
  <2> HIDE DEF r
  <2>4. r \in Run
    BY <2>2, <2>3, NewRunIsRun
  <2> QED BY <1>1, <1>2, <2>1, <2>4
<1>3. CASE lane[s].resume # NoRun
  <2>1. lane[s].resume \in Run /\ lane[s].resume.slot = lane[s].slot
    <3>1. lane[s].resume \in Run0 /\ lane[s].pc = "beginRead"
      BY DEF BeginReads, Typed, Lanes, Lane
    <3> QED BY <1>3, <3>1 DEF OneInv, RunInv, Run0
  <2>2. r = [[lane[s].resume EXCEPT !.retryAt = Null] EXCEPT !.status = "running"]
    BY <1>3
  <2> HIDE DEF r
  <2>3. r \in Run /\ r.slot = lane[s].slot /\ r.status = "running" /\ r.retryAt = Null /\ r.attempt = lane[s].resume.attempt
    BY <2>1, <2>2 DEF Run, Null
  <2> QED BY <1>1, <1>3, <2>3
<1> QED BY <1>2, <1>3

LEMMA LaneStepOne ==
  ASSUME NEW s \in Server, Typed, Backed(s), OneInv(s), LaneStep(s)
  PROVE  OneInv(s)'
<1>1. /\ lane \in [Server -> Lane] /\ look \in [Server -> Look] /\ store \in State
      /\ starts \in [Slots -> Nat] /\ now \in Nat /\ outcome \in [Slots -> {"open", "before", "done", "failed", "skipped"}]
      /\ mode \in [Server -> {"down", "up", "stopping", "late"}] /\ tally \in [failures : Nat, crashes : Nat, stops : Nat]
  BY DEF Typed, SharedTypeOK, Lanes, Looks
<1>2. /\ Slots \subseteq Nat /\ Null = 0 /\ 0 \notin Slots
      /\ NoRun.status = "none" /\ NoRun.slot = Null /\ NoRun.retryAt = Null /\ NoRun.attempt = 0 /\ NoRun \notin Run
      /\ MaxAttempts \in Nat \ {0}
  BY SlotsAssumption, AttemptsAssumption, NoRunIsNone DEF Null
<1>3. /\ lane[s].resume # NoRun => lane[s].slot \in Slots
      /\ lane[s].pc \in HoldingPc \cup {"turnSave", "take"} => lane[s].slot \in Slots
      /\ lane[s].pc \in HoldingPc \ {"beginRead"} => lane[s].record \in Run
  BY DEF Typed, Lanes
<1>4. lane[s].pc # "idle" => Known(store) = store
  BY <1>1, KnownState DEF OneInv, TodoInv
<1>5. /\ NextSlot(lane[s].slot) \in Slots \cup {0}
      /\ lane[s].slot \in Slots =>
           /\ NextSlot(lane[s].slot) # Null => NextSlot(lane[s].slot) > lane[s].slot
           /\ \A t \in Slots : t > lane[s].slot => NextSlot(lane[s].slot) # Null /\ NextSlot(lane[s].slot) <= t
  <2>1. lane[s].slot \in Nat
    <3>1. lane[s] \in Lane
      BY <1>1
    <3>2. lane[s].slot \in Slot0
      BY <3>1 DEF Lane
    <3> QED BY <1>2, <3>2 DEF Slot0
  <2> DEFINE a == lane[s].slot
             n == NextSlot(a)
  <2>2. \/ n \in Slots /\ n > a /\ \A t \in Slots : t > a => t >= n
        \/ n = Null /\ \A t \in Slots : t <= a
    BY <2>1, NextSlotIsNext
  <2> HIDE DEF n
  <2>3. n \in Slots \cup {0} /\ (n # Null => n > a) /\ \A t \in Slots : t > a => n # Null /\ n <= t
    BY <1>2, <2>1, <2>2
  <2> QED BY <2>3 DEF n
<1>6. /\ NoLane.pc = "idle" /\ NoLane.after = Null /\ NoLane.resume = NoRun /\ NoLane.todo = {} /\ NoLane.byGrace = FALSE
  BY DEF NoLane
<1> USE <1>1, <1>2, <1>3, <1>6 DEF Backed, AtTake, OneInv, CopiesInv, LookInv, TodoInv, RunInv, CurrentInv, PastInv,
        CutOffInv, SpentInv, StartsInv, Ended, Spent, RunPc, HoldingPc, AtSlot, Lane, State, Run0, Run, Slot0, Final
<1>10. CASE TurnReads(s)
  <2>0. PICK o \in lane[s].todo : /\ lane[s].pc = "turn" /\ lane[s].resume = NoRun
                                  /\ \A t \in lane[s].todo : o <= t
                                  /\ lane' = [lane EXCEPT ![s].pc = "turnSave", ![s].slot = o, ![s].snap = store]
    BY <1>10 DEF TurnReads, IsOldest
  <2>1. /\ lane[s].pc = "turn" /\ lane[s].resume = NoRun /\ outcome' = outcome /\ starts' = starts
        /\ lane'[s] = [lane[s] EXCEPT !.pc = "turnSave", !.slot = o, !.snap = store] /\ store' = store
        /\ look' = look /\ mode' = mode /\ now' = now /\ tally' = tally
    <3>1. UNCHANGED <<store, outcome, starts, look, mode, now, tally>>
      BY <1>10 DEF TurnReads, durable, ghosts
    <3> QED BY <2>0, <3>1
  <2>2. CopiesInv(s)' /\ LookInv(s)'
    BY <2>1, <2>0
  <2>3. TodoInv(s)'
    BY <1>5, <2>1, <2>0
  <2>4. RunInv(s)'
    BY <2>1, <2>0 DEF GoesOn
  <2>5. CurrentInv'
    BY <2>1, <2>0
  <2>8. PastInv'
    BY <1>5, <2>1, <2>0
  <2>6. CutOffInv(s)' /\ SpentInv(s)'
    BY <2>1, <2>0
  <2>7. StartsInv(s)'
    BY <2>1, <2>0
  <2> QED BY <2>2, <2>3, <2>4, <2>5, <2>6, <2>7, <2>8
<1>11. CASE TurnSaves(s)
  <2>1. /\ lane[s].pc = "turnSave" /\ outcome' = outcome /\ starts' = starts
        /\ lane'[s] = [lane[s] EXCEPT !.pc = "take"] /\ store' = [store EXCEPT !.next = lane[s].slot]
        /\ look' = look /\ mode' = mode /\ now' = now /\ tally' = tally
    BY <1>1, <1>2, <1>3, <1>4, <1>11 DEF TurnSaves, LaneGoes, durable, ghosts
  <2>2. CopiesInv(s)' /\ LookInv(s)'
    BY <2>1
  <2>3. TodoInv(s)'
    BY <1>5, <2>1
  <2>4. RunInv(s)'
    BY <2>1 DEF GoesOn
  <2>5. CurrentInv'
    BY <2>1
  <2>8. PastInv'
    BY <1>5, <2>1
  <2>6. CutOffInv(s)' /\ SpentInv(s)'
    BY <2>1
  <2>7. StartsInv(s)'
    BY <2>1
  <2> QED BY <2>2, <2>3, <2>4, <2>5, <2>6, <2>7, <2>8
<1>12. CASE LeavesSlot(s)
  <2>1. /\ AtTake(s) /\ outcome' = outcome /\ starts' = starts
        /\ lane'[s] = NoLane /\ store' = store
        /\ look' = look /\ mode' = mode /\ now' = now /\ tally' = tally
    BY <1>1, <1>2, <1>3, <1>4, <1>12 DEF LeavesSlot, AtTake, LaneEnds, durable, ghosts
  <2>2. CopiesInv(s)' /\ LookInv(s)'
    BY <2>1
  <2>3. TodoInv(s)'
    BY <1>5, <2>1
  <2>4. RunInv(s)'
    BY <2>1 DEF GoesOn
  <2>5. CurrentInv'
    BY <2>1
  <2>8. PastInv'
    BY <1>5, <2>1
  <2>6. CutOffInv(s)' /\ SpentInv(s)'
    BY <2>1
  <2>7. StartsInv(s)'
    BY <2>1
  <2> QED BY <2>2, <2>3, <2>4, <2>5, <2>6, <2>7, <2>8
<1>13. CASE SlotIsHeld(s)
  <2>1. /\ AtTake(s) /\ outcome' = outcome /\ starts' = starts
        /\ lane'[s] = [lane[s] EXCEPT !.pc = "turn", !.todo = @ \ {lane[s].slot}, !.resume = NoRun] /\ store' = store
        /\ look' = look /\ mode' = mode /\ now' = now /\ tally' = tally
    BY <1>1, <1>2, <1>3, <1>4, <1>13 DEF SlotIsHeld, AtTake, NextTurn, durable, ghosts
  <2>2. CopiesInv(s)' /\ LookInv(s)'
    BY <2>1
  <2>3. TodoInv(s)'
    BY <1>5, <2>1
  <2>4. RunInv(s)'
    <3>1. CASE lane[s].pc = "take" /\ lane[s].resume = NoRun
      BY <2>1, <3>1
    <3>2. CASE lane[s].pc = "turn" /\ lane[s].resume # NoRun
      BY <2>1, <3>2
    <3> QED BY <2>1, <3>1, <3>2
  <2>5. CurrentInv'
    BY <2>1
  <2>8. PastInv'
    BY <1>5, <2>1
  <2>6. CutOffInv(s)' /\ SpentInv(s)'
    BY <2>1
  <2>7. StartsInv(s)'
    BY <2>1
  <2> QED BY <2>2, <2>3, <2>4, <2>5, <2>6, <2>7, <2>8
<1>14. CASE TakesSlot(s)
  <2>1. /\ AtTake(s) /\ outcome' = outcome /\ starts' = starts
        /\ lane'[s] = [lane[s] EXCEPT !.pc = "beginRead"] /\ store' = store
        /\ look' = look /\ mode' = mode /\ now' = now /\ tally' = tally
    BY <1>1, <1>2, <1>3, <1>4, <1>14 DEF TakesSlot, AtTake, durable, ghosts
  <2>2. CopiesInv(s)' /\ LookInv(s)'
    BY <2>1
  <2>3. TodoInv(s)'
    BY <1>5, <2>1
  <2>4. RunInv(s)'
    <3>1. CASE lane[s].pc = "take" /\ lane[s].resume = NoRun
      BY <2>1, <3>1
    <3>2. CASE lane[s].pc = "turn" /\ lane[s].resume # NoRun
      BY <2>1, <3>2
    <3> QED BY <2>1, <3>1, <3>2
  <2>5. CurrentInv'
    BY <2>1
  <2>8. PastInv'
    BY <1>5, <2>1
  <2>6. CutOffInv(s)' /\ SpentInv(s)'
    BY <2>1
  <2>7. StartsInv(s)'
    BY <2>1
  <2> QED BY <2>2, <2>3, <2>4, <2>5, <2>6, <2>7, <2>8
<1>15. CASE BeginReads(s)
  <2>0. PICK r \in Run : /\ lane' = [lane EXCEPT ![s].pc = "beginSave", ![s].snap = store, ![s].record = r]
                         /\ r.slot = lane[s].slot /\ r.status = "running" /\ r.retryAt = Null
                         /\ r.attempt = IF lane[s].resume = NoRun THEN 1 ELSE lane[s].resume.attempt
    BY <1>15, BegunRun, Zenon
  <2>1. /\ lane[s].pc = "beginRead" /\ outcome' = outcome /\ starts' = starts
        /\ lane'[s] = [lane[s] EXCEPT !.pc = "beginSave", !.snap = store, !.record = r] /\ store' = store
        /\ look' = look /\ mode' = mode /\ now' = now /\ tally' = tally
    <3>1. lane[s].pc = "beginRead" /\ UNCHANGED <<store, outcome, starts, look, mode, now, tally>>
      BY <1>15 DEF BeginReads, durable, ghosts
    <3> QED BY <1>1, <2>0, <3>1
  <2>2. CopiesInv(s)' /\ LookInv(s)'
    BY <2>1, <2>0
  <2>3. TodoInv(s)'
    BY <1>5, <2>1, <2>0
  <2>4. RunInv(s)'
    BY <2>1, <2>0 DEF GoesOn
  <2>5. CurrentInv'
    BY <2>1, <2>0
  <2>8. PastInv'
    BY <1>5, <2>1, <2>0
  <2>6. CutOffInv(s)' /\ SpentInv(s)'
    BY <2>1, <2>0
  <2>7. StartsInv(s)'
    BY <2>1, <2>0
  <2> QED BY <2>2, <2>3, <2>4, <2>5, <2>6, <2>7, <2>8
<1>16. CASE BeginSaves(s)
  <2>1. /\ lane[s].pc = "beginSave" /\ outcome' = outcome /\ starts' = starts
        /\ lane'[s] = [lane[s] EXCEPT !.pc = "beginRecord"] /\ store' = [store EXCEPT !.current = lane[s].record]
        /\ look' = look /\ mode' = mode /\ now' = now /\ tally' = tally
    BY <1>1, <1>2, <1>3, <1>4, <1>16 DEF BeginSaves, LaneGoes, durable, ghosts
  <2>2. CopiesInv(s)' /\ LookInv(s)'
    BY <2>1
  <2>3. TodoInv(s)'
    BY <1>5, <2>1
  <2>4. RunInv(s)'
    BY <2>1 DEF GoesOn
  <2>5. CurrentInv'
    BY <2>1
  <2>8. PastInv'
    BY <1>5, <2>1
  <2>6. CutOffInv(s)' /\ SpentInv(s)'
    BY <2>1
  <2>7. StartsInv(s)'
    BY <2>1
  <2> QED BY <2>2, <2>3, <2>4, <2>5, <2>6, <2>7, <2>8
<1>17. CASE BeginRecords(s)
  <2>1. /\ lane[s].pc = "beginRecord" /\ outcome' = outcome /\ starts' = [starts EXCEPT ![lane[s].slot] = @ + 1]
        /\ lane'[s] = [lane[s] EXCEPT !.pc = "work"] /\ store' = store
        /\ look' = look /\ mode' = mode /\ now' = now /\ tally' = tally
    BY <1>1, <1>2, <1>3, <1>4, <1>17 DEF BeginRecords, LaneGoes, durable, ghosts
  <2>2. CopiesInv(s)' /\ LookInv(s)'
    BY <2>1
  <2>3. TodoInv(s)'
    BY <1>5, <2>1
  <2>4. RunInv(s)'
    BY <2>1 DEF GoesOn
  <2>5. CurrentInv'
    BY <2>1
  <2>8. PastInv'
    BY <1>5, <2>1
  <2>6. CutOffInv(s)' /\ SpentInv(s)'
    BY <2>1
  <2>7. StartsInv(s)'
    BY <2>1
  <2> QED BY <2>2, <2>3, <2>4, <2>5, <2>6, <2>7, <2>8
<1>18. CASE Succeeds(s)
  <2>1. /\ lane[s].pc = "work" /\ outcome' = outcome /\ starts' = starts
        /\ lane'[s] = [lane[s] EXCEPT !.pc = "doneRead"] /\ store' = store
        /\ look' = look /\ mode' = mode /\ now' = now /\ tally' = tally
    BY <1>1, <1>2, <1>3, <1>4, <1>18 DEF Succeeds, LaneGoes, durable, ghosts
  <2>2. CopiesInv(s)' /\ LookInv(s)'
    BY <2>1
  <2>3. TodoInv(s)'
    BY <1>5, <2>1
  <2>4. RunInv(s)'
    BY <2>1 DEF GoesOn
  <2>5. CurrentInv'
    BY <2>1
  <2>8. PastInv'
    BY <1>5, <2>1
  <2>6. CutOffInv(s)' /\ SpentInv(s)'
    BY <2>1
  <2>7. StartsInv(s)'
    BY <2>1
  <2> QED BY <2>2, <2>3, <2>4, <2>5, <2>6, <2>7, <2>8
<1>19. CASE Interrupted(s)
  <2>1. /\ lane[s].pc = "work" /\ mode[s] # "up" /\ outcome' = outcome /\ starts' = starts
        /\ lane'[s] = [lane[s] EXCEPT !.pc = "handRead"] /\ store' = store
        /\ look' = look /\ mode' = mode /\ now' = now /\ tally' = tally
    BY <1>1, <1>2, <1>3, <1>4, <1>19 DEF Interrupted, LaneGoes, durable, ghosts
  <2>2. CopiesInv(s)' /\ LookInv(s)'
    BY <2>1
  <2>3. TodoInv(s)'
    BY <1>5, <2>1
  <2>4. RunInv(s)'
    BY <2>1 DEF GoesOn
  <2>5. CurrentInv'
    BY <2>1
  <2>8. PastInv'
    BY <1>5, <2>1
  <2>6. CutOffInv(s)' /\ SpentInv(s)'
    BY <2>1
  <2>7. StartsInv(s)'
    BY <2>1
  <2> QED BY <2>2, <2>3, <2>4, <2>5, <2>6, <2>7, <2>8
<1>20. CASE DoneReads(s)
  <2>1. /\ lane[s].pc = "doneRead" /\ outcome' = outcome /\ starts' = starts
        /\ lane'[s] = [lane[s] EXCEPT !.pc = "doneSave", !.snap = store] /\ store' = store
        /\ look' = look /\ mode' = mode /\ now' = now /\ tally' = tally
    BY <1>1, <1>2, <1>3, <1>4, <1>20 DEF DoneReads, LaneReads, durable, ghosts
  <2>2. CopiesInv(s)' /\ LookInv(s)'
    BY <2>1
  <2>3. TodoInv(s)'
    BY <1>5, <2>1
  <2>4. RunInv(s)'
    BY <2>1 DEF GoesOn
  <2>5. CurrentInv'
    BY <2>1
  <2>8. PastInv'
    BY <1>5, <2>1
  <2>6. CutOffInv(s)' /\ SpentInv(s)'
    BY <2>1
  <2>7. StartsInv(s)'
    BY <2>1
  <2> QED BY <2>2, <2>3, <2>4, <2>5, <2>6, <2>7, <2>8
<1>21. CASE DoneSaves(s)
  <2>0. PICK done : store' = [Known(lane[s].snap) EXCEPT !.current = NoRun, !.last = done,
                                    !.next = NextSlotAfter(lane[s].snap.next, lane[s].slot)]
    BY <1>21 DEF DoneSaves
  <2>1. /\ lane[s].pc = "doneSave" /\ outcome' = [outcome EXCEPT ![lane[s].slot] = "done"] /\ starts' = starts
        /\ lane'[s] = [lane[s] EXCEPT !.pc = "doneRecord"]
        /\ store' = [store EXCEPT !.current = NoRun, !.last = done, !.next = NextSlot(lane[s].slot)]
        /\ look' = look /\ mode' = mode /\ now' = now /\ tally' = tally
    <3>1. lane[s].pc = "doneSave" /\ lane' = [lane EXCEPT ![s].pc = "doneRecord"] /\ Said(lane[s].slot, "done")
          /\ UNCHANGED <<starts, look, mode, now, tally>>
      BY <1>21 DEF DoneSaves, LaneGoes
    <3>2. Known(lane[s].snap) = store /\ lane[s].snap.next = lane[s].slot /\ lane[s].slot \in Slots
      BY <1>2, <1>3, <1>4, <3>1
    <3>3. NextSlotAfter(lane[s].snap.next, lane[s].slot) = NextSlot(lane[s].slot)
      BY <1>2, <3>2 DEF NextSlotAfter
    <3> QED BY <1>1, <2>0, <3>1, <3>2, <3>3 DEF Said
  <2>2. CopiesInv(s)' /\ LookInv(s)'
    BY <2>1, <2>0
  <2>3. TodoInv(s)'
    BY <1>5, <2>1, <2>0
  <2>4. RunInv(s)'
    BY <2>1, <2>0 DEF GoesOn
  <2>5. CurrentInv'
    BY <2>1, <2>0
  <2>8. PastInv'
    BY <1>5, <2>1, <2>0
  <2>6. CutOffInv(s)' /\ SpentInv(s)'
    BY <2>1, <2>0
  <2>7. StartsInv(s)'
    BY <2>1, <2>0
  <2> QED BY <2>2, <2>3, <2>4, <2>5, <2>6, <2>7, <2>8
<1>22. CASE DoneRecords(s)
  <2>1. /\ lane[s].pc = "doneRecord" /\ outcome' = outcome /\ starts' = starts
        /\ lane'[s] = [lane[s] EXCEPT !.pc = "release"] /\ store' = store
        /\ look' = look /\ mode' = mode /\ now' = now /\ tally' = tally
    BY <1>1, <1>2, <1>3, <1>4, <1>22 DEF DoneRecords, LaneGoes, durable, ghosts
  <2>2. CopiesInv(s)' /\ LookInv(s)'
    BY <2>1
  <2>3. TodoInv(s)'
    BY <1>5, <2>1
  <2>4. RunInv(s)'
    BY <2>1 DEF GoesOn
  <2>5. CurrentInv'
    BY <2>1
  <2>8. PastInv'
    BY <1>5, <2>1
  <2>6. CutOffInv(s)' /\ SpentInv(s)'
    BY <2>1
  <2>7. StartsInv(s)'
    BY <2>1
  <2> QED BY <2>2, <2>3, <2>4, <2>5, <2>6, <2>7, <2>8
<1>23. CASE FailReads(s)
  <2>1. /\ lane[s].pc = "failRead" /\ outcome' = outcome /\ starts' = starts
        /\ lane'[s] = [lane[s] EXCEPT !.pc = "failSave", !.snap = store, !.record = FailedAt(@, now)] /\ store' = store
        /\ look' = look /\ mode' = mode /\ now' = now /\ tally' = tally
    BY <1>1, <1>2, <1>3, <1>4, <1>23 DEF FailReads, durable, ghosts
  <2>2. CopiesInv(s)' /\ LookInv(s)'
    BY <2>1
  <2>3. TodoInv(s)'
    BY <1>5, <2>1
  <2>4. RunInv(s)'
    <3>1. /\ lane[s].record = store.current /\ lane'[s].pc = "failSave"
          /\ lane'[s].slot = lane[s].slot /\ lane'[s].record = FailedAt(lane[s].record, now)
      BY <2>1
    <3> QED BY <2>1, <3>1
  <2>5. CurrentInv'
    BY <2>1
  <2>8. PastInv'
    BY <1>5, <2>1
  <2>6. CutOffInv(s)' /\ SpentInv(s)'
    BY <2>1
  <2>7. StartsInv(s)'
    BY <2>1
  <2> QED BY <2>2, <2>3, <2>4, <2>5, <2>6, <2>7, <2>8
<1>24. CASE FailRecords(s)
  <2>1. /\ lane[s].pc = "failRecord" /\ outcome' = outcome /\ starts' = starts
        /\ lane'[s] = [lane[s] EXCEPT !.pc = "release"] /\ store' = store
        /\ look' = look /\ mode' = mode /\ now' = now /\ tally' = tally
    BY <1>1, <1>2, <1>3, <1>4, <1>24 DEF FailRecords, LaneGoes, durable, ghosts
  <2>2. CopiesInv(s)' /\ LookInv(s)'
    BY <2>1
  <2>3. TodoInv(s)'
    BY <1>5, <2>1
  <2>4. RunInv(s)'
    BY <2>1 DEF GoesOn
  <2>5. CurrentInv'
    BY <2>1
  <2>8. PastInv'
    BY <1>5, <2>1
  <2>6. CutOffInv(s)' /\ SpentInv(s)'
    BY <2>1
  <2>7. StartsInv(s)'
    BY <2>1
  <2> QED BY <2>2, <2>3, <2>4, <2>5, <2>6, <2>7, <2>8
<1>25. CASE HandReads(s)
  <2>1. /\ lane[s].pc = "handRead" /\ outcome' = outcome /\ starts' = starts
        /\ lane'[s] = [lane[s] EXCEPT !.pc = "handSave", !.snap = store, !.record.status = "interrupted"] /\ store' = store
        /\ look' = look /\ mode' = mode /\ now' = now /\ tally' = tally
    BY <1>1, <1>2, <1>3, <1>4, <1>25 DEF HandReads, durable, ghosts
  <2>2. CopiesInv(s)' /\ LookInv(s)'
    BY <2>1
  <2>3. TodoInv(s)'
    BY <1>5, <2>1
  <2>4. RunInv(s)'
    BY <2>1 DEF GoesOn
  <2>5. CurrentInv'
    BY <2>1
  <2>8. PastInv'
    BY <1>5, <2>1
  <2>6. CutOffInv(s)' /\ SpentInv(s)'
    BY <2>1
  <2>7. StartsInv(s)'
    BY <2>1
  <2> QED BY <2>2, <2>3, <2>4, <2>5, <2>6, <2>7, <2>8
<1>26. CASE HandSaves(s)
  <2>1. /\ lane[s].pc = "handSave" /\ outcome' = outcome /\ starts' = starts
        /\ lane'[s] = [lane[s] EXCEPT !.pc = "handRecord"] /\ store' = [store EXCEPT !.current = lane[s].record]
        /\ look' = look /\ mode' = mode /\ now' = now /\ tally' = tally
    BY <1>1, <1>2, <1>3, <1>4, <1>26, SMTT(30) DEF HandSaves, LaneGoes, durable, ghosts
  <2>2. CopiesInv(s)' /\ LookInv(s)'
    BY <2>1
  <2>3. TodoInv(s)'
    BY <1>5, <2>1
  <2>4. RunInv(s)'
    BY <2>1 DEF GoesOn
  <2>5. CurrentInv'
    BY <2>1
  <2>8. PastInv'
    BY <1>5, <2>1
  <2>6. CutOffInv(s)' /\ SpentInv(s)'
    <3>1. lane[s].record.status = "interrupted" /\ lane[s].record.attempt = store.current.attempt
      BY <2>1
    <3> QED BY <2>1, <3>1
  <2>7. StartsInv(s)'
    BY <2>1
  <2> QED BY <2>2, <2>3, <2>4, <2>5, <2>6, <2>7, <2>8
<1>27. CASE HandRecords(s)
  <2>1. /\ lane[s].pc = "handRecord" /\ outcome' = outcome /\ starts' = starts
        /\ lane'[s] = [lane[s] EXCEPT !.pc = "release"] /\ store' = store
        /\ look' = look /\ mode' = mode /\ now' = now /\ tally' = tally
    BY <1>1, <1>2, <1>3, <1>4, <1>27 DEF HandRecords, LaneGoes, durable, ghosts
  <2>2. CopiesInv(s)' /\ LookInv(s)'
    BY <2>1
  <2>3. TodoInv(s)'
    BY <1>5, <2>1
  <2>4. RunInv(s)'
    BY <2>1 DEF GoesOn
  <2>5. CurrentInv'
    BY <2>1
  <2>8. PastInv'
    BY <1>5, <2>1
  <2>6. CutOffInv(s)' /\ SpentInv(s)'
    BY <2>1
  <2>7. StartsInv(s)'
    BY <2>1
  <2> QED BY <2>2, <2>3, <2>4, <2>5, <2>6, <2>7, <2>8
<1>28. CASE DrainEnds(s)
  <2>1. /\ lane[s].pc = "turn" /\ outcome' = outcome /\ starts' = starts
        /\ lane'[s] = NoLane /\ store' = store
        /\ look' = look /\ mode' = mode /\ now' = now /\ tally' = tally
    BY <1>1, <1>2, <1>3, <1>4, <1>28 DEF DrainEnds, LaneEnds, durable, ghosts
  <2>2. CopiesInv(s)' /\ LookInv(s)'
    BY <2>1
  <2>3. TodoInv(s)'
    BY <1>5, <2>1
  <2>4. RunInv(s)'
    BY <2>1 DEF GoesOn
  <2>5. CurrentInv'
    BY <2>1
  <2>8. PastInv'
    BY <1>5, <2>1
  <2>6. CutOffInv(s)' /\ SpentInv(s)'
    BY <2>1
  <2>7. StartsInv(s)'
    BY <2>1
  <2> QED BY <2>2, <2>3, <2>4, <2>5, <2>6, <2>7, <2>8
<1>29. CASE AfterReads(s)
  <2>1. /\ lane[s].pc = "turn" /\ lane[s].todo = {} /\ lane[s].after # Null /\ outcome' = outcome /\ starts' = starts
        /\ lane'[s] = [lane[s] EXCEPT !.pc = "afterSave", !.snap = store] /\ store' = store
        /\ look' = look /\ mode' = mode /\ now' = now /\ tally' = tally
    BY <1>1, <1>2, <1>3, <1>4, <1>29 DEF AfterReads, LaneReads, durable, ghosts
  <2>2. CopiesInv(s)' /\ LookInv(s)'
    BY <2>1
  <2>3. TodoInv(s)'
    BY <1>5, <2>1
  <2>4. RunInv(s)'
    BY <2>1 DEF GoesOn
  <2>5. CurrentInv'
    BY <2>1
  <2>8. PastInv'
    BY <1>5, <2>1
  <2>6. CutOffInv(s)' /\ SpentInv(s)'
    BY <2>1
  <2>7. StartsInv(s)'
    BY <2>1
  <2> QED BY <2>2, <2>3, <2>4, <2>5, <2>6, <2>7, <2>8
<1>30. CASE AfterSaves(s)
  <2>1. /\ lane[s].pc = "afterSave" /\ outcome' = outcome /\ starts' = starts
        /\ lane'[s] = NoLane /\ store' = [store EXCEPT !.next = lane[s].after]
        /\ look' = look /\ mode' = mode /\ now' = now /\ tally' = tally
    BY <1>1, <1>2, <1>3, <1>4, <1>30 DEF AfterSaves, LaneEnds, durable, ghosts
  <2>2. CopiesInv(s)' /\ LookInv(s)'
    BY <2>1
  <2>3. TodoInv(s)'
    BY <1>5, <2>1
  <2>4. RunInv(s)'
    BY <2>1 DEF GoesOn
  <2>5. CurrentInv'
    BY <2>1
  <2>8. PastInv'
    BY <1>5, <2>1
  <2>6. CutOffInv(s)' /\ SpentInv(s)'
    BY <2>1
  <2>7. StartsInv(s)'
    BY <2>1
  <2> QED BY <2>2, <2>3, <2>4, <2>5, <2>6, <2>7, <2>8
<1>31. CASE Fails(s)
  <2>1. /\ lane[s].pc = "work" /\ lane'[s] = [lane[s] EXCEPT !.pc = "failRead"] /\ store' = store
        /\ tally.failures < MaxFailures /\ tally' = [tally EXCEPT !.failures = @ + 1]
        /\ outcome' = outcome /\ starts' = starts /\ look' = look /\ mode' = mode /\ now' = now
    BY <1>31 DEF Fails, LaneGoes, durable, ghosts
  <2>2. CopiesInv(s)' /\ LookInv(s)' /\ TodoInv(s)' /\ RunInv(s)'
    BY <2>1
  <2>3. CurrentInv' /\ PastInv' /\ CutOffInv(s)'
    BY <2>1
  <2>4. SpentInv(s)' /\ StartsInv(s)'
    BY <2>1, BoundsAssumption
  <2> QED BY <2>2, <2>3, <2>4
<1>32. CASE FailSaves(s)
  <2>1. /\ lane[s].pc = "failSave" /\ lane'[s] = [lane[s] EXCEPT !.pc = "failRecord"]
        /\ store' = AfterFailure(lane[s].snap, lane[s].record) /\ SaidIfLast(lane[s].record)
        /\ starts' = starts /\ look' = look /\ mode' = mode /\ now' = now /\ tally' = tally
    BY <1>32 DEF FailSaves, LaneGoes
  <2> DEFINE r == lane[s].record
  <2>2. /\ lane[s].snap = store /\ store.next = r.slot /\ r.slot = lane[s].slot /\ r.slot \in Slots
        /\ r.status = "failed" /\ r.attempt = store.current.attempt /\ r # NoRun
        /\ r.retryAt # Null => r.attempt < MaxAttempts
    <3>1. PICK t \in Nat : r = FailedAt(store.current, t)
      BY <2>1
    <3>2. store.current \in Run /\ store.current.slot = lane[s].slot
      BY <2>1
    <3>3. r.slot = store.current.slot /\ r.status = "failed" /\ r.attempt = store.current.attempt
          /\ r.retryAt = IF r.attempt < MaxAttempts THEN t + Backoff ELSE Null
      <4> HIDE <1>1, <1>2, <1>3, <1>6 DEF Backed, OneInv
      <4> QED BY <3>1, <3>2 DEF FailedAt
    <3> QED BY <2>1, <3>2, <3>3
  <2>3. CASE r.retryAt # Null
    <3>1. store' = [store EXCEPT !.current = r] /\ outcome' = outcome
      BY <1>4, <2>1, <2>2, <2>3 DEF AfterFailure, SaidIfLast
    <3>2. CopiesInv(s)' /\ LookInv(s)' /\ TodoInv(s)'
      BY <2>1, <2>2, <3>1
    <3>3. RunInv(s)'
      BY <2>1, <2>2, <2>3, <3>1 DEF GoesOn
    <3>4. CurrentInv' /\ PastInv'
      BY <2>1, <2>2, <2>3, <3>1
    <3>5. CutOffInv(s)' /\ SpentInv(s)' /\ StartsInv(s)'
      BY <2>1, <2>2, <3>1
    <3> QED BY <3>2, <3>3, <3>4, <3>5
  <2>4. CASE r.retryAt = Null
    <3>1. NextSlotAfter(store.next, r.slot) = NextSlot(r.slot)
      BY <2>2 DEF NextSlotAfter
    <3>2. store' = [store EXCEPT !.current = NoRun, !.next = NextSlot(lane[s].slot)]
      <4>1. AfterFailure(store, r) = [Known(store) EXCEPT !.current = NoRun, !.next = NextSlotAfter(store.next, r.slot)]
        BY <2>4, Zenon DEF AfterFailure
      <4>2. Known(store) = store
        BY <1>4, <2>1
      <4> QED BY <2>1, <2>2, <3>1, <4>1, <4>2
    <3>3. outcome' = [outcome EXCEPT ![lane[s].slot] = "failed"]
      BY <2>1, <2>2, <2>4 DEF SaidIfLast, Said
    <3>4. /\ lane[s].pc = "failSave" /\ lane'[s] = [lane[s] EXCEPT !.pc = "failRecord"]
          /\ starts' = starts /\ look' = look /\ mode' = mode /\ now' = now /\ tally' = tally
      BY <2>1
    <3>5. CopiesInv(s)' /\ LookInv(s)'
      BY <3>2, <3>4
    <3>6. TodoInv(s)'
      BY <1>5, <3>2, <3>4
    <3>7. RunInv(s)'
      BY <2>2, <2>4, <3>2, <3>3, <3>4 DEF GoesOn
    <3>8. CurrentInv' /\ PastInv'
      BY <1>5, <3>2, <3>3, <3>4
    <3>9. CutOffInv(s)' /\ SpentInv(s)' /\ StartsInv(s)'
      BY <3>2, <3>3, <3>4
    <3> QED BY <3>5, <3>6, <3>7, <3>8, <3>9
  <2> QED BY <2>3, <2>4
<1>33. CASE ReleasesSlot(s)
  <2>1. /\ lane[s].pc = "release" /\ store' = store /\ outcome' = outcome
        /\ starts' = starts /\ look' = look /\ mode' = mode /\ now' = now /\ tally' = tally
    BY <1>33 DEF ReleasesSlot, ghosts
  <2>2. CASE GoesOn(s)
    <3>1. lane'[s] = [lane[s] EXCEPT !.pc = "turn", !.todo = @ \ {lane[s].slot}, !.resume = NoRun]
      BY <1>33, <2>2 DEF ReleasesSlot, NextTurn
    <3>2. CopiesInv(s)' /\ LookInv(s)' /\ CurrentInv' /\ PastInv'
      BY <2>1, <3>1
    <3>3. TodoInv(s)'
      <4>1. store.next = NextSlot(lane[s].slot) /\ lane[s].slot \in Slots /\ lane[s].todo \subseteq Slots
            /\ \A t \in lane[s].todo : lane[s].slot <= t
        BY <2>1, <2>2
      <4>2. ASSUME NEW t \in lane[s].todo \ {lane[s].slot}  PROVE store.next # Null /\ store.next <= t
        <5>1. t \in Slots /\ lane[s].slot <= t /\ t # lane[s].slot
          BY <4>1
        <5>2. t \in Nat /\ lane[s].slot \in Nat
          BY <4>1, <5>1
        <5>3. t > lane[s].slot
          BY <5>1, <5>2, LaterIsMore, Zenon
        <5> QED BY <1>5, <4>1, <5>1, <5>3
      <4> QED BY <2>1, <3>1, <4>2
    <3>4. RunInv(s)'
      BY <2>1, <2>2, <3>1
    <3>5. CutOffInv(s)' /\ SpentInv(s)' /\ StartsInv(s)'
      BY <2>1, <2>2, <3>1 DEF GoesOn
    <3> QED BY <3>2, <3>3, <3>4, <3>5
  <2>3. CASE ~GoesOn(s)
    <3>1. lane'[s] = NoLane
      BY <1>33, <2>3 DEF ReleasesSlot, LaneEnds
    <3>2. CopiesInv(s)' /\ LookInv(s)' /\ CurrentInv' /\ PastInv'
      BY <2>1, <3>1
    <3>3. TodoInv(s)' /\ RunInv(s)'
      BY <2>1, <3>1
    <3>5. CutOffInv(s)' /\ SpentInv(s)' /\ StartsInv(s)'
      BY <2>1, <2>3, <3>1 DEF GoesOn
    <3> QED BY <3>2, <3>3, <3>5
  <2> QED BY <2>2, <2>3
<1> QED
  BY <1>10, <1>11, <1>12, <1>13, <1>14, <1>15, <1>16, <1>17, <1>18, <1>19, <1>20, <1>21, <1>22, <1>23,
     <1>24, <1>25, <1>26, <1>27, <1>28, <1>29, <1>30, <1>31, <1>32, <1>33 DEF LaneStep

-----------------------------------------------------------------------------
(* What comes of a resumed run's drain. *)
LEMMA ResumesOne ==
  ASSUME NEW s \in Server, Typed, Backed(s), OneInv(s), look[s].pc = "seen", NEW r \in Run,
         store.current \in Run, r.slot = store.current.slot,
         store.current.status \in {"interrupted", "failed"},
         r.attempt = store.current.attempt + (IF store.current.status = "failed" THEN 1 ELSE 0),
         StartsDrain(s, {r.slot}, r.slot, r, Null)
  PROVE  OneInv(s)'
<1>1. /\ lane \in [Server -> Lane] /\ look \in [Server -> Look] /\ store \in State
      /\ starts \in [Slots -> Nat] /\ now \in Nat /\ outcome \in [Slots -> {"open", "before", "done", "failed", "skipped"}]
      /\ mode \in [Server -> {"down", "up", "stopping", "late"}] /\ tally \in [failures : Nat, crashes : Nat, stops : Nat]
  BY DEF Typed, SharedTypeOK, Lanes, Looks
<1>2. /\ Slots \subseteq Nat /\ Null = 0 /\ 0 \notin Slots
      /\ NoRun.status = "none" /\ NoRun.slot = Null /\ NoRun.retryAt = Null /\ NoRun.attempt = 0 /\ NoRun \notin Run
      /\ MaxAttempts \in Nat \ {0}
  BY SlotsAssumption, AttemptsAssumption, NoRunIsNone DEF Null
<1>3. /\ lane[s].resume # NoRun => lane[s].slot \in Slots
      /\ lane[s].pc \in HoldingPc \cup {"turnSave", "take"} => lane[s].slot \in Slots
      /\ lane[s].pc \in HoldingPc \ {"beginRead"} => lane[s].record \in Run
  BY DEF Typed, Lanes
<1>4. /\ NoLane.pc = "idle" /\ NoLane.after = Null /\ NoLane.resume = NoRun /\ NoLane.todo = {} /\ NoLane.byGrace = FALSE
      /\ NoLook.pc = "idle" /\ NoLook.at = Null
  BY DEF NoLane, NoLook
<1> USE <1>1, <1>2, <1>3, <1>4 DEF Backed, OneInv, CopiesInv, LookInv, TodoInv, RunInv, CurrentInv, PastInv,
        CutOffInv, SpentInv, StartsInv, Ended, Spent, RunPc, HoldingPc, AtSlot, Lane, State, Run0, Run, Slot0, Final
<1>5. /\ look'[s] = NoLook /\ store' = store /\ outcome' = outcome /\ starts' = starts /\ mode' = mode /\ now' = now
      /\ tally' = tally
  BY DEF StartsDrain, LookEnds, durable, ghosts
<1>6. lane[s] = NoLane
  OBVIOUS
<1>7. CASE mode[s] # "up"
  <2>1. lane' = lane
    BY <1>7 DEF StartsDrain
  <2> QED BY <1>5, <1>6, <2>1
<1>8. CASE mode[s] = "up"
  <2> DEFINE l == [NoLane EXCEPT !.pc = "turn", !.todo = {r.slot}, !.slot = r.slot, !.resume = r, !.after = Null]
  <2>1. lane'[s] = l
    BY <1>8 DEF StartsDrain
  <2>2. l.pc = "turn" /\ l.todo = {r.slot} /\ l.slot = r.slot /\ l.resume = r /\ l.after = Null /\ l.byGrace = FALSE
    BY DEF NoLane
  <2> HIDE DEF l
  <2>3. CopiesInv(s)' /\ LookInv(s)' /\ CurrentInv' /\ PastInv'
    BY <1>5, <2>1, <2>2
  <2>4. TodoInv(s)'
    BY <1>5, <2>1, <2>2
  <2>5. RunInv(s)'
    BY <1>5, <2>1, <2>2
  <2>6. CutOffInv(s)'
    BY <1>5, <1>8, <2>1, <2>2
  <2>7. SpentInv(s)'
    <3>1. store.current # NoRun /\ store.current.status # "running"
      OBVIOUS
    <3>2. AttemptsToSpare => r.attempt <= Spent(s) + 1
      OBVIOUS
    <3> QED BY <1>5, <2>1, <2>2, <3>1, <3>2
  <2>8. StartsInv(s)'
    BY <1>5, <1>8, <2>1, <2>2
  <2> QED BY <2>3, <2>4, <2>5, <2>6, <2>7, <2>8
<1> QED BY <1>7, <1>8

(* A handed off run is taken up as it was, and a failed one once more. *)
LEMMA TriesAgainOne ==
  ASSUME NEW s \in Server, Typed, Backed(s), OneInv(s), ResumesInterrupted(s) \/ Retries(s)
  PROVE  OneInv(s)'
<1>1. look[s].pc = "seen" /\ look[s].snap = store /\ Unfinished(s) = store.current
  BY DEF ResumesInterrupted, Retries, Seen, Unfinished, OneInv, CopiesInv
<1>2. store.current \in Run0
  BY DEF Typed, SharedTypeOK, State
<1>3. CASE ResumesInterrupted(s)
  <2>1. store.current.status = "interrupted"
        /\ StartsDrain(s, {store.current.slot}, store.current.slot, store.current, Null)
    BY <1>1, <1>3 DEF ResumesInterrupted
  <2>2. store.current \in Run
    BY <1>2, <2>1, NoRunIsNone DEF Run0
  <2>3. store.current.attempt = store.current.attempt + (IF store.current.status = "failed" THEN 1 ELSE 0)
    BY <2>1, <2>2 DEF Run
  <2> QED BY <1>1, <2>1, <2>2, <2>3, ResumesOne
<1>4. CASE Retries(s)
  <2>1. PICK r : /\ r = [store.current EXCEPT !.attempt = @ + 1] /\ store.current.status = "failed"
                 /\ StartsDrain(s, {store.current.slot}, store.current.slot, r, Null)
    BY <1>1, <1>4 DEF Retries
  <2>2. store.current \in Run
    BY <1>2, <2>1, NoRunIsNone DEF Run0
  <2>3. r \in Run /\ r.slot = store.current.slot /\ r.attempt = store.current.attempt + 1
    BY <2>1, <2>2 DEF Run
  <2>4. StartsDrain(s, {r.slot}, r.slot, r, Null)
    BY <2>1, <2>3
  <2> QED BY <1>1, <2>1, <2>2, <2>3, <2>4, ResumesOne
<1> QED BY <1>3, <1>4

LEMMA LookStepOne ==
  ASSUME NEW s \in Server, Typed, Backed(s), OneInv(s), LookStep(s), NeverCutOff \/ AttemptsToSpare
  PROVE  OneInv(s)'
<1>1. /\ lane \in [Server -> Lane] /\ look \in [Server -> Look] /\ store \in State
      /\ starts \in [Slots -> Nat] /\ now \in Nat /\ outcome \in [Slots -> {"open", "before", "done", "failed", "skipped"}]
      /\ mode \in [Server -> {"down", "up", "stopping", "late"}] /\ tally \in [failures : Nat, crashes : Nat, stops : Nat]
  BY DEF Typed, SharedTypeOK, Lanes, Looks
<1>2. /\ Slots \subseteq Nat /\ Null = 0 /\ 0 \notin Slots
      /\ NoRun.status = "none" /\ NoRun.slot = Null /\ NoRun.retryAt = Null /\ NoRun.attempt = 0 /\ NoRun \notin Run
      /\ MaxAttempts \in Nat \ {0}
  BY SlotsAssumption, AttemptsAssumption, NoRunIsNone DEF Null
<1>3. /\ lane[s].resume # NoRun => lane[s].slot \in Slots
      /\ lane[s].pc \in HoldingPc \cup {"turnSave", "take"} => lane[s].slot \in Slots
      /\ lane[s].pc \in HoldingPc \ {"beginRead"} => lane[s].record \in Run
  BY DEF Typed, Lanes
<1>4. /\ NoLane.pc = "idle" /\ NoLane.after = Null /\ NoLane.resume = NoRun /\ NoLane.todo = {} /\ NoLane.byGrace = FALSE
      /\ NoLook.pc = "idle" /\ NoLook.at = Null
  BY DEF NoLane, NoLook
<1> USE <1>1, <1>2, <1>3, <1>4 DEF Backed, OneInv, CopiesInv, LookInv, TodoInv, RunInv, CurrentInv, PastInv,
        CutOffInv, SpentInv, StartsInv, Ended, Spent, RunPc, HoldingPc, AtSlot, Lane, Look, State, Run0, Run, Slot0, Final
<1>5. look[s].pc # "idle" => lane[s] = NoLane
  OBVIOUS
<1>6. store.current = NoRun \/ store.current \in Run
  OBVIOUS
<1>7. look[s].at \in Nat
  OBVIOUS
<1>9. now' = now
  <2> HIDE <1>1, <1>2, <1>3, <1>4 DEF Backed, OneInv
  <2>1. CASE LookStarts(s) \/ Adopts(s) \/ LeavesRunning(s) \/ ProbesLock(s) \/ ReleasesProbe(s)
    BY <2>1 DEF LookStarts, Adopts, LeavesRunning, ProbesLock, ReleasesProbe
  <2>2. CASE CutOffReads(s) \/ CutOffSaves(s) \/ CutOffRecords(s) \/ ResumesInterrupted(s) \/ WaitsForRetry(s)
    BY <2>2 DEF CutOffReads, CutOffSaves, CutOffRecords, ResumesInterrupted, WaitsForRetry, StartsDrain
  <2>3. CASE Retries(s) \/ NothingDue(s)
    BY <2>3 DEF Retries, NothingDue, StartsDrain
  <2>5. CASE ChoosesSlots(s)
    BY <2>5 DEF ChoosesSlots
  <2>4. CASE RecordsSkipped(s) \/ MovesOn(s) \/ Drains(s)
    BY <2>4 DEF RecordsSkipped, MovesOn, Drains, StartsDrain
  <2> QED BY <2>1, <2>2, <2>3, <2>4, <2>5 DEF LookStep
<1>8. OnToSlots(s) => look[s].pc = "seen" /\ look[s].snap = store /\ store.known /\ store.current = NoRun
  BY DEF OnToSlots, Seen, Settled, Unfinished
<1>10. CASE LookStarts(s)
  <2>1. look'[s] = [NoLook EXCEPT !.pc = "seen", !.at = now, !.snap = store] /\ lane[s].pc = "idle"
    BY <1>10 DEF LookStarts
  <2>2. store' = store /\ lane' = lane /\ outcome' = outcome /\ starts' = starts /\ mode' = mode  /\ tally' = tally
    BY <1>10 DEF LookStarts, durable, ghosts
  <2>3. look'[s].pc = "seen" /\ look'[s].at = now /\ look'[s].snap = store
    BY <2>1 DEF NoLook
  <2>4. CopiesInv(s)' /\ LookInv(s)' /\ TodoInv(s)' /\ RunInv(s)'
    BY <1>9, <2>1, <2>2, <2>3
  <2> QED BY <2>2, <2>4
<1>11. CASE Adopts(s)
  <2>1. /\ look[s].pc = "seen" /\ ~store.known /\ look'[s] = NoLook
        /\ store' = [Known(NoState) EXCEPT !.next = NextSlot(look[s].at)]
        /\ lane' = lane /\ starts' = starts /\ mode' = mode /\ tally' = tally
        /\ outcome' = [t \in Slots |-> IF t <= look[s].at /\ outcome[t] = "open" THEN "before" ELSE outcome[t]]
    BY <1>11 DEF Adopts, Seen, LookEnds
  <2>2. store'.known /\ store'.current = NoRun
    BY <2>1 DEF Known, NoState
  <2>3. store.current = NoRun /\ \A t \in Slots : outcome[t] \notin Final /\ starts[t] = 0
    BY <2>1
  <2>4. \A t \in Slots : outcome'[t] \notin Final /\ starts'[t] = 0
    BY <2>1, <2>3
  <2>5. CopiesInv(s)' /\ LookInv(s)' /\ TodoInv(s)' /\ RunInv(s)'
    BY <1>5, <1>7, <1>9, <2>1, <2>2
  <2>6. CurrentInv' /\ PastInv'
    BY <2>2, <2>4
  <2>7. CutOffInv(s)' /\ SpentInv(s)' /\ StartsInv(s)'
    BY <1>5, <2>1, <2>2, <2>4
  <2> HIDE <1>1, <1>2, <1>3, <1>4 DEF CopiesInv, LookInv, TodoInv, RunInv, CurrentInv, PastInv, CutOffInv,
        SpentInv, StartsInv
  <2> QED BY <2>5, <2>6, <2>7
<1>12. CASE LeavesRunning(s) \/ WaitsForRetry(s) \/ NothingDue(s)
  <2>1. look'[s] = NoLook /\ lane[s] = NoLane
    BY <1>5, <1>8, <1>12 DEF LeavesRunning, WaitsForRetry, NothingDue, LookEnds, Seen
  <2>2. store' = store /\ lane' = lane /\ outcome' = outcome /\ starts' = starts /\ mode' = mode  /\ tally' = tally
    BY <1>12 DEF LeavesRunning, WaitsForRetry, NothingDue, durable, ghosts
  <2>3. CopiesInv(s)' /\ LookInv(s)' /\ TodoInv(s)' /\ RunInv(s)'
    BY <1>7, <1>9, <2>1, <2>2
  <2> QED BY <2>2, <2>3
<1>13. CASE ProbesLock(s)
  <2>1. /\ look[s].pc = "seen" /\ store.current.status = "running"
        /\ look'[s] = [look[s] EXCEPT !.pc = "probed"]
    BY <1>13 DEF ProbesLock, Seen, Unfinished, LookGoes
  <2>2. store' = store /\ lane' = lane /\ outcome' = outcome /\ starts' = starts /\ mode' = mode  /\ tally' = tally
    BY <1>13 DEF ProbesLock, ghosts
  <2>3. store.current.attempt < MaxAttempts
    <3>1. CASE NeverCutOff
      BY <1>5, <2>1, <3>1
    <3>2. CASE AttemptsToSpare
      BY <1>5, <1>6, <2>1, <3>2, BoundsAssumption DEF AttemptsToSpare
    <3> QED BY <3>1, <3>2
  <2> QED BY <1>9, <2>1, <2>2, <2>3
<1>14. CASE ReleasesProbe(s)
  <2>1. look[s].pc = "probed" /\ look'[s] = [look[s] EXCEPT !.pc = "cutOffRead"]
    BY <1>14 DEF ReleasesProbe, LookGoes
  <2>2. store' = store /\ lane' = lane /\ outcome' = outcome /\ starts' = starts /\ mode' = mode  /\ tally' = tally
    BY <1>14 DEF ReleasesProbe, ghosts
  <2> QED BY <1>9, <2>1, <2>2
<1>15. CASE CutOffReads(s)
  <2>1. look[s].pc = "cutOffRead" /\ look'[s] = [look[s] EXCEPT !.pc = "cutOffSave", !.fresh = store]
    BY <1>15 DEF CutOffReads
  <2>2. store' = store /\ lane' = lane /\ outcome' = outcome /\ starts' = starts /\ mode' = mode  /\ tally' = tally
    BY <1>15 DEF CutOffReads, durable, ghosts
  <2> QED BY <1>9, <2>1, <2>2
<1>16. CASE CutOffSaves(s)
  <2> DEFINE r == CutOff(s)
  <2>1. /\ look[s].pc = "cutOffSave" /\ look'[s] = [look[s] EXCEPT !.pc = "cutOffRecord"]
        /\ store' = AfterFailure(store, r) /\ SaidIfLast(r)
        /\ lane' = lane /\ starts' = starts /\ mode' = mode /\ tally' = tally
    BY <1>16 DEF CutOffSaves, LookGoes
  <2>2. /\ store.current \in Run /\ store.current.status = "running" /\ store.current.attempt < MaxAttempts
        /\ store.known /\ look[s].snap = store
    <3>1. look[s].snap = store
      BY <2>1
    <3>2. store.current.status = "running" /\ store.current.attempt < MaxAttempts
      BY <2>1, <3>1
    <3>3. store.current # NoRun
      BY <3>2, NoRunIsNone
    <3>4. store.known
      BY <3>3
    <3> QED BY <1>6, <3>1, <3>2, <3>3, <3>4
  <2>3. r = [store.current EXCEPT !.status = "failed", !.retryAt = look[s].at + Backoff]
    <3> HIDE <1>1, <1>2, <1>3, <1>4 DEF Backed, OneInv
    <3> QED BY <2>2 DEF CutOff, FailedAt, Unfinished
  <2> HIDE DEF r
  <2>4. r \in Run /\ r.slot = store.current.slot /\ r.status = "failed" /\ r.attempt = store.current.attempt /\ r.retryAt # Null
    <3>1. look[s].at + Backoff \in Nat /\ look[s].at + Backoff # Null
      BY <1>7, AttemptsAssumption
    <3> HIDE <1>1, <1>2, <1>3, <1>4 DEF Backed, OneInv
    <3> QED BY <2>2, <2>3, <3>1
  <2>5. store' = [store EXCEPT !.current = r] /\ outcome' = outcome
    <3>1. AfterFailure(store, r) = [Known(store) EXCEPT !.current = r]
      BY <2>4, Zenon DEF AfterFailure
    <3>2. Known(store) = store
      BY <2>2, KnownState
    <3> QED BY <2>1, <2>4, <3>1, <3>2 DEF SaidIfLast
  <2>6. CopiesInv(s)' /\ LookInv(s)' /\ TodoInv(s)' /\ RunInv(s)'
    BY <1>5, <1>7, <1>9, <2>1, <2>5
  <2>7. CurrentInv' /\ PastInv'
    BY <2>1, <2>2, <2>4, <2>5
  <2>8. CutOffInv(s)' /\ SpentInv(s)' /\ StartsInv(s)'
    BY <1>5, <2>1, <2>2, <2>4, <2>5
  <2> HIDE <1>1, <1>2, <1>3, <1>4 DEF CopiesInv, LookInv, TodoInv, RunInv, CurrentInv, PastInv, CutOffInv,
        SpentInv, StartsInv
  <2> QED BY <2>6, <2>7, <2>8
<1>17. CASE CutOffRecords(s)
  <2>1. /\ look[s].pc = "cutOffRecord" /\ store' = store /\ lane' = lane
        /\ outcome' = outcome /\ starts' = starts /\ mode' = mode /\ tally' = tally
    BY <1>17 DEF CutOffRecords, ghosts
  <2>2. CutOff(s).retryAt # Null
    <3>1. look[s].snap.current \in Run /\ look[s].snap.current.attempt < MaxAttempts
      BY <2>1 DEF Typed, Looks
    <3>2. FailedAt(look[s].snap.current, look[s].at).retryAt = look[s].at + Backoff
      <4> HIDE <1>1, <1>2, <1>3, <1>4 DEF Backed, OneInv
      <4> QED BY <3>1 DEF FailedAt
    <3> QED BY <1>7, <1>9, <3>2, AttemptsAssumption DEF CutOff, Unfinished
  <2>3. look'[s] = NoLook
    BY <1>17, <2>2 DEF CutOffRecords, LookEnds
  <2> QED BY <1>9, <2>1, <2>3
<1>18. CASE ResumesInterrupted(s) \/ Retries(s)
  BY <1>18, TriesAgainOne, Zenon
<1>20. CASE ChoosesSlots(s)
  <2> DEFINE due  == SlotsBetween(look[s].snap.next, look[s].at)
             run  == Chosen(due, look[s].at, busyUntil[s], CatchUp, Overlap)
             skip == NewestOf(due \ run, Cap)
  <2>1. OnToSlots(s) /\ look[s].snap.next # Null /\ look[s].snap.next <= look[s].at
        /\ look' = [look EXCEPT ![s].pc = "chosen", ![s].run = run, ![s].skip = skip]
    BY <1>20 DEF ChoosesSlots
  <2>2. store' = store /\ lane' = lane /\ outcome' = outcome /\ starts' = starts /\ mode' = mode  /\ tally' = tally
    BY <1>20 DEF ChoosesSlots, durable, ghosts
  <2>3. run \cup skip \subseteq due
    <3> HIDE <1>1, <1>2, <1>3, <1>4 DEF Backed, OneInv
    <3> QED BY RulesAssumption DEF Chosen, Waiting, CaughtUp, WhileBusy, WhileIdle, NewestOf, CatchUpRules
  <2>4. \A t \in run \cup skip : look[s].snap.next <= t /\ t <= look[s].at
    BY <2>3 DEF SlotsBetween
  <2> HIDE DEF run, skip
  <2>5. /\ look[s].pc = "seen" /\ look[s].snap = store /\ store.known /\ store.current = NoRun
        /\ store.next # Null /\ store.next <= look[s].at
        /\ \A t \in run \cup skip : store.next <= t /\ t <= look[s].at
    BY <1>8, <2>1, <2>4
  <2>6. look'[s] = [look[s] EXCEPT !.pc = "chosen", !.run = run, !.skip = skip]
    BY <2>1
  <2>7. CopiesInv(s)' /\ LookInv(s)'
    BY <1>9, <2>2, <2>5, <2>6
  <2>8. TodoInv(s)' /\ RunInv(s)'
    BY <1>5, <1>9, <2>2, <2>5
  <2>10. CurrentInv' /\ PastInv'
    BY <2>2
  <2>9. CutOffInv(s)' /\ SpentInv(s)' /\ StartsInv(s)'
    BY <1>5, <2>2, <2>5, <2>6
  <2> HIDE <1>1, <1>2, <1>3, <1>4 DEF CopiesInv, LookInv, TodoInv, RunInv, CurrentInv, PastInv, CutOffInv,
        SpentInv, StartsInv
  <2> QED BY <2>7, <2>8, <2>9, <2>10
<1>21. CASE RecordsSkipped(s)
  <2>1. PICK t \in look[s].skip : /\ look[s].pc = "chosen" /\ outcome' = [outcome EXCEPT ![t] = "skipped"]
                                 /\ look' = [look EXCEPT ![s].skip = @ \ {t}]
    <3> HIDE <1>1, <1>2, <1>3, <1>4 DEF Backed, OneInv
    <3> QED BY <1>21 DEF RecordsSkipped, Said
  <2>2. store' = store /\ lane' = lane /\ starts' = starts /\ mode' = mode /\ tally' = tally
    BY <1>21 DEF RecordsSkipped
  <2>3. t \in Slots /\ outcome[t] \notin Final
    BY <2>1
  <2>4. \A u \in Slots : (outcome'[u] \in Final <=> outcome[u] \in Final)
    BY <2>1, <2>3
  <2>5. CopiesInv(s)' /\ LookInv(s)' /\ TodoInv(s)' /\ RunInv(s)'
    BY <1>5, <1>7, <1>9, <2>1, <2>2
  <2>6. CurrentInv' /\ PastInv'
    BY <2>2, <2>4
  <2>7. CutOffInv(s)' /\ SpentInv(s)' /\ StartsInv(s)'
    BY <1>5, <2>2, <2>4
  <2> HIDE <1>1, <1>2, <1>3, <1>4 DEF CopiesInv, LookInv, TodoInv, RunInv, CurrentInv, PastInv, CutOffInv,
        SpentInv, StartsInv
  <2> QED BY <2>5, <2>6, <2>7
<1>22. NextSlot(look[s].at) = Null \/ (NextSlot(look[s].at) \in Slots /\ NextSlot(look[s].at) > look[s].at)
  BY <1>7, <1>9, NextSlotIsNext
<1>23. CASE MovesOn(s)
  <2>0. look[s].pc = "chosen" /\ store' = [look[s].snap EXCEPT !.next = NextSlot(look[s].at)]
    BY <1>23 DEF MovesOn, SkippedAll, After
  <2>1. /\ look[s].pc = "chosen" /\ look'[s] = NoLook /\ store' = [store EXCEPT !.next = NextSlot(look[s].at)]
        /\ lane' = lane /\ outcome' = outcome /\ starts' = starts /\ mode' = mode /\ tally' = tally
    <3>1. look[s].snap = store
      BY <2>0
    <3>2. look'[s] = NoLook
      BY <1>23 DEF MovesOn, LookEnds
    <3>3. lane' = lane /\ outcome' = outcome /\ starts' = starts /\ mode' = mode /\ tally' = tally
      BY <1>23 DEF MovesOn, ghosts
    <3> QED BY <2>0, <3>1, <3>2, <3>3
  <2>2. CopiesInv(s)' /\ LookInv(s)' /\ TodoInv(s)' /\ RunInv(s)'
    BY <1>5, <1>7, <1>9, <2>1
  <2>3. CurrentInv' /\ PastInv'
    BY <1>7, <1>9, <1>22, <2>1
  <2>4. CutOffInv(s)' /\ SpentInv(s)' /\ StartsInv(s)'
    BY <1>5, <2>1
  <2> HIDE <1>1, <1>2, <1>3, <1>4 DEF CopiesInv, LookInv, TodoInv, RunInv, CurrentInv, PastInv, CutOffInv,
        SpentInv, StartsInv
  <2> QED BY <2>2, <2>3, <2>4
<1>24. CASE Drains(s)
  <2> DEFINE n == NextSlot(look[s].at)
             l == [NoLane EXCEPT !.pc = "turn", !.todo = look[s].run, !.slot = Null, !.resume = NoRun, !.after = n]
  <2>1. look[s].pc = "chosen" /\ StartsDrain(s, look[s].run, Null, NoRun, n)
    BY <1>24 DEF Drains, SkippedAll, After
  <2>2. look'[s] = NoLook /\ store' = store /\ outcome' = outcome /\ starts' = starts /\ mode' = mode /\ tally' = tally
    BY <2>1 DEF StartsDrain, LookEnds, durable, ghosts
  <2>3. CASE mode[s] # "up"
    <3>1. lane' = lane
      BY <2>1, <2>3 DEF StartsDrain
    <3> QED BY <1>5, <1>7, <1>9, <2>1, <2>2, <3>1
  <2>4. CASE mode[s] = "up"
    <3>1. lane'[s] = l
      BY <2>1, <2>4 DEF StartsDrain
    <3>2. l.pc = "turn" /\ l.todo = look[s].run /\ l.resume = NoRun /\ l.after = n /\ l.byGrace = FALSE
      BY DEF NoLane
    <3>3. n = Null \/ (n \in Slots /\ n > look[s].at)
      BY <1>22
    <3> HIDE DEF l, n
    <3>4. CopiesInv(s)' /\ LookInv(s)' /\ CurrentInv' /\ PastInv'
      BY <1>7, <1>9, <2>2, <3>1, <3>2
    <3>5. TodoInv(s)'
      <4>1. /\ store.known /\ store.next # Null /\ store.next <= look[s].at
            /\ \A t \in look[s].run : store.next <= t /\ t <= look[s].at
        BY <2>1
      <4>2. n # Null => store.next <= n /\ \A t \in look[s].run : t < n
        <5>1. store.next \in Nat /\ look[s].run \subseteq Nat
          OBVIOUS
        <5> QED BY <1>7, <3>3, <4>1, <5>1
      <4> QED BY <2>2, <3>1, <3>2, <4>1, <4>2
    <3>6. RunInv(s)'
      BY <2>1, <2>2, <3>1, <3>2
    <3>7. CutOffInv(s)' /\ SpentInv(s)' /\ StartsInv(s)'
      BY <1>5, <2>1, <2>2, <2>4, <3>1, <3>2
    <3> QED BY <3>4, <3>5, <3>6, <3>7
  <2> HIDE <1>1, <1>2, <1>3, <1>4 DEF CopiesInv, LookInv, TodoInv, RunInv, CurrentInv, PastInv, CutOffInv,
        SpentInv, StartsInv
  <2> QED BY <2>3, <2>4
<1> QED
  BY <1>10, <1>11, <1>12, <1>13, <1>14, <1>15, <1>16, <1>17, <1>18, <1>20, <1>21, <1>23, <1>24 DEF LookStep

LEMMA DyingOne ==
  ASSUME NEW s \in Server, Typed, OneInv(s), Dies(s), mode[s] # "down",
         \/ tally' = tally /\ (\/ mode[s] = "stopping" /\ lane[s].pc = "idle"
                               \/ mode[s] = "late" /\ ~lane[s].byGrace)
         \/ tally.crashes < MaxCrashes /\ tally' = [tally EXCEPT !.crashes = @ + 1]
  PROVE  OneInv(s)'
<1>1. /\ lane \in [Server -> Lane] /\ look \in [Server -> Look] /\ store \in State
      /\ starts \in [Slots -> Nat] /\ now \in Nat /\ outcome \in [Slots -> {"open", "before", "done", "failed", "skipped"}]
      /\ mode \in [Server -> {"down", "up", "stopping", "late"}] /\ tally \in [failures : Nat, crashes : Nat, stops : Nat]
  BY DEF Typed, SharedTypeOK, Lanes, Looks
<1>2. /\ Slots \subseteq Nat /\ Null = 0 /\ 0 \notin Slots
      /\ NoRun.status = "none" /\ NoRun.slot = Null /\ NoRun.retryAt = Null /\ NoRun.attempt = 0 /\ NoRun \notin Run
      /\ MaxAttempts \in Nat \ {0}
  BY SlotsAssumption, AttemptsAssumption, NoRunIsNone DEF Null
<1>3. /\ lane[s].resume # NoRun => lane[s].slot \in Slots
      /\ lane[s].pc \in HoldingPc \cup {"turnSave", "take"} => lane[s].slot \in Slots
      /\ lane[s].pc \in HoldingPc \ {"beginRead"} => lane[s].record \in Run
  BY DEF Typed, Lanes
<1>4. /\ NoLane.pc = "idle" /\ NoLane.after = Null /\ NoLane.resume = NoRun /\ NoLane.todo = {} /\ NoLane.byGrace = FALSE
      /\ NoLook.pc = "idle" /\ NoLook.at = Null
  BY DEF NoLane, NoLook
<1> USE <1>1, <1>2, <1>3, <1>4 DEF OneInv, CopiesInv, LookInv, TodoInv, RunInv, CurrentInv, PastInv,
        CutOffInv, SpentInv, StartsInv, Ended, Spent, RunPc, HoldingPc, AtSlot, Lane, State, Run0, Run, Slot0, Final
<1>5. /\ lane'[s] = NoLane /\ look'[s] = NoLook /\ mode'[s] = "down"
      /\ store' = store /\ outcome' = outcome /\ starts' = starts /\ now' = now
  BY DEF Dies, ghosts
<1>6. CopiesInv(s)' /\ LookInv(s)' /\ TodoInv(s)' /\ RunInv(s)'
  BY <1>5
<1>7. CurrentInv' /\ PastInv'
  BY <1>5
<1>8. CutOffInv(s)'
  <2>1. SUFFICES ASSUME NeverCutOff  PROVE store.current.status # "running"
    BY <1>5
  <2>2. ~(tally.crashes < MaxCrashes)
    BY <2>1 DEF NeverCutOff
  <2> QED BY <2>1, <2>2
<1>9. /\ Ended(s)' \in Nat /\ Ended(s) \in Nat /\ Ended(s) <= Ended(s)' /\ Spent(s) + 1 <= Spent(s)'
      /\ Spent(s) \in Nat /\ Spent(s)' \in Nat
      /\ mode[s] # "up" => Ended(s) + 1 = Ended(s)'
  <2>1. /\ tally.failures \in Nat /\ tally.crashes \in Nat /\ tally.stops \in Nat
        /\ mode[s] \in {"up", "stopping", "late"} /\ (mode[s] # "up" => tally.stops > 0)
    OBVIOUS
  <2>2. /\ tally'.failures = tally.failures /\ tally'.stops = tally.stops
        /\ tally'.crashes = tally.crashes \/ tally'.crashes = tally.crashes + 1
        /\ mode[s] = "up" => tally'.crashes = tally.crashes + 1
    OBVIOUS
  <2>3. Ended(s)' = tally.stops
    BY <1>5, <2>2
  <2>4. Ended(s) = IF mode[s] = "up" THEN tally.stops ELSE tally.stops - 1
    BY <2>1
  <2>5. Spent(s) = tally.failures + tally.crashes + Ended(s) /\ Spent(s)' = tally.failures + tally'.crashes + Ended(s)'
    BY <2>2
  <2> HIDE DEF Ended, Spent
  <2> QED BY <2>1, <2>2, <2>3, <2>4, <2>5
<1>10. store.current = NoRun \/ store.current \in Run
  OBVIOUS
<1>11. SpentInv(s)'
  <2>1. AttemptsToSpare => tally'.failures <= MaxFailures /\ tally'.crashes <= MaxCrashes /\ tally'.stops <= MaxStops
    <3>1. AttemptsToSpare => tally.failures <= MaxFailures /\ tally.crashes <= MaxCrashes /\ tally.stops <= MaxStops
      OBVIOUS
    <3>2. /\ tally'.failures = tally.failures /\ tally'.stops = tally.stops
          /\ \/ tally'.crashes = tally.crashes
             \/ tally.crashes < MaxCrashes /\ tally'.crashes = tally.crashes + 1
      <4>1. CASE tally' = tally
        BY <4>1, Zenon
      <4>2. CASE tally.crashes < MaxCrashes /\ tally' = [tally EXCEPT !.crashes = @ + 1]
        <5>1. tally'.failures = tally.failures /\ tally'.stops = tally.stops /\ tally'.crashes = tally.crashes + 1
          BY <4>2
        <5> QED BY <4>2, <5>1
      <4> QED BY <4>1, <4>2
    <3>3. tally.crashes \in Nat /\ MaxCrashes \in Nat
      BY BoundsAssumption
    <3> QED BY <3>1, <3>2, <3>3
  <2>2. ASSUME AttemptsToSpare, store.current # NoRun
        PROVE  store.current.attempt <= Spent(s)' /\ store.current.attempt <= Spent(s)' + 1
    <3>1. store.current.attempt <= Spent(s) + 1
      BY <2>2
    <3>2. store.current.attempt \in Nat /\ Spent(s) \in Nat /\ Spent(s)' \in Nat
      BY <1>9, <1>10, <2>2
    <3> HIDE DEF Spent
    <3> QED BY <1>9, <3>1, <3>2
  <2>3. /\ store'.current = store.current /\ lane'[s].resume = NoRun
        /\ store.current.status = NoRun.status \/ store.current # NoRun
    BY <1>5
  <2> HIDE DEF Spent
  <2> QED BY <1>5, <2>1, <2>2, <2>3
<1>12. StartsInv(s)'
  <2>1. tally'.stops = tally.stops /\ tally.stops \in Nat /\ lane'[s].pc = "idle"
    BY <1>5
  <2>2. store.current # NoRun => /\ store.current.attempt \in Nat /\ starts[store.current.slot] \in Nat
                                 /\ starts[store.current.slot] <= store.current.attempt + Ended(s)
                                 /\ starts[store.current.slot] <= store.current.attempt + Ended(s)'
    <3>1. ASSUME store.current # NoRun
          PROVE  /\ store.current.attempt \in Nat /\ starts[store.current.slot] \in Nat
                 /\ starts[store.current.slot] <= store.current.attempt + Ended(s)
      BY <1>10, <3>1
    <3> HIDE DEF Ended
    <3> QED BY <1>9, <3>1
  <2>3. store.current.status = "interrupted" => starts[store.current.slot] < store.current.attempt + Ended(s)'
    <3>1. CASE mode[s] = "up"
      <4>1. store.current.status = "interrupted" => /\ starts[store.current.slot] < store.current.attempt + Ended(s)
                                                    /\ store.current # NoRun
        BY <3>1
      <4> HIDE DEF Ended
      <4> QED BY <1>9, <2>2, <4>1
    <3>2. CASE mode[s] # "up"
      <4>1. store.current.status = "interrupted" => store.current # NoRun
        OBVIOUS
      <4> HIDE DEF Ended
      <4> QED BY <1>9, <2>2, <3>2, <4>1
    <3> QED BY <3>1, <3>2
  <2> HIDE DEF Ended
  <2> QED BY <1>5, <2>1, <2>2, <2>3
<1> QED BY <1>6, <1>7, <1>8, <1>11, <1>12

LEMMA ProcessStepOne ==
  ASSUME NEW s \in Server, Typed, Backed(s), OneInv(s), ProcessStep(s)
  PROVE  OneInv(s)'
<1>0. CASE Leaves(s) \/ Crashes(s)
  <2>1. /\ Dies(s) /\ mode[s] # "down"
        /\ \/ tally' = tally /\ (\/ mode[s] = "stopping" /\ lane[s].pc = "idle"
                                 \/ mode[s] = "late" /\ ~lane[s].byGrace)
           \/ tally.crashes < MaxCrashes /\ tally' = [tally EXCEPT !.crashes = @ + 1]
    <3>1. CASE Leaves(s)
      <4>1. /\ Dies(s) /\ tally' = tally
            /\ (mode[s] = "stopping" /\ lane[s].pc = "idle") \/ (mode[s] = "late" /\ ~lane[s].byGrace)
        BY <3>1, Zenon DEF Leaves
      <4>2. mode[s] # "down"
        BY <4>1
      <4> QED BY <4>1, <4>2, Zenon
    <3>2. CASE Crashes(s)
      BY <3>2 DEF Crashes
    <3> QED BY <1>0, <3>1, <3>2
  <2> QED BY <2>1, DyingOne
<1>1. /\ lane \in [Server -> Lane] /\ look \in [Server -> Look] /\ store \in State
      /\ starts \in [Slots -> Nat] /\ now \in Nat /\ outcome \in [Slots -> {"open", "before", "done", "failed", "skipped"}]
      /\ mode \in [Server -> {"down", "up", "stopping", "late"}] /\ tally \in [failures : Nat, crashes : Nat, stops : Nat]
  BY DEF Typed, SharedTypeOK, Lanes, Looks
<1>2. /\ Slots \subseteq Nat /\ Null = 0 /\ 0 \notin Slots
      /\ NoRun.status = "none" /\ NoRun.slot = Null /\ NoRun.retryAt = Null /\ NoRun.attempt = 0 /\ NoRun \notin Run
      /\ MaxAttempts \in Nat \ {0}
  BY SlotsAssumption, AttemptsAssumption, NoRunIsNone DEF Null
<1>3. /\ lane[s].resume # NoRun => lane[s].slot \in Slots
      /\ lane[s].pc \in HoldingPc \cup {"turnSave", "take"} => lane[s].slot \in Slots
      /\ lane[s].pc \in HoldingPc \ {"beginRead"} => lane[s].record \in Run
  BY DEF Typed, Lanes
<1>4. /\ NoLane.pc = "idle" /\ NoLane.after = Null /\ NoLane.resume = NoRun /\ NoLane.todo = {} /\ NoLane.byGrace = FALSE
      /\ NoLook.pc = "idle" /\ NoLook.at = Null
  BY DEF NoLane, NoLook
<1> USE <1>1, <1>2, <1>3, <1>4 DEF Backed, OneInv, CopiesInv, LookInv, TodoInv, RunInv, CurrentInv, PastInv,
        CutOffInv, SpentInv, StartsInv, Ended, Spent, RunPc, HoldingPc, AtSlot, Lane, State, Run0, Run, Slot0, Final
<1>5. CASE StartsUp(s)
  <2>1. mode[s] = "down" /\ mode' = [mode EXCEPT ![s] = "up"] /\ lane[s] = NoLane
    BY <1>5 DEF StartsUp
  <2>2. lane' = lane /\ look' = look /\ store' = store /\ outcome' = outcome /\ starts' = starts /\ now' = now /\ tally' = tally
    BY <1>5 DEF StartsUp, durable, ghosts
  <2> QED BY <2>1, <2>2 DEF GoesOn
<1>6. CASE Stops(s)
  <2>1. mode[s] = "up" /\ mode' = [mode EXCEPT ![s] = "stopping"]
        /\ tally.stops < MaxStops /\ tally' = [tally EXCEPT !.stops = @ + 1]
    BY <1>6 DEF Stops
  <2>2. lane' = lane /\ look' = look /\ store' = store /\ outcome' = outcome /\ starts' = starts /\ now' = now
    BY <1>6 DEF Stops, durable, ghosts
  <2>3. CopiesInv(s)' /\ LookInv(s)' /\ TodoInv(s)' /\ RunInv(s)' /\ CurrentInv' /\ PastInv'
    BY <2>2 DEF GoesOn
  <2>4. Ended(s)' = Ended(s) /\ Spent(s)' = Spent(s) /\ Ended(s) \in Nat
    <3>1. /\ tally'.stops = tally.stops + 1 /\ tally'.failures = tally.failures
          /\ tally'.crashes = tally.crashes /\ mode'[s] = "stopping"
          /\ tally.stops \in Nat
      BY <2>1
    <3>2. Ended(s)' = tally.stops /\ Ended(s) = tally.stops
      <4>1. Ended(s)' = tally'.stops - 1 /\ Ended(s) = tally.stops - 0
        BY <2>1, <3>1
      <4> QED BY <3>1, <4>1
    <3> QED BY <3>1, <3>2
  <2>5. CutOffInv(s)'
    BY <2>1, <2>2
  <2>6. SpentInv(s)'
    BY <2>1, <2>2, BoundsAssumption
  <2>7. StartsInv(s)'
    BY <2>1, <2>2
  <2> QED BY <2>3, <2>5, <2>6, <2>7
<1>7. CASE GraceEnds(s)
  <2>1. mode[s] = "stopping" /\ mode' = [mode EXCEPT ![s] = "late"] /\ (lane[s].pc = "work" \/ SlowStore)
        /\ lane' = IF lane[s].pc = "work"
                   THEN [lane EXCEPT ![s].pc = "handRead", ![s].byGrace = TRUE]
                   ELSE lane
    BY <1>7 DEF GraceEnds
  <2>2. look' = look /\ store' = store /\ outcome' = outcome /\ starts' = starts /\ now' = now /\ tally' = tally
    BY <1>7 DEF GraceEnds, durable, ghosts
  <2>3. CASE lane[s].pc = "work"
    <3>1. lane'[s] = [lane[s] EXCEPT !.pc = "handRead", !.byGrace = TRUE]
      BY <2>1, <2>3
    <3>2. CopiesInv(s)' /\ LookInv(s)' /\ TodoInv(s)' /\ RunInv(s)' /\ CurrentInv' /\ PastInv'
      BY <2>2, <2>3, <3>1
    <3>3. CutOffInv(s)' /\ SpentInv(s)' /\ StartsInv(s)'
      BY <2>1, <2>2, <2>3, <3>1
    <3> QED BY <3>2, <3>3
  <2>4. CASE lane[s].pc # "work"
    <3>1. CopiesInv(s)' /\ LookInv(s)' /\ TodoInv(s)' /\ RunInv(s)' /\ CurrentInv' /\ PastInv'
      BY <2>1, <2>2, <2>4 DEF GoesOn
    <3>2. CutOffInv(s)' /\ SpentInv(s)' /\ StartsInv(s)'
      BY <2>1, <2>2, <2>4 DEF NeverCutOff
    <3> QED BY <3>1, <3>2
  <2> QED BY <2>3, <2>4
<1> QED BY <1>0, <1>5, <1>6, <1>7 DEF ProcessStep

LEMMA OneInit == ASSUME NEW s \in Server, Init  PROVE OneInv(s)
<1>1. /\ lane[s] = NoLane /\ look[s] = NoLook /\ store = NoState /\ mode[s] = "down" /\ now = 0
      /\ tally = [failures |-> 0, crashes |-> 0, stops |-> 0]
      /\ \A t \in Slots : outcome[t] = "open" /\ starts[t] = 0
  BY DEF Init
<1>2. /\ NoLane.pc = "idle" /\ NoLane.after = Null /\ NoLane.resume = NoRun /\ NoLane.byGrace = FALSE
      /\ NoLook.pc = "idle" /\ NoLook.at = 0
      /\ NoState.current = NoRun /\ NoRun.status = "none"
  BY DEF NoLane, NoLook, NoState, NoRun, Null
<1>3. CopiesInv(s) /\ LookInv(s) /\ TodoInv(s) /\ RunInv(s) /\ CurrentInv /\ PastInv
  BY <1>1, <1>2 DEF CopiesInv, LookInv, TodoInv, RunInv, RunPc, AtSlot, HoldingPc, CurrentInv, PastInv, Final
<1>4. CutOffInv(s) /\ SpentInv(s) /\ StartsInv(s)
  BY <1>1, <1>2, BoundsAssumption DEF CutOffInv, SpentInv, StartsInv, RunPc, Final, Ended, Spent
<1> QED BY <1>3, <1>4 DEF OneInv

LEMMA OneStep ==
  ASSUME NEW s, Server = {s}, NeverCutOff \/ AttemptsToSpare, Typed, LockBacked, OneInv(s), [Next]_vars
  PROVE  OneInv(s)'
<1>1. s \in Server /\ Backed(s)
  BY DEF LockBacked, Backed
<1>2. CASE \E p \in Server : LookStep(p) \/ LaneStep(p) \/ ProcessStep(p)
  BY <1>1, <1>2, LookStepOne, LaneStepOne, ProcessStepOne
<1>3. CASE \/ \E t \in Slots : LeaseExpires(t)
           \/ Tick
           \/ UNCHANGED vars
  <2>1. /\ lane' = lane /\ look' = look /\ store' = store /\ outcome' = outcome /\ starts' = starts /\ mode' = mode
        /\ tally' = tally /\ (now' = now \/ now' = now + 1)
    BY <1>3 DEF LeaseExpires, Tick, vars, durable, ghosts
  <2>2. now \in Nat /\ look[s].at \in Nat
    BY <1>1 DEF Typed, SharedTypeOK, Looks, Look
  <2>3. CopiesInv(s)'
    BY <2>1, <2>2 DEF OneInv, CopiesInv
  <2>4. LookInv(s)' /\ TodoInv(s)' /\ RunInv(s)' /\ CurrentInv' /\ PastInv'
    BY <2>1 DEF OneInv, LookInv, TodoInv, RunInv, AtSlot, GoesOn, CurrentInv, PastInv
  <2>5. CutOffInv(s)' /\ SpentInv(s)' /\ StartsInv(s)'
    BY <2>1 DEF OneInv, CutOffInv, SpentInv, StartsInv, Ended, Spent
  <2> QED BY <2>3, <2>4, <2>5 DEF OneInv
<1> QED BY <1>2, <1>3 DEF Next

-----------------------------------------------------------------------------
(* With one server that no crash cuts off in a run, or one that has        *)
(* attempts to spare: the state, the drain and what was said of the slots  *)
(* agree.                                                                  *)
THEOREM OneServerAgrees ==
  ASSUME NEW s, Server = {s}, NeverCutOff \/ AttemptsToSpare
  PROVE  Spec => []OneInv(s)
<1>1. Init => OneInv(s)
  BY OneInit
<1>2. Typed /\ LockBacked /\ OneInv(s) /\ [Next]_vars => OneInv(s)'
  BY OneStep
<1> QED BY <1>1, <1>2, TypedInit, TypedStep, SchedulerLockBacked, PTL DEF Spec

(* What a server reads of its slots. *)
LEMMA OneTyped ==
  ASSUME NEW s \in Server, Typed
  PROVE  /\ lane[s].slot \in Nat /\ lane[s].todo \subseteq Slots /\ store.next \in Nat /\ lane[s].after \in Nat
         /\ store.current = NoRun \/ store.current \in Run
         /\ Slots \subseteq Nat /\ Null = 0 /\ 0 \notin Slots
<1>1. lane[s] \in Lane /\ store \in State
  BY DEF Typed, Lanes, SharedTypeOK
<1>2. lane[s].slot \in Slot0 /\ lane[s].todo \subseteq Slots /\ store.next \in Slot0 /\ lane[s].after \in Slot0
      /\ store.current \in Run0
  BY <1>1 DEF Lane, State
<1>3. Slots \subseteq Nat /\ Slot0 \subseteq Nat /\ Null = 0 /\ 0 \notin Slots
  BY SlotsAreNat DEF Null
<1> QED BY <1>2, <1>3 DEF Run0

(* However its runs fail, and whoever stops it, one server starts a slot   *)
(* maxAttempts times at most, and once more for each handoff.              *)
THEOREM OneServerAttemptsBounded ==
  ASSUME NEW s, Server = {s}, NeverCutOff \/ AttemptsToSpare
  PROVE  Spec => []AttemptsBounded
<1>1. Typed /\ OneInv(s) => AttemptsBounded
  <2> SUFFICES ASSUME Typed, OneInv(s), NEW t \in Slots  PROVE starts[t] <= MaxAttempts + tally.stops
    BY DEF AttemptsBounded
  <2>1. /\ starts[t] \in Nat /\ tally.stops \in Nat /\ MaxAttempts \in Nat
        /\ store.current = NoRun \/ store.current \in Run
        /\ Ended(s) \in Int /\ Ended(s) <= tally.stops
    <3>1. tally.stops \in Nat /\ starts[t] \in Nat
      BY DEF Typed, SharedTypeOK
    <3> QED BY <3>1, OneTyped, AttemptsAssumption DEF Ended
  <2>2. CASE starts[t] = 0
    BY <2>1, <2>2
  <2>3. CASE outcome[t] \in Final
    BY <2>3 DEF OneInv, StartsInv
  <2>4. CASE t = store.current.slot
    <3>1. store.current # NoRun
      BY <2>4, NoRunIsNone, SlotsAssumption DEF Null
    <3>2. store.current.attempt \in Nat /\ store.current.attempt <= MaxAttempts
      BY <2>1, <3>1 DEF OneInv, CurrentInv, Run
    <3>3. starts[t] <= store.current.attempt + Ended(s)
      BY <2>4, <3>1 DEF OneInv, StartsInv
    <3> QED BY <2>1, <3>2, <3>3
  <2> QED BY <2>2, <2>3, <2>4 DEF OneInv, PastInv
<1> QED BY <1>1, OneServerAgrees, TypedInit, TypedStep, PTL DEF Spec

(* A slot one server chose and has not handled stays at or after the next  *)
(* slot, wherever its drain is cut off.                                    *)
THEOREM OneServerTodoStillDue ==
  ASSUME NEW s, Server = {s}, NeverCutOff \/ AttemptsToSpare
  PROVE  Spec => []TodoStillDue
<1>1. Typed /\ OneInv(s) => TodoStillDue
  <2> SUFFICES ASSUME Typed, OneInv(s), NEW t \in lane[s].todo
               PROVE  outcome[t] \in {"done", "failed"} \/ (store.next # Null /\ store.next <= t)
    BY DEF TodoStillDue
  <2>1. /\ lane[s].slot \in Nat /\ lane[s].todo \subseteq Slots /\ store.next \in Nat
        /\ Slots \subseteq Nat /\ Null = 0 /\ 0 \notin Slots
    BY OneTyped
  <2>2. TodoInv(s) /\ RunInv(s) /\ CurrentInv
    BY DEF OneInv
  <2>3. lane[s].pc \in HoldingPc \cup {"turn", "turnSave", "take"}
    <3>1. lane[s].pc \in HoldingPc \cup {"idle", "turn", "turnSave", "take", "afterSave"}
      BY DEF Typed, Lanes, Lane
    <3>2. lane[s].pc # "idle" /\ lane[s].pc # "afterSave"
      BY <2>2 DEF TodoInv, NoLane
    <3> QED BY <3>1, <3>2
  <2>4. CASE lane[s].pc = "turn" /\ lane[s].resume = NoRun
    BY <2>2, <2>4 DEF TodoInv
  <2>5. CASE AtSlot(s)
    <3>1. t \in Slots /\ lane[s].slot \in Slots /\ lane[s].slot <= t
      BY <2>1, <2>2, <2>5 DEF TodoInv
    <3>2. CASE lane[s].pc \in {"turnSave", "take", "beginRead", "beginSave"}
      BY <2>1, <2>2, <3>1, <3>2 DEF TodoInv
    <3>3. CASE lane[s].pc = "turn" \/ lane[s].pc \in RunPc
      <4>1. store.current.slot = lane[s].slot
        BY <2>2, <2>5, <3>3 DEF RunInv, AtSlot, HoldingPc
      <4> QED BY <2>1, <2>2, <3>1, <4>1, NoRunIsNone DEF CurrentInv
    <3>4. CASE lane[s].pc \in {"doneRecord", "failRecord", "handRecord", "release"}
      <4>1. CASE GoesOn(s)
        <5>1. store.next = NextSlot(lane[s].slot) /\ outcome[lane[s].slot] \in Final
          BY <2>2, <3>4, <4>1 DEF RunInv
        <5>2. t = lane[s].slot \/ t > lane[s].slot
          BY <2>1, <3>1
        <5> QED BY <2>1, <3>1, <5>1, <5>2, NextSlotIsNext DEF Final
      <4>2. CASE ~GoesOn(s)
        <5>1. store.current.slot = lane[s].slot
          BY <2>2, <3>4, <4>2 DEF RunInv
        <5> QED BY <2>1, <2>2, <3>1, <5>1, NoRunIsNone DEF CurrentInv
      <4> QED BY <4>1, <4>2
    <3> QED BY <2>3, <3>2, <3>3, <3>4 DEF HoldingPc, RunPc
  <2> QED BY <2>3, <2>4, <2>5 DEF AtSlot
<1> QED BY <1>1, OneServerAgrees, TypedInit, TypedStep, PTL DEF Spec

(* Only the work of a run starts a slot. *)
LEMMA StartsKept ==
  ASSUME NEW s \in Server, LookStep(s) \/ LaneStep(s) \/ ProcessStep(s), ~BeginRecords(s)
  PROVE  starts' = starts
<1>1. CASE LookStep(s)
  <2>1. CASE LookStarts(s) \/ Adopts(s) \/ LeavesRunning(s) \/ ProbesLock(s) \/ ReleasesProbe(s)
             \/ CutOffReads(s) \/ CutOffSaves(s) \/ CutOffRecords(s)
    BY <2>1 DEF LookStarts, Adopts, LeavesRunning, ProbesLock, ReleasesProbe, CutOffReads, CutOffSaves, CutOffRecords, ghosts
  <2>2. CASE ResumesInterrupted(s) \/ WaitsForRetry(s) \/ Retries(s) \/ NothingDue(s) \/ ChoosesSlots(s)
             \/ RecordsSkipped(s) \/ MovesOn(s) \/ Drains(s)
    BY <2>2 DEF ResumesInterrupted, WaitsForRetry, Retries, NothingDue, ChoosesSlots, RecordsSkipped, MovesOn, Drains,
                StartsDrain, ghosts
  <2> QED BY <1>1, <2>1, <2>2 DEF LookStep
<1>2. CASE LaneStep(s)
  <2>1. CASE TurnReads(s) \/ TurnSaves(s) \/ LeavesSlot(s) \/ SlotIsHeld(s) \/ TakesSlot(s) \/ BeginReads(s) \/ BeginSaves(s)
    BY <2>1 DEF TurnReads, TurnSaves, LeavesSlot, SlotIsHeld, TakesSlot, BeginReads, BeginSaves, ghosts
  <2>2. CASE Succeeds(s) \/ Fails(s) \/ Interrupted(s) \/ DoneReads(s) \/ DoneSaves(s) \/ DoneRecords(s)
             \/ FailReads(s) \/ FailSaves(s) \/ FailRecords(s)
    BY <2>2 DEF Succeeds, Fails, Interrupted, DoneReads, DoneSaves, DoneRecords, FailReads, FailSaves, FailRecords, ghosts
  <2>3. CASE HandReads(s) \/ HandSaves(s) \/ HandRecords(s) \/ ReleasesSlot(s) \/ DrainEnds(s) \/ AfterReads(s) \/ AfterSaves(s)
    BY <2>3 DEF HandReads, HandSaves, HandRecords, ReleasesSlot, DrainEnds, AfterReads, AfterSaves, ghosts
  <2> QED BY <1>2, <2>1, <2>2, <2>3 DEF LaneStep
<1>3. CASE ProcessStep(s)
  BY <1>3 DEF ProcessStep, StartsUp, Stops, GraceEnds, Leaves, Crashes, Dies, ghosts
<1> QED BY <1>1, <1>2, <1>3

(* A slot that one server said is done or failed is not begun again, when  *)
(* no run is cut off or there are attempts to spare.                       *)
THEOREM OneServerFinalIsFinal ==
  ASSUME NEW s, Server = {s}, NeverCutOff \/ AttemptsToSpare
  PROVE  Spec => FinalIsFinal
<1>1. Typed /\ OneInv(s) /\ [Next]_vars
        => [\A t \in Slots : outcome[t] \in {"done", "failed"} => starts'[t] = starts[t]]_vars
  <2> SUFFICES ASSUME Typed, OneInv(s), Next, NEW t \in Slots, outcome[t] \in {"done", "failed"}
               PROVE  starts'[t] = starts[t]
    OBVIOUS
  <2>1. CASE BeginRecords(s)
    <3>1. lane[s].pc = "beginRecord" /\ starts' = [starts EXCEPT ![lane[s].slot] = @ + 1]
      BY <2>1 DEF BeginRecords, LaneGoes
    <3>2. store.current.slot = lane[s].slot /\ store.current.status = "running"
      BY <3>1 DEF OneInv, RunInv, RunPc
    <3>3. store.next = lane[s].slot
      BY <3>2, NoRunIsNone DEF OneInv, CurrentInv
    <3>4. lane[s].slot \in Slots /\ Slots \subseteq Nat /\ Null \notin Slots
      BY <3>1, SlotsAreNat DEF Typed, Lanes, HoldingPc
    <3>5. lane[s].slot # t
      BY <3>3, <3>4 DEF OneInv, PastInv, Final
    <3> QED BY <3>1, <3>5 DEF Typed, SharedTypeOK
  <2>2. CASE ~BeginRecords(s)
    <3>1. CASE LookStep(s) \/ LaneStep(s) \/ ProcessStep(s)
      BY <2>2, <3>1, StartsKept
    <3>2. CASE Tick \/ \E u \in Slots : LeaseExpires(u)
      BY <3>2 DEF Tick, LeaseExpires, ghosts
    <3> QED BY <3>1, <3>2 DEF Next
  <2> QED BY <2>1, <2>2
<1> QED BY <1>1, OneServerAgrees, TypedInit, TypedStep, PTL DEF Spec, FinalIsFinal

LEMMA NextIsLater ==
  ASSUME NEW a \in Nat
  PROVE  NextSlot(a) \in Nat /\ (NextSlot(a) = Null \/ NextSlot(a) > a)
<1> DEFINE n == NextSlot(a)
<1>1. (n \in Slots /\ n > a) \/ n = Null
  BY NextSlotIsNext
<1> HIDE DEF n
<1> QED BY <1>1, SlotsAreNat DEF Null, n

(* A look saves the state with the same next slot or a later one. *)
LEMMA LookKeepsNext ==
  ASSUME NEW s \in Server, Typed, OneInv(s), LookStep(s), store.known
  PROVE  store'.next = Null \/ (store.next # Null /\ store.next <= store'.next)
<1>1. store \in State /\ store.next \in Nat /\ look[s].at \in Nat /\ Slots \subseteq Nat
  BY SlotsAreNat DEF Typed, SharedTypeOK, Looks, Look, State
<1>2. CASE Adopts(s)
  BY <1>2 DEF Adopts, Seen, OneInv, CopiesInv
<1>3. CASE CutOffSaves(s)
  <2>1. /\ look[s].pc = "cutOffSave" /\ store' = AfterFailure(store, CutOff(s)) /\ look[s].snap = store
    BY <1>3 DEF CutOffSaves, OneInv, CopiesInv
  <2>2. store.current.status = "running" /\ store.current.attempt < MaxAttempts
    BY <2>1 DEF OneInv, LookInv
  <2>3. store.current \in Run
    BY <1>1, <2>2, NoRunIsNone DEF State, Run0
  <2>4. CutOff(s).retryAt = look[s].at + Backoff
    BY <2>1, <2>2, <2>3 DEF CutOff, FailedAt, Unfinished, Run
  <2>5. CutOff(s).retryAt # Null
    BY <1>1, <2>4, AttemptsAssumption DEF Null
  <2>6. store' = [Known(store) EXCEPT !.current = CutOff(s)]
    BY <2>1, <2>5 DEF AfterFailure
  <2>7. store'.next = store.next
    BY <1>1, <2>6 DEF Known, State
  <2> QED BY <1>1, <2>7
<1>4. CASE MovesOn(s)
  <2>1. look[s].pc = "chosen" /\ store' = [look[s].snap EXCEPT !.next = NextSlot(look[s].at)]
    BY <1>4 DEF MovesOn, SkippedAll, After
  <2>2. look[s].snap = store /\ store.next # Null /\ store.next <= look[s].at
    BY <2>1 DEF OneInv, CopiesInv, LookInv
  <2>3. store'.next = NextSlot(look[s].at)
    BY <1>1, <2>1, <2>2 DEF State
  <2>4. NextSlot(look[s].at) \in Nat /\ (NextSlot(look[s].at) = Null \/ NextSlot(look[s].at) > look[s].at)
    BY <1>1, NextIsLater
  <2> QED BY <1>1, <2>2, <2>3, <2>4
<1>5. CASE ~Adopts(s) /\ ~CutOffSaves(s) /\ ~MovesOn(s)
  <2>1. store' = store
    BY <1>5 DEF LookStep, LookStarts, LeavesRunning, ProbesLock, ReleasesProbe, CutOffReads, CutOffRecords,
                ResumesInterrupted, WaitsForRetry, Retries, NothingDue, ChoosesSlots, RecordsSkipped, Drains,
                StartsDrain, durable
  <2> QED BY <1>1, <2>1
<1> QED BY <1>2, <1>3, <1>4, <1>5

(* And so does a drain. *)
LEMMA LaneKeepsNext ==
  ASSUME NEW s \in Server, Typed, OneInv(s), LaneStep(s), store.known
  PROVE  store'.next = Null \/ (store.next # Null /\ store.next <= store'.next)
<1>1. store \in State /\ store.next \in Nat /\ lane[s].slot \in Nat /\ lane[s].after \in Nat /\ Slots \subseteq Nat
  BY SlotsAreNat DEF Typed, SharedTypeOK, Lanes, Lane, State
<1>2. Known(store) = store
  BY <1>1, KnownState
<1>3. NextSlotAfter(lane[s].slot, lane[s].slot) = Null \/ NextSlotAfter(lane[s].slot, lane[s].slot) >= lane[s].slot
  BY <1>1, NextIsLater DEF NextSlotAfter
<1>4. lane[s].pc \in RunPc =>
        /\ store.current \in Run /\ store.current.slot = lane[s].slot /\ store.next = lane[s].slot /\ store.next # Null
  <2> SUFFICES ASSUME lane[s].pc \in RunPc
               PROVE  /\ store.current \in Run /\ store.current.slot = lane[s].slot
                      /\ store.next = lane[s].slot /\ store.next # Null
    OBVIOUS
  <2>1. store.current.slot = lane[s].slot /\ store.current.status = "running"
    BY DEF OneInv, RunInv
  <2>2. store.current # NoRun
    BY <2>1, NoRunIsNone
  <2>3. store.current \in Run
    BY <1>1, <2>2 DEF State, Run0
  <2>4. store.next = lane[s].slot
    BY <2>1, <2>2 DEF OneInv, CurrentInv
  <2> QED BY <2>1, <2>3, <2>4, SlotsAreNat DEF Run
<1>5. CASE TurnSaves(s)
  <2>1. lane[s].pc = "turnSave" /\ store' = [store EXCEPT !.next = lane[s].slot]
    BY <1>2, <1>5 DEF TurnSaves, LaneGoes, OneInv, CopiesInv
  <2>2. store'.next = lane[s].slot
    BY <1>1, <2>1 DEF State
  <2> QED BY <2>1, <2>2 DEF OneInv, TodoInv
<1>6. CASE BeginSaves(s) \/ HandSaves(s)
  <2>1. lane[s].pc \in {"beginSave", "handSave"} /\ store' = [Known(lane[s].snap) EXCEPT !.current = lane[s].record]
    BY <1>6 DEF BeginSaves, HandSaves, LaneGoes
  <2>2. store' = [store EXCEPT !.current = lane[s].record]
    BY <1>2, <2>1 DEF OneInv, CopiesInv
  <2>3. store'.next = store.next
    BY <1>1, <2>2 DEF State
  <2> QED BY <1>1, <2>3
<1>7. CASE DoneSaves(s)
  <2>1. lane[s].pc = "doneSave" /\ lane[s].snap = store
    BY <1>7 DEF DoneSaves, LaneGoes, OneInv, CopiesInv
  <2>2. store'.next = NextSlotAfter(store.next, lane[s].slot)
    BY <1>1, <1>2, <1>7, <2>1 DEF DoneSaves, State
  <2>3. store.next = lane[s].slot /\ store.next # Null
    BY <1>4, <2>1 DEF RunPc
  <2> QED BY <1>3, <2>2, <2>3
<1>8. CASE FailSaves(s)
  <2>1. lane[s].pc = "failSave" /\ lane[s].snap = store /\ store' = AfterFailure(store, lane[s].record)
    BY <1>8 DEF FailSaves, LaneGoes, OneInv, CopiesInv
  <2>2. store.next = lane[s].slot /\ store.next # Null /\ store.current \in Run /\ store.current.slot = lane[s].slot
    BY <1>4, <2>1 DEF RunPc
  <2>3. lane[s].record.slot = lane[s].slot
    BY <2>1, <2>2 DEF OneInv, RunInv, FailedAt, Run
  <2>4. store'.next = store.next \/ store'.next = NextSlotAfter(store.next, lane[s].slot)
    BY <1>1, <1>2, <2>1, <2>3 DEF AfterFailure, State
  <2> QED BY <1>1, <1>3, <2>2, <2>4
<1>9. CASE AfterSaves(s)
  <2>1. lane[s].pc = "afterSave" /\ store' = [store EXCEPT !.next = lane[s].after]
    BY <1>2, <1>9 DEF AfterSaves, OneInv, CopiesInv
  <2>2. store'.next = lane[s].after
    BY <1>1, <2>1 DEF State
  <2> QED BY <2>1, <2>2 DEF OneInv, TodoInv
<1>10. CASE ~TurnSaves(s) /\ ~BeginSaves(s) /\ ~HandSaves(s) /\ ~DoneSaves(s) /\ ~FailSaves(s) /\ ~AfterSaves(s)
  <2>1. store' = store
    <3>1. CASE TurnReads(s) \/ LeavesSlot(s) \/ SlotIsHeld(s) \/ TakesSlot(s) \/ BeginReads(s) \/ BeginRecords(s)
               \/ Succeeds(s) \/ Fails(s) \/ Interrupted(s)
      BY <3>1 DEF TurnReads, LeavesSlot, SlotIsHeld, TakesSlot, BeginReads, BeginRecords, Succeeds, Fails, Interrupted, durable
    <3>2. CASE DoneReads(s) \/ DoneRecords(s) \/ FailReads(s) \/ FailRecords(s) \/ HandReads(s) \/ HandRecords(s)
               \/ ReleasesSlot(s) \/ DrainEnds(s) \/ AfterReads(s)
      BY <3>2 DEF DoneReads, DoneRecords, FailReads, FailRecords, HandReads, HandRecords, ReleasesSlot, DrainEnds,
                  AfterReads, durable
    <3> QED BY <1>10, <3>1, <3>2 DEF LaneStep
  <2> QED BY <1>1, <2>1
<1> QED BY <1>5, <1>6, <1>7, <1>8, <1>9, <1>10

(* The state of one server never goes back to a slot it moved past.        *)
THEOREM OneServerNextNeverGoesBack ==
  ASSUME NEW s, Server = {s}, NeverCutOff \/ AttemptsToSpare
  PROVE  Spec => NextNeverGoesBack
<1>1. Typed /\ OneInv(s) /\ [Next]_vars
        => [store.known => \/ store'.next = Null
                           \/ store.next # Null /\ store.next <= store'.next]_vars
  <2> SUFFICES ASSUME Typed, OneInv(s), Next, store.known
               PROVE  store'.next = Null \/ (store.next # Null /\ store.next <= store'.next)
    OBVIOUS
  <2>1. CASE LookStep(s)
    BY <2>1, LookKeepsNext
  <2>2. CASE LaneStep(s)
    BY <2>2, LaneKeepsNext
  <2>3. CASE ProcessStep(s) \/ Tick \/ \E u \in Slots : LeaseExpires(u)
    <3>1. store' = store
      BY <2>3 DEF ProcessStep, StartsUp, Stops, GraceEnds, Leaves, Crashes, Dies, Tick, LeaseExpires, durable
    <3>2. store.next \in Nat
      BY SlotsAreNat DEF Typed, SharedTypeOK, State
    <3> QED BY <3>1, <3>2
  <2> QED BY <2>1, <2>2, <2>3 DEF Next
<1> QED BY <1>1, OneServerAgrees, TypedInit, TypedStep, PTL DEF Spec, NextNeverGoesBack

-----------------------------------------------------------------------------
(* Nothing is dropped.  The slots one look passes over fit the records it  *)
(* writes (recordSkipped keeps the newest Cap of them).                    *)
SkippedFit == \A due \in SUBSET Slots, at \in Nat, end \in Nat :
  Cardinality(due \ Chosen(due, at, end, CatchUp, Overlap)) <= Cap

Listed(t) == \E h \in history : h.slot = t
Noted(t)  == outcome[t] = "before" \/ Listed(t)

(* A lock is of the run in hand: none is left by a dead process. *)
FreeInv(s) == \A t \in Slots : lock[t] \in {NoServer, s} /\ (lock[t] = s => InHand(s) /\ lane[s].slot = t)

BeforeInv == ~store.known => \A t \in Slots : outcome[t] \in {"open", "before"}

PassedInv == store.known => \A t \in Slots : Noted(t) \/ (store.next # Null /\ store.next <= t)

(* A due slot is chosen, is about to be recorded as skipped, or was. *)
LookNotesInv(s) ==
  /\ look[s].pc # "cutOffRecord"
  /\ look[s].pc = "chosen" =>
       \A t \in Slots : store.next <= t /\ t <= look[s].at => Noted(t) \/ t \in look[s].run \cup look[s].skip

(* Between the next slot and where a drain ends is what it has before it. *)
LaneNotesInv(s) ==
  /\ lane[s].pc # "idle" /\ lane[s].resume = NoRun /\ (lane[s].todo # {} \/ lane[s].after # Null) /\ store.next # Null =>
       \A t \in Slots : store.next <= t /\ (lane[s].after # Null => t < lane[s].after) => Noted(t) \/ t \in lane[s].todo
  /\ lane[s].pc \in {"work", "doneRead", "doneSave", "failRead", "failSave"} => Listed(lane[s].slot)

DropInv(s) == FreeInv(s) /\ BeforeInv /\ PassedInv /\ LookNotesInv(s) /\ LaneNotesInv(s)

LEMMA NextIsFirst ==
  ASSUME NEW a \in Nat, NEW t \in Slots, t > a
  PROVE  NextSlot(a) # Null /\ NextSlot(a) <= t
<1> DEFINE n == NextSlot(a)
<1>1. \/ n \in Slots /\ n > a /\ \A u \in Slots : u > a => u >= n
      \/ n = Null /\ \A u \in Slots : u <= a
  BY NextSlotIsNext
<1> HIDE DEF n
<1> QED BY <1>1, SlotsAreNat DEF n

(* A record stays, one of the same run in its place at most. *)
LEMMA ListedStays ==
  ASSUME NEW r, history' = Recorded(r), NEW t
  PROVE  /\ Listed(t) => Listed(t)'
         /\ t = r.slot => Listed(t)'
<1>1. r \in history'
  BY DEF Recorded
<1>2. ASSUME NEW h \in history  PROVE \E g \in history' : g.slot = h.slot
  <2>1. CASE SameRun(h, r)
    BY <1>1, <2>1 DEF SameRun
  <2>2. CASE ~SameRun(h, r)
    BY <2>2 DEF Recorded
  <2> QED BY <2>1, <2>2
<1> QED BY <1>1, <1>2 DEF Listed

(* The n newest of at most n are all of them. *)
LEMMA FewAreNewest ==
  ASSUME NEW S, IsFiniteSet(S), S \subseteq Nat, NEW n \in Nat, Cardinality(S) <= n
  PROVE  NewestOf(S, n) = S
<1> SUFFICES ASSUME NEW u \in S  PROVE Cardinality({t \in S : u < t}) < n
  BY DEF NewestOf
<1> DEFINE T == {t \in S : u < t}
<1>1. T \in SUBSET S /\ u \notin T
  OBVIOUS
<1> HIDE DEF T
<1>2. IsFiniteSet(T) /\ Cardinality(T) <= Cardinality(S) /\ (Cardinality(S) = Cardinality(T) => S = T)
  BY <1>1, FS_Subset
<1>3. Cardinality(T) \in Nat /\ Cardinality(S) \in Nat
  BY <1>2, FS_CardinalityType
<1>4. Cardinality(T) # Cardinality(S)
  BY <1>1, <1>2
<1> QED BY <1>2, <1>3, <1>4 DEF T

(* A schedule no longer than the cap has no slots but those that fit. *)
LEMMA FewSlotsFit ==
  ASSUME Cardinality(Slots) <= Cap
  PROVE  SkippedFit
<1> SUFFICES ASSUME NEW due \in SUBSET Slots, NEW at \in Nat, NEW end \in Nat
             PROVE  Cardinality(due \ Chosen(due, at, end, CatchUp, Overlap)) <= Cap
  BY DEF SkippedFit
<1> DEFINE rest == due \ Chosen(due, at, end, CatchUp, Overlap)
<1>1. rest \in SUBSET Slots /\ IsFiniteSet(Slots)
  BY SlotsAssumption
<1> HIDE DEF rest
<1>2. Cardinality(rest) <= Cardinality(Slots) /\ IsFiniteSet(rest)
  BY <1>1, FS_Subset
<1>3. Cardinality(rest) \in Nat /\ Cardinality(Slots) \in Nat
  BY <1>1, <1>2, FS_CardinalityType
<1> QED BY <1>2, <1>3, CapAssumption DEF rest

LEMMA LaneStepDrops ==
  ASSUME NEW s \in Server, Typed, Backed(s), OneInv(s), DropInv(s), LaneStep(s)
  PROVE  DropInv(s)'
<1>1. /\ lane \in [Server -> Lane] /\ look \in [Server -> Look] /\ store \in State
      /\ outcome \in [Slots -> {"open", "before", "done", "failed", "skipped"}]
      /\ lock \in [Slots -> Server \cup {NoServer, DeadServer}] /\ history \subseteq Run
  BY DEF Typed, SharedTypeOK, Lanes, Looks
<1>2. /\ lane[s].slot \in Nat /\ lane[s].todo \subseteq Slots /\ store.next \in Nat /\ lane[s].after \in Nat
      /\ Slots \subseteq Nat /\ Null = 0 /\ 0 \notin Slots
  BY OneTyped
<1>3. /\ lane[s].resume # NoRun => lane[s].slot \in Slots
      /\ lane[s].pc \in HoldingPc \cup {"turnSave", "take"} => lane[s].slot \in Slots
      /\ lane[s].pc \in HoldingPc \ {"beginRead"} => lane[s].record \in Run
  BY DEF Typed, Lanes
<1>4. lane[s].pc # "idle" => Known(store) = store /\ store.known
  BY <1>1, KnownState DEF OneInv, TodoInv
<1>5. /\ NoLane.pc = "idle" /\ NoLane.after = Null /\ NoLane.resume = NoRun /\ NoLane.todo = {}
  BY DEF NoLane
<1>6. look'= look /\ (lane[s].pc # "idle" /\ look[s].pc = "idle")
  BY DEF LaneStep, Backed, AtTake, LaneGoes, LaneReads, TurnReads, TurnSaves, LeavesSlot,
         SlotIsHeld, TakesSlot, BeginReads, BeginSaves, BeginRecords,
         Succeeds, Fails, Interrupted, DoneReads, DoneSaves, DoneRecords, FailReads, FailSaves, FailRecords,
         HandReads, HandSaves, HandRecords, ReleasesSlot, DrainEnds, AfterReads, AfterSaves
<1>7. LookNotesInv(s)'
  BY <1>6 DEF LookNotesInv
<1> USE <1>1, <1>2, <1>3, <1>5 DEF Lane, State
<1>10. CASE TurnReads(s)
  <2>1. PICK o \in lane[s].todo : lane'[s] = [lane[s] EXCEPT !.pc = "turnSave", !.slot = o, !.snap = store]
    BY <1>10 DEF TurnReads
  <2>2. lane[s].pc = "turn" /\ store' = store /\ outcome' = outcome /\ lock' = lock /\ history' = history
    BY <1>10 DEF TurnReads, durable, ghosts
  <2>3. \A t \in Slots : (Noted(t)' <=> Noted(t)) /\ (Listed(t)' <=> Listed(t))
    BY <2>2 DEF Noted, Listed
  <2>4. FreeInv(s)'
    BY <2>1, <2>2 DEF DropInv, FreeInv, InHand, HoldingPc
  <2>5. BeforeInv' /\ PassedInv'
    BY <2>2, <2>3 DEF DropInv, BeforeInv, PassedInv
  <2>6. LaneNotesInv(s)'
    BY <2>1, <2>2, <2>3 DEF DropInv, LaneNotesInv
  <2> QED BY <1>7, <2>4, <2>5, <2>6 DEF DropInv
<1>11. CASE TurnSaves(s)
  <2>1. /\ lane[s].pc = "turnSave" /\ lane'[s] = [lane[s] EXCEPT !.pc = "take"]
        /\ store' = [store EXCEPT !.next = lane[s].slot]
        /\ outcome' = outcome /\ lock' = lock /\ history' = history
    BY <1>4, <1>11 DEF TurnSaves, LaneGoes, OneInv, CopiesInv, ghosts
  <2>2. /\ lane[s].resume = NoRun /\ lane[s].slot \in lane[s].todo /\ \A t \in lane[s].todo : lane[s].slot <= t
        /\ store.next # Null /\ store.next <= lane[s].slot
        /\ lane[s].after # Null => \A t \in lane[s].todo : t < lane[s].after
    BY <2>1 DEF OneInv, TodoInv, AtSlot
  <2>3. \A t \in Slots : (Noted(t)' <=> Noted(t)) /\ (Listed(t)' <=> Listed(t))
    BY <2>1 DEF Noted, Listed
  <2>4. FreeInv(s)'
    BY <2>1 DEF DropInv, FreeInv, InHand, HoldingPc
  <2>5. BeforeInv'
    BY <1>4, <2>1 DEF BeforeInv
  <2>6. ASSUME NEW t \in Slots, t < lane[s].slot  PROVE Noted(t)
    <3>1. t \notin lane[s].todo /\ (lane[s].after # Null => t < lane[s].after)
      BY <2>2, <2>6
    <3>2. CASE store.next <= t
      BY <2>1, <2>2, <3>1, <3>2 DEF DropInv, LaneNotesInv
    <3>3. CASE t < store.next
      BY <1>4, <2>1, <3>3 DEF DropInv, PassedInv
    <3> QED BY <3>2, <3>3
  <2>7. PassedInv'
    BY <1>4, <2>1, <2>2, <2>3, <2>6 DEF PassedInv
  <2>8. LaneNotesInv(s)'
    BY <2>1, <2>2, <2>3 DEF DropInv, LaneNotesInv
  <2> QED BY <1>7, <2>4, <2>5, <2>7, <2>8 DEF DropInv
<1>12. CASE LeavesSlot(s) \/ DrainEnds(s)
  <2>1. /\ lane[s].pc \notin HoldingPc /\ lane'[s] = NoLane /\ store' = store
        /\ outcome' = outcome /\ lock' = lock /\ history' = history
    BY <1>12 DEF LeavesSlot, DrainEnds, AtTake, LaneEnds, durable, ghosts, HoldingPc
  <2>2. \A t \in Slots : (Noted(t)' <=> Noted(t))
    BY <2>1 DEF Noted, Listed
  <2>3. FreeInv(s)'
    BY <2>1 DEF DropInv, FreeInv, InHand, HoldingPc
  <2>4. BeforeInv' /\ PassedInv'
    BY <2>1, <2>2 DEF DropInv, BeforeInv, PassedInv
  <2>5. LaneNotesInv(s)'
    BY <2>1 DEF LaneNotesInv
  <2> QED BY <1>7, <2>3, <2>4, <2>5 DEF DropInv
<1>13. CASE SlotIsHeld(s)
  BY <1>13 DEF SlotIsHeld, AtTake, Takeable, DropInv, FreeInv
<1>14. CASE TakesSlot(s)
  <2>1. /\ lane[s].pc \in {"take", "turn"} /\ lane'[s] = [lane[s] EXCEPT !.pc = "beginRead"] /\ store' = store
        /\ outcome' = outcome /\ lock' = [lock EXCEPT ![lane[s].slot] = s] /\ history' = history
    BY <1>14 DEF TakesSlot, AtTake, Taken, ghosts
  <2>2. \A t \in Slots : (Noted(t)' <=> Noted(t))
    BY <2>1 DEF Noted, Listed
  <2>3. FreeInv(s)'
    BY <2>1, OwnersAssumption DEF DropInv, FreeInv, InHand, HoldingPc
  <2>4. BeforeInv' /\ PassedInv'
    BY <2>1, <2>2 DEF DropInv, BeforeInv, PassedInv
  <2>5. LaneNotesInv(s)'
    BY <2>1, <2>2 DEF DropInv, LaneNotesInv
  <2> QED BY <1>7, <2>3, <2>4, <2>5 DEF DropInv
<1>15. CASE \/ BeginReads(s) \/ Succeeds(s) \/ Fails(s) \/ Interrupted(s) \/ DoneReads(s) \/ FailReads(s) \/ HandReads(s)
  <2>1. /\ lane[s].pc \in HoldingPc /\ lane'[s].pc \in HoldingPc
        /\ lane'[s].todo = lane[s].todo /\ lane'[s].slot = lane[s].slot
        /\ lane'[s].resume = lane[s].resume /\ lane'[s].after = lane[s].after
        /\ lane[s].pc \in {"work", "doneRead", "failRead"}
             \/ lane'[s].pc \notin {"work", "doneRead", "doneSave", "failRead", "failSave"}
    BY <1>15 DEF BeginReads, Succeeds, Fails, Interrupted, DoneReads, FailReads, HandReads, LaneGoes, LaneReads, HoldingPc
  <2>2. store' = store /\ outcome' = outcome /\ lock' = lock /\ history' = history
    BY <1>15 DEF BeginReads, Succeeds, Fails, Interrupted, DoneReads, FailReads, HandReads, durable, ghosts
  <2>3. \A t \in Slots : (Noted(t)' <=> Noted(t)) /\ (Listed(t)' <=> Listed(t))
    BY <2>2 DEF Noted, Listed
  <2>4. FreeInv(s)'
    BY <2>1, <2>2 DEF DropInv, FreeInv, InHand
  <2>5. BeforeInv' /\ PassedInv'
    BY <2>2, <2>3 DEF DropInv, BeforeInv, PassedInv
  <2>6. LaneNotesInv(s)'
    BY <2>1, <2>2, <2>3 DEF DropInv, LaneNotesInv, HoldingPc
  <2> QED BY <1>7, <2>4, <2>5, <2>6 DEF DropInv
<1>16. CASE BeginSaves(s) \/ HandSaves(s)
  <2>1. /\ lane[s].pc \in {"beginSave", "handSave"}
        /\ lane'[s] = [lane[s] EXCEPT !.pc = IF @ = "beginSave" THEN "beginRecord" ELSE "handRecord"]
        /\ store' = [store EXCEPT !.current = lane[s].record]
        /\ outcome' = outcome /\ lock' = lock /\ history' = history
    BY <1>4, <1>16 DEF BeginSaves, HandSaves, LaneGoes, OneInv, CopiesInv, ghosts
  <2>2. \A t \in Slots : (Noted(t)' <=> Noted(t)) /\ (Listed(t)' <=> Listed(t))
    BY <2>1 DEF Noted, Listed
  <2>3. FreeInv(s)'
    BY <2>1 DEF DropInv, FreeInv, InHand, HoldingPc
  <2>4. store'.known = store.known /\ store'.next = store.next
    BY <2>1
  <2>5. BeforeInv' /\ PassedInv'
    BY <2>1, <2>2, <2>4 DEF DropInv, BeforeInv, PassedInv
  <2>6. LaneNotesInv(s)'
    BY <2>1, <2>2, <2>4 DEF DropInv, LaneNotesInv
  <2> QED BY <1>7, <2>3, <2>5, <2>6 DEF DropInv
<1>22. CASE BeginRecords(s)
  <2>1. /\ lane[s].pc = "beginRecord" /\ lane'[s] = [lane[s] EXCEPT !.pc = "work"] /\ store' = store
        /\ outcome' = outcome /\ lock' = lock /\ history' = Recorded(lane[s].record)
    BY <1>22 DEF BeginRecords, LaneGoes
  <2>2. \A t \in Slots : (Listed(t) => Listed(t)') /\ (t = lane[s].record.slot => Listed(t)')
    BY <2>1, ListedStays, Zenon
  <2>3. \A t \in Slots : Noted(t) => Noted(t)'
    BY <2>1, <2>2 DEF Noted
  <2>4. FreeInv(s)'
    BY <2>1 DEF DropInv, FreeInv, InHand, HoldingPc
  <2>5. BeforeInv' /\ PassedInv'
    BY <2>1, <2>3 DEF DropInv, BeforeInv, PassedInv
  <2>6. lane[s].slot \in Slots /\ lane[s].record.slot = lane[s].slot /\ lane'[s].slot = lane[s].slot
    BY <2>1 DEF OneInv, RunInv, RunPc, HoldingPc
  <2>7. LaneNotesInv(s)'
    <3>1. Listed(lane[s].slot)'
      BY <2>2, <2>6
    <3> QED BY <2>1, <2>3, <3>1 DEF DropInv, LaneNotesInv
  <2> QED BY <1>7, <2>4, <2>5, <2>7 DEF DropInv
<1>17. CASE DoneRecords(s) \/ FailRecords(s) \/ HandRecords(s)
  <2>1. /\ lane[s].pc \in {"doneRecord", "failRecord", "handRecord"}
        /\ lane'[s] = [lane[s] EXCEPT !.pc = "release"] /\ store' = store /\ outcome' = outcome /\ lock' = lock
    BY <1>17 DEF DoneRecords, FailRecords, HandRecords, LaneGoes, ghosts
  <2>2. PICK r : history' = Recorded(r)
    BY <1>17 DEF DoneRecords, FailRecords, HandRecords
  <2>3. \A t \in Slots : Noted(t) => Noted(t)'
    <3>1. \A t \in Slots : Listed(t) => Listed(t)'
      BY <2>2, ListedStays, Zenon
    <3> QED BY <2>1, <3>1 DEF Noted
  <2>4. FreeInv(s)'
    BY <2>1 DEF DropInv, FreeInv, InHand, HoldingPc
  <2>5. BeforeInv' /\ PassedInv'
    BY <2>1, <2>3 DEF DropInv, BeforeInv, PassedInv
  <2>6. LaneNotesInv(s)'
    BY <2>1, <2>3 DEF DropInv, LaneNotesInv
  <2> QED BY <1>7, <2>4, <2>5, <2>6 DEF DropInv
<1>18. CASE DoneSaves(s) \/ FailSaves(s)
  <2>1. /\ lane[s].pc \in {"doneSave", "failSave"} /\ lane'[s].pc \in {"doneRecord", "failRecord"}
        /\ lane'[s].todo = lane[s].todo /\ lane'[s].slot = lane[s].slot /\ lane'[s].resume = lane[s].resume
        /\ lane'[s].after = lane[s].after /\ lock' = lock /\ history' = history
    BY <1>18 DEF DoneSaves, FailSaves, LaneGoes
  <2>2. store.current \in Run /\ store.current.slot = lane[s].slot /\ store.next = lane[s].slot /\ store.next # Null
        /\ lane[s].record.slot = lane[s].slot
    <3>1. store.current.slot = lane[s].slot /\ store.current.status = "running"
      BY <2>1 DEF OneInv, RunInv, RunPc
    <3>2. store.current # NoRun
      BY <3>1, NoRunIsNone
    <3>3. store.current \in Run
      BY <3>2 DEF Run0
    <3>4. store.next = lane[s].slot
      BY <3>1, <3>2 DEF OneInv, CurrentInv
    <3>5. lane[s].record.slot = lane[s].slot
      BY <2>1, <3>1, <3>3 DEF OneInv, RunInv, RunPc, FailedAt, Run
    <3> QED BY <3>1, <3>3, <3>4, <3>5 DEF Run
  <2>3. NextSlotAfter(store.next, lane[s].slot) = NextSlot(lane[s].slot)
    BY <2>2 DEF NextSlotAfter
  <2>4. /\ store'.known
        /\ \/ store'.next = store.next /\ outcome' = outcome
           \/ store'.next = NextSlot(lane[s].slot) /\ \E w : outcome' = [outcome EXCEPT ![lane[s].slot] = w]
    <3>1. CASE DoneSaves(s)
      <4>1. /\ store' = [store EXCEPT !.current = NoRun,
                                    !.last = IF store.last > lane[s].slot THEN store.last ELSE lane[s].slot,
                                    !.next = NextSlotAfter(store.next, lane[s].slot)]
            /\ outcome' = [outcome EXCEPT ![lane[s].slot] = "done"]
        BY <1>4, <2>1, <3>1 DEF DoneSaves, LaneGoes, OneInv, CopiesInv, Said
      <4>2. store'.known = store.known /\ store'.next = NextSlot(lane[s].slot)
        BY <2>3, <4>1
      <4> QED BY <1>4, <2>1, <4>1, <4>2
    <3>2. CASE FailSaves(s)
      <4> DEFINE r == lane[s].record
      <4>1. lane[s].snap = store /\ store' = AfterFailure(store, r) /\ SaidIfLast(r) /\ Known(store) = store /\ store.known
        BY <1>4, <3>2 DEF FailSaves, LaneGoes, OneInv, CopiesInv
      <4>2. r.slot = lane[s].slot
        BY <2>2
      <4> HIDE DEF r
      <4>3. CASE r.retryAt # Null
        <5>1. store' = [store EXCEPT !.current = r] /\ outcome' = outcome
          BY <4>1, <4>3 DEF AfterFailure, SaidIfLast
        <5> QED BY <4>1, <5>1
      <4>4. CASE r.retryAt = Null
        <5>1. store' = [store EXCEPT !.current = NoRun, !.next = NextSlotAfter(store.next, lane[s].slot)]
          BY <4>1, <4>2, <4>4 DEF AfterFailure
        <5>2. outcome' = [outcome EXCEPT ![lane[s].slot] = "failed"]
          BY <4>1, <4>2, <4>4 DEF SaidIfLast, Said
        <5>3. store'.known = store.known /\ store'.next = NextSlot(lane[s].slot)
          BY <2>3, <5>1
        <5> QED BY <4>1, <5>2, <5>3
      <4> QED BY <4>3, <4>4
    <3> QED BY <1>18, <3>1, <3>2
  <2>5. Listed(lane[s].slot) /\ \A t \in Slots : (Noted(t) => Noted(t)') /\ (Listed(t) => Listed(t)')
    BY <2>1, <2>4 DEF DropInv, LaneNotesInv, Noted, Listed
  <2>6. FreeInv(s)'
    BY <2>1 DEF DropInv, FreeInv, InHand, HoldingPc
  <2>7. BeforeInv'
    BY <2>4 DEF BeforeInv
  <2>8. \/ store'.next = store.next
        \/ /\ store'.next \in Nat /\ (store'.next = Null \/ store'.next > lane[s].slot)
           /\ \A t \in Slots : t > lane[s].slot => store'.next # Null /\ store'.next <= t
    <3> DEFINE n == NextSlot(lane[s].slot)
    <3>1. /\ n \in Nat /\ (n = Null \/ n > lane[s].slot)
          /\ \A t \in Slots : t > lane[s].slot => n # Null /\ n <= t
      BY NextIsLater, NextIsFirst, Zenon
    <3>2. store'.next = store.next \/ store'.next = n
      BY <2>4
    <3> HIDE DEF n
    <3> QED BY <3>1, <3>2, ZenonT(30)
  <2>9. Listed(lane[s].slot)'
    BY <2>1, <2>5 DEF Listed
  <2>10. PassedInv'
    <3> SUFFICES ASSUME NEW t \in Slots  PROVE Noted(t)' \/ (store'.next # Null /\ store'.next <= t)
      BY DEF PassedInv
    <3>1. CASE t = lane[s].slot
      BY <2>1, <2>9, <3>1 DEF Noted, Listed
    <3>2. CASE t < lane[s].slot
      BY <1>4, <2>1, <2>2, <2>5, <3>2 DEF DropInv, PassedInv
    <3>3. CASE t > lane[s].slot
      BY <2>2, <2>8, <3>3
    <3>4. t \in Nat
      OBVIOUS
    <3> HIDE <1>1, <1>3, <1>5
    <3>5. t = lane[s].slot \/ t < lane[s].slot \/ t > lane[s].slot
      BY <3>4
    <3> QED BY <3>1, <3>2, <3>3, <3>5, Zenon
  <2>11. LaneNotesInv(s)'
    <3> SUFFICES ASSUME lane[s].resume = NoRun, lane[s].todo # {} \/ lane[s].after # Null, store'.next # Null,
                        NEW t \in Slots, store'.next <= t, lane[s].after # Null => t < lane[s].after
                 PROVE  Noted(t)' \/ t \in lane[s].todo
      BY <2>1 DEF LaneNotesInv
    <3>1. store.next <= t
      <4> HIDE <1>1, <1>2, <1>3, <1>5
      <4> QED BY <2>2, <2>8, SlotsAreNat DEF Run
    <3> QED BY <2>1, <2>2, <2>5, <3>1 DEF DropInv, LaneNotesInv
  <2> QED BY <1>7, <2>6, <2>7, <2>10, <2>11 DEF DropInv
<1>19. CASE ReleasesSlot(s)
  <2>1. /\ lane[s].pc = "release" /\ store' = store /\ outcome' = outcome /\ history' = history
        /\ Released(s, lane[s].slot) /\ lane[s].slot \in Slots
    BY <1>19 DEF ReleasesSlot, ghosts, HoldingPc
  <2>2. lane'[s] = [lane[s] EXCEPT !.pc = "turn", !.todo = @ \ {lane[s].slot}, !.resume = NoRun] \/ lane'[s] = NoLane
    BY <1>19 DEF ReleasesSlot, NextTurn, LaneEnds
  <2>3. \A t \in Slots : (Noted(t)' <=> Noted(t))
    BY <2>1 DEF Noted, Listed
  <2>4. FreeInv(s)'
    BY <2>1, OwnersAssumption DEF DropInv, FreeInv, InHand, HoldingPc, Released
  <2>5. BeforeInv' /\ PassedInv'
    BY <2>1, <2>3 DEF DropInv, BeforeInv, PassedInv
  <2>6. CASE lane'[s] = NoLane
    <3>1. LaneNotesInv(s)'
      BY <2>6 DEF LaneNotesInv
    <3> QED BY <1>7, <2>4, <2>5, <3>1 DEF DropInv
  <2>7. CASE lane'[s] = [lane[s] EXCEPT !.pc = "turn", !.todo = @ \ {lane[s].slot}, !.resume = NoRun] /\ lane'[s] # NoLane
    <3>1. GoesOn(s)
      BY <1>19, <2>7 DEF ReleasesSlot, LaneEnds
    <3>2. store.next = NextSlot(lane[s].slot)
      BY <2>1, <3>1 DEF OneInv, RunInv
    <3>3. store.next # Null => store.next > lane[s].slot
      BY <3>2, NextIsLater
    <3>4. /\ lane[s].resume # NoRun => lane[s].after = Null /\ lane[s].todo = {lane[s].slot}
          /\ lane[s].slot \in lane[s].todo
      BY <2>1 DEF OneInv, TodoInv, AtSlot, HoldingPc
    <3>5. LaneNotesInv(s)'
      BY <2>1, <2>3, <2>7, <3>3, <3>4 DEF DropInv, LaneNotesInv
    <3> QED BY <1>7, <2>4, <2>5, <3>5 DEF DropInv
  <2> QED BY <2>2, <2>6, <2>7
<1>20. CASE AfterReads(s)
  <2>1. /\ lane[s].pc = "turn" /\ lane'[s] = [lane[s] EXCEPT !.pc = "afterSave", !.snap = store]
        /\ store' = store /\ outcome' = outcome /\ lock' = lock /\ history' = history
    BY <1>20 DEF AfterReads, LaneReads, durable, ghosts
  <2>2. \A t \in Slots : (Noted(t)' <=> Noted(t))
    BY <2>1 DEF Noted, Listed
  <2>3. FreeInv(s)'
    BY <2>1 DEF DropInv, FreeInv, InHand, HoldingPc
  <2>4. BeforeInv' /\ PassedInv'
    BY <2>1, <2>2 DEF DropInv, BeforeInv, PassedInv
  <2>5. LaneNotesInv(s)'
    BY <2>1, <2>2 DEF DropInv, LaneNotesInv
  <2> QED BY <1>7, <2>3, <2>4, <2>5 DEF DropInv
<1>21. CASE AfterSaves(s)
  <2>1. /\ lane[s].pc = "afterSave" /\ lane'[s] = NoLane /\ store' = [store EXCEPT !.next = lane[s].after]
        /\ outcome' = outcome /\ lock' = lock /\ history' = history
    BY <1>4, <1>21 DEF AfterSaves, LaneEnds, OneInv, CopiesInv, ghosts
  <2>2. /\ lane[s].after # Null /\ lane[s].todo = {} /\ lane[s].resume = NoRun
        /\ store.next # Null /\ store.next <= lane[s].after
    BY <2>1 DEF OneInv, TodoInv
  <2>3. \A t \in Slots : (Noted(t)' <=> Noted(t))
    BY <2>1 DEF Noted, Listed
  <2>4. FreeInv(s)'
    BY <2>1 DEF DropInv, FreeInv, InHand, HoldingPc
  <2>5. BeforeInv'
    BY <1>4, <2>1 DEF BeforeInv
  <2>6. ASSUME NEW t \in Slots, t < lane[s].after  PROVE Noted(t)
    <3>1. CASE store.next <= t
      BY <2>1, <2>2, <2>6, <3>1 DEF DropInv, LaneNotesInv
    <3>2. CASE t < store.next
      BY <1>4, <2>1, <3>2 DEF DropInv, PassedInv
    <3> QED BY <3>1, <3>2
  <2>7. PassedInv'
    BY <1>4, <2>1, <2>2, <2>3, <2>6 DEF PassedInv
  <2>8. LaneNotesInv(s)'
    BY <2>1 DEF LaneNotesInv
  <2> QED BY <1>7, <2>4, <2>5, <2>7, <2>8 DEF DropInv
<1> QED
  BY <1>10, <1>11, <1>12, <1>13, <1>14, <1>15, <1>16, <1>22, <1>17, <1>18, <1>19, <1>20, <1>21 DEF LaneStep

LEMMA NextAttemptIsRun == ASSUME NEW r \in Run  PROVE [r EXCEPT !.attempt = @ + 1] \in Run
  BY DEF Run

(* What a drain starts with. *)
LEMMA DrainLane ==
  ASSUME NEW s \in Server, lane \in [Server -> Lane], lane[s] = NoLane,
         NEW items, NEW slot, NEW resume, NEW after, StartsDrain(s, items, slot, resume, after)
  PROVE  \/ lane'[s] = NoLane
         \/ lane'[s].pc = "turn" /\ lane'[s].todo = items /\ lane'[s].resume = resume /\ lane'[s].after = after
<1> DEFINE l == [NoLane EXCEPT !.pc = "turn", !.todo = items, !.slot = slot, !.resume = resume, !.after = after]
<1>1. lane'[s] = l \/ lane'[s] = NoLane
  BY DEF StartsDrain
<1>2. l.pc = "turn" /\ l.todo = items /\ l.resume = resume /\ l.after = after
  BY DEF NoLane
<1> QED BY <1>1, <1>2

LEMMA LookStepDrops ==
  ASSUME NEW s \in Server, Typed, Backed(s), OneInv(s), DropInv(s), NeverCutOff, SkippedFit, LookStep(s)
  PROVE  DropInv(s)'
<1>1. /\ lane \in [Server -> Lane] /\ look \in [Server -> Look] /\ store \in State /\ busyUntil \in [Server -> Nat]
      /\ outcome \in [Slots -> {"open", "before", "done", "failed", "skipped"}]
      /\ lock \in [Slots -> Server \cup {NoServer, DeadServer}] /\ history \subseteq Run
  BY DEF Typed, SharedTypeOK, Lanes, Looks
<1>2. /\ store.next \in Nat /\ Slots \subseteq Nat /\ Null = 0 /\ 0 \notin Slots
  BY OneTyped
<1>3. look[s].at \in Nat /\ look[s].run \subseteq Slots /\ look[s].skip \subseteq Slots /\ busyUntil[s] \in Nat
  BY <1>1 DEF Look
<1>4. NoLane.pc = "idle" /\ NoLook.pc = "idle"
  BY DEF NoLane, NoLook
<1>5. look[s].pc # "idle" => lane[s] = NoLane
  BY DEF Backed, OneInv, TodoInv
<1>6. look[s].pc \notin {"probed", "cutOffRead", "cutOffSave", "cutOffRecord", "due"}
      /\ ~(look[s].pc = "seen" /\ look[s].snap.current.status = "running")
  BY <1>4, <1>5 DEF OneInv, CopiesInv, LookInv, CutOffInv, RunPc, Backed, DropInv, LookNotesInv
<1> USE <1>1, <1>2, <1>3, <1>4 DEF Look, State
<1>7. ASSUME lane'[s].pc = "idle", lock' = lock, lane[s].pc = "idle"
      PROVE  FreeInv(s)' /\ LaneNotesInv(s)'
  BY <1>7 DEF DropInv, FreeInv, LaneNotesInv, InHand, HoldingPc
<1>8. ASSUME store' = store, outcome' = outcome, history' = history
      PROVE  BeforeInv' /\ PassedInv' /\ \A t \in Slots : (Noted(t)' <=> Noted(t))
  BY <1>8 DEF DropInv, BeforeInv, PassedInv, Noted, Listed
<1>9. OnToSlots(s) => look[s].pc = "seen" /\ look[s].snap = store /\ store.known
  BY <1>6 DEF OnToSlots, Seen, OneInv, CopiesInv
<1>10. CASE LookStarts(s) \/ LeavesRunning(s) \/ WaitsForRetry(s) \/ NothingDue(s)
  <2>1. lane' = lane /\ lock' = lock /\ store' = store /\ outcome' = outcome /\ history' = history
    BY <1>10 DEF LookStarts, LeavesRunning, WaitsForRetry, NothingDue, durable, ghosts
  <2>2. lane[s].pc = "idle"
    BY <1>5, <1>9, <1>10 DEF LookStarts, LeavesRunning, WaitsForRetry, NothingDue, Seen
  <2>3. look'[s].pc \in {"seen", "idle"}
    <3>1. [NoLook EXCEPT !.pc = "seen", !.at = now, !.snap = store].pc = "seen"
      BY DEF NoLook
    <3> QED BY <1>10, <3>1 DEF LookStarts, LeavesRunning, WaitsForRetry, NothingDue, LookEnds
  <2> QED BY <1>7, <1>8, <2>1, <2>2, <2>3 DEF DropInv, LookNotesInv
<1>11. CASE Adopts(s)
  <2>1. /\ look[s].pc = "seen" /\ ~store.known /\ look'[s] = NoLook /\ lane' = lane /\ lock' = lock /\ history' = history
        /\ store' = [Known(NoState) EXCEPT !.next = NextSlot(look[s].at)]
        /\ outcome' = [t \in Slots |-> IF t <= look[s].at /\ outcome[t] = "open" THEN "before" ELSE outcome[t]]
    BY <1>11 DEF Adopts, Seen, LookEnds, OneInv, CopiesInv
  <2>2. store'.known /\ store'.next = NextSlot(look[s].at)
    BY <2>1 DEF Known, NoState
  <2>3. BeforeInv'
    BY <2>2 DEF BeforeInv
  <2>4. PassedInv'
    <3> SUFFICES ASSUME NEW t \in Slots  PROVE Noted(t)' \/ (store'.next # Null /\ store'.next <= t)
      BY DEF PassedInv
    <3>1. CASE t <= look[s].at
      <4>1. outcome[t] \in {"open", "before"}
        BY <2>1 DEF DropInv, BeforeInv
      <4> QED BY <2>1, <3>1, <4>1 DEF Noted
    <3>2. CASE t > look[s].at
      BY <2>2, <3>2, NextIsFirst
    <3> QED BY <3>1, <3>2
  <2> QED BY <1>5, <1>7, <2>1, <2>3, <2>4 DEF DropInv, LookNotesInv
<1>12. CASE ProbesLock(s)
  BY <1>6, <1>12 DEF ProbesLock, Seen, Unfinished
<1>13. CASE ReleasesProbe(s) \/ CutOffReads(s) \/ CutOffSaves(s) \/ CutOffRecords(s)
  BY <1>6, <1>13 DEF ReleasesProbe, CutOffReads, CutOffSaves, CutOffRecords
<1>14. ASSUME NEW items, NEW slot, NEW resume, NEW after, StartsDrain(s, items, slot, resume, after),
              look[s].pc # "idle",
              LaneNotesInv(s)'
       PROVE  DropInv(s)'
  <2>1. lock' = lock /\ store' = store /\ outcome' = outcome /\ history' = history /\ look'[s] = NoLook
    BY <1>14 DEF StartsDrain, LookEnds, durable, ghosts
  <2>2. lane'[s].pc \in {"idle", "turn"} /\ lane[s].pc = "idle"
    BY <1>5, <1>14, DrainLane
  <2>3. FreeInv(s)'
    BY <2>1, <2>2 DEF DropInv, FreeInv, InHand, HoldingPc
  <2> QED BY <1>8, <1>14, <2>1, <2>3 DEF DropInv, LookNotesInv
<1>15. CASE ResumesInterrupted(s) \/ Retries(s)
  <2>1. PICK r : r # NoRun /\ StartsDrain(s, {Unfinished(s).slot}, Unfinished(s).slot, r, Null) /\ look[s].pc # "idle"
    <3> DEFINE c == Unfinished(s)
    <3>1. c \in Run0 /\ c.status \in {"interrupted", "failed"}
      BY <1>15 DEF ResumesInterrupted, Retries, Unfinished
    <3>2. c \in Run
      BY <3>1, NoRunIsNone DEF Run0
    <3> HIDE DEF c
    <3>3. [c EXCEPT !.attempt = @ + 1] \in Run
      BY <3>2, NextAttemptIsRun
    <3> QED BY <1>15, <3>2, <3>3, NoRunIsNone DEF ResumesInterrupted, Retries, Seen, c
  <2>2. lane'[s].pc = "idle" \/ (lane'[s].pc = "turn" /\ lane'[s].resume = r)
    BY <1>5, <2>1, DrainLane
  <2>3. LaneNotesInv(s)'
    BY <2>1, <2>2 DEF LaneNotesInv
  <2> QED BY <1>14, <2>1, <2>3
<1>16. CASE ChoosesSlots(s)
  <2> DEFINE due  == SlotsBetween(look[s].snap.next, look[s].at)
             run  == Chosen(due, look[s].at, busyUntil[s], CatchUp, Overlap)
             skip == NewestOf(due \ run, Cap)
  <2>1. /\ OnToSlots(s)
        /\ look' = [look EXCEPT ![s].pc = "chosen", ![s].run = run, ![s].skip = skip]
    BY <1>16 DEF ChoosesSlots
  <2>2. lane' = lane /\ lock' = lock /\ store' = store /\ outcome' = outcome /\ history' = history
    BY <1>16 DEF ChoosesSlots, durable, ghosts
  <2>3. due \subseteq Slots /\ due = SlotsBetween(store.next, look[s].at)
    BY <1>9, <2>1 DEF SlotsBetween
  <2>4. Cardinality(due \ run) <= Cap
    BY <2>3 DEF SkippedFit
  <2>5. IsFiniteSet(due \ run) /\ due \ run \subseteq Nat
    BY <2>3, SlotsAssumption, FS_Subset
  <2>6. skip = due \ run
    BY <2>4, <2>5, FewAreNewest, CapAssumption
  <2>7. \A t \in Slots : store.next <= t /\ t <= look[s].at => t \in run \cup skip
    BY <2>3, <2>6 DEF SlotsBetween
  <2> HIDE DEF due, run, skip
  <2>8. look'[s].run = run /\ look'[s].skip = skip /\ look'[s].at = look[s].at /\ look'[s].pc = "chosen"
    BY <2>1
  <2>9. LookNotesInv(s)'
    BY <2>2, <2>7, <2>8 DEF LookNotesInv
  <2> QED BY <1>5, <1>7, <1>8, <1>9, <2>1, <2>2, <2>9 DEF DropInv
<1>17. CASE RecordsSkipped(s)
  <2>1. PICK u \in look[s].skip :
          /\ look[s].pc = "chosen" /\ look' = [look EXCEPT ![s].skip = @ \ {u}]
          /\ history' = Recorded([NoRun EXCEPT !.slot = u, !.nth = made[u] + 1, !.status = "skipped"])
          /\ outcome' = [outcome EXCEPT ![u] = "skipped"]
    BY <1>17 DEF RecordsSkipped, Said
  <2>2. lane' = lane /\ lock' = lock /\ store' = store
    BY <1>17 DEF RecordsSkipped
  <2>3. PICK r : r.slot = u /\ history' = Recorded(r)
    BY <2>1 DEF NoRun
  <2>4. Listed(u)' /\ \A t \in Slots : Listed(t) => Listed(t)'
    BY <2>3, ListedStays, Zenon
  <2>5. \A t \in Slots : Noted(t) => Noted(t)'
    BY <2>1, <2>4 DEF Noted
  <2>6. PassedInv'
    BY <2>2, <2>5 DEF DropInv, PassedInv
  <2>7. BeforeInv'
    BY <2>1, <2>2 DEF BeforeInv, OneInv, LookInv
  <2>8. LookNotesInv(s)'
    <3>1. Noted(u)'
      BY <2>4 DEF Noted
    <3>2. look'[s].run = look[s].run /\ look'[s].skip = look[s].skip \ {u} /\ look'[s].at = look[s].at /\ look'[s].pc = "chosen"
      BY <2>1
    <3> QED BY <2>1, <2>2, <2>5, <3>1, <3>2 DEF DropInv, LookNotesInv
  <2> QED BY <1>5, <1>7, <2>1, <2>2, <2>6, <2>7, <2>8 DEF DropInv
<1>18. look[s].pc = "chosen" /\ look[s].skip = {} =>
         \A t \in Slots : t <= look[s].at => Noted(t) \/ t \in look[s].run
  BY DEF DropInv, LookNotesInv, PassedInv, OneInv, LookInv
<1>19. CASE MovesOn(s)
  <2>1. /\ look[s].pc = "chosen" /\ look[s].skip = {} /\ look[s].run = {} /\ look'[s] = NoLook
        /\ store' = [look[s].snap EXCEPT !.next = NextSlot(look[s].at)]
        /\ lane' = lane /\ lock' = lock /\ outcome' = outcome /\ history' = history
    BY <1>19 DEF MovesOn, SkippedAll, After, LookEnds, ghosts
  <2>2. look[s].snap = store /\ store.known
    BY <2>1 DEF OneInv, CopiesInv, LookInv
  <2>3. store'.known /\ store'.next = NextSlot(look[s].at)
    BY <2>1, <2>2
  <2>4. \A t \in Slots : Noted(t)' <=> Noted(t)
    BY <2>1 DEF Noted, Listed
  <2>5. PassedInv'
    <3> SUFFICES ASSUME NEW t \in Slots  PROVE Noted(t)' \/ (store'.next # Null /\ store'.next <= t)
      BY DEF PassedInv
    <3>1. CASE t <= look[s].at
      BY <1>18, <2>1, <2>4, <3>1
    <3>2. CASE t > look[s].at
      BY <2>3, <3>2, NextIsFirst
    <3> QED BY <3>1, <3>2
  <2> QED BY <1>5, <1>7, <2>1, <2>3, <2>5 DEF DropInv, LookNotesInv, BeforeInv
<1>20. CASE Drains(s)
  <2> DEFINE n == NextSlot(look[s].at)
  <2>1. look[s].pc = "chosen" /\ look[s].skip = {} /\ StartsDrain(s, look[s].run, Null, NoRun, n)
    BY <1>20 DEF Drains, SkippedAll, After
  <2>2. \/ lane'[s].pc = "idle"
        \/ lane'[s].pc = "turn" /\ lane'[s].todo = look[s].run /\ lane'[s].after = n
    BY <1>5, <2>1, DrainLane
  <2>3. store' = store /\ outcome' = outcome /\ history' = history
    BY <2>1 DEF StartsDrain, durable, ghosts
  <2>4. \A t \in Slots : Noted(t)' <=> Noted(t)
    BY <1>8, <2>3
  <2>5. \A t \in Slots : t > look[s].at => n # Null /\ n <= t
    BY NextIsFirst
  <2>6. n \in Nat
    BY NextIsLater
  <2> HIDE DEF n
  <2>7. LaneNotesInv(s)'
    <3>1. CASE lane'[s].pc = "idle"
      BY <3>1 DEF LaneNotesInv
    <3>2. CASE lane'[s].pc = "turn" /\ lane'[s].todo = look[s].run /\ lane'[s].after = n
      <4>1. ASSUME NEW t \in Slots, n # Null => t < n  PROVE t <= look[s].at
        BY <2>5, <2>6, <4>1
      <4> QED BY <1>18, <2>1, <2>4, <3>2, <4>1 DEF LaneNotesInv
    <3> QED BY <2>2, <3>1, <3>2
  <2> QED BY <1>14, <2>1, <2>7
<1> QED
  BY <1>10, <1>11, <1>12, <1>13, <1>15, <1>16, <1>17, <1>19, <1>20 DEF LookStep

LEMMA ProcessStepDrops ==
  ASSUME NEW s \in Server, Typed, Backed(s), OneInv(s), DropInv(s), NeverCutOff, ProcessStep(s)
  PROVE  DropInv(s)'
<1>1. /\ lane \in [Server -> Lane] /\ look \in [Server -> Look]
      /\ lock \in [Slots -> Server \cup {NoServer, DeadServer}] /\ tally.crashes \in Nat
  BY DEF Typed, SharedTypeOK, Lanes, Looks
<1>2. store' = store /\ outcome' = outcome /\ history' = history
  BY DEF ProcessStep, StartsUp, Stops, GraceEnds, Leaves, Crashes, Dies, durable, ghosts
<1>3. \A t \in Slots : (Noted(t)' <=> Noted(t)) /\ (Listed(t)' <=> Listed(t))
  BY <1>2 DEF Noted, Listed
<1>4. BeforeInv' /\ PassedInv'
  BY <1>2, <1>3 DEF DropInv, BeforeInv, PassedInv
<1>5. CASE StartsUp(s) \/ Stops(s)
  <2>1. lane' = lane /\ look' = look /\ lock' = lock
    BY <1>5 DEF StartsUp, Stops, durable
  <2>2. Listed(lane[s].slot)' <=> Listed(lane[s].slot)
    BY <1>2, <2>1 DEF Listed
  <2> QED BY <1>2, <1>3, <1>4, <2>1, <2>2 DEF DropInv, FreeInv, LookNotesInv, LaneNotesInv, InHand
<1>6. CASE GraceEnds(s)
  <2>1. /\ look' = look /\ lock' = lock
        /\ lane' = lane \/ (lane[s].pc = "work" /\ lane'[s] = [lane[s] EXCEPT !.pc = "handRead", !.byGrace = TRUE])
    BY <1>1, <1>6 DEF GraceEnds, durable
  <2>2. CASE lane' = lane
    <3>1. Listed(lane[s].slot)' <=> Listed(lane[s].slot)
      BY <1>2, <2>2 DEF Listed
    <3> QED BY <1>2, <1>3, <1>4, <2>1, <2>2, <3>1 DEF DropInv, FreeInv, LookNotesInv, LaneNotesInv, InHand
  <2>3. CASE lane[s].pc = "work" /\ lane'[s] = [lane[s] EXCEPT !.pc = "handRead", !.byGrace = TRUE]
    <3>1. /\ lane'[s].pc = "handRead" /\ lane'[s].todo = lane[s].todo /\ lane'[s].slot = lane[s].slot
          /\ lane'[s].resume = lane[s].resume /\ lane'[s].after = lane[s].after
      BY <1>1, <2>3 DEF Lane
    <3>2. FreeInv(s)' /\ LookNotesInv(s)'
      BY <1>2, <1>3, <2>1, <2>3, <3>1 DEF DropInv, FreeInv, LookNotesInv, InHand, HoldingPc
    <3>3. LaneNotesInv(s)'
      BY <1>2, <1>3, <2>3, <3>1 DEF DropInv, LaneNotesInv
    <3> QED BY <1>4, <3>2, <3>3 DEF DropInv
  <2> QED BY <2>1, <2>2, <2>3
<1>7. CASE Leaves(s) \/ Crashes(s)
  <2>1. Leaves(s) /\ Dies(s)
    BY <1>1, <1>7 DEF Leaves, Crashes, NeverCutOff
  <2>2. lane[s].pc = "idle"
    BY <2>1 DEF Leaves, OneInv, CutOffInv
  <2>3. \A t \in Slots : lock[t] = NoServer
    BY <2>2 DEF DropInv, FreeInv, InHand, HoldingPc
  <2>4. /\ lane'[s].pc = "idle" /\ look'[s].pc = "idle" /\ \A t \in Slots : lock'[t] = NoServer
    BY <1>1, <2>1, <2>3, OwnersAssumption DEF Dies, NoLane, NoLook
  <2>5. FreeInv(s)' /\ LookNotesInv(s)' /\ LaneNotesInv(s)'
    BY <2>4, OwnersAssumption DEF FreeInv, LookNotesInv, LaneNotesInv
  <2> QED BY <1>4, <2>5 DEF DropInv
<1> QED BY <1>5, <1>6, <1>7 DEF ProcessStep

LEMMA DropStep ==
  ASSUME NEW s, Server = {s}, NeverCutOff, SkippedFit, Typed, LockBacked, OneInv(s), DropInv(s), [Next]_vars
  PROVE  DropInv(s)'
<1>1. s \in Server /\ Backed(s)
  BY DEF LockBacked, Backed
<1>2. CASE \E p \in Server : LookStep(p) \/ LaneStep(p) \/ ProcessStep(p)
  BY <1>1, <1>2, LookStepDrops, LaneStepDrops, ProcessStepDrops
<1>3. CASE \/ \E t \in Slots : LeaseExpires(t)
           \/ Tick
           \/ UNCHANGED vars
  <2>1. /\ lane' = lane /\ look' = look /\ store' = store /\ outcome' = outcome /\ history' = history
    BY <1>3 DEF LeaseExpires, Tick, vars, durable, ghosts
  <2>2. lock' = lock
    BY <1>1, <1>3, OwnersAssumption DEF LeaseExpires, Tick, vars, durable, DropInv, FreeInv
  <2> QED BY <2>1, <2>2 DEF DropInv, FreeInv, BeforeInv, PassedInv, LookNotesInv, LaneNotesInv, InHand, Noted, Listed
<1> QED BY <1>2, <1>3 DEF Next

(* One server that nothing cuts off in a run, and whose looks pass over    *)
(* no more slots than they record: every slot the state moved past was run *)
(* or recorded as skipped.                                                 *)
THEOREM OneServerNoSlotDropped ==
  ASSUME NEW s, Server = {s}, NeverCutOff, SkippedFit
  PROVE  Spec => []NoSlotDropped
<1>1. Init => DropInv(s)
  <2> SUFFICES ASSUME Init  PROVE DropInv(s)
    OBVIOUS
  <2>1. /\ lane[s] = NoLane /\ look[s] = NoLook /\ store = NoState
        /\ \A t \in Slots : outcome[t] = "open" /\ lock[t] = NoServer
    BY DEF Init
  <2>2. NoLane.pc = "idle" /\ NoLook.pc = "idle" /\ ~NoState.known /\ s # NoServer
    BY OwnersAssumption DEF NoLane, NoLook, NoState
  <2> QED BY <2>1, <2>2 DEF DropInv, FreeInv, BeforeInv, PassedInv, LookNotesInv, LaneNotesInv
<1>2. Typed /\ LockBacked /\ OneInv(s) /\ DropInv(s) /\ [Next]_vars => DropInv(s)'
  BY DropStep
<1>3. DropInv(s) => NoSlotDropped
  BY DEF DropInv, PassedInv, NoSlotDropped, Noted, Listed
<1> QED BY <1>1, <1>2, <1>3, OneServerAgrees, TypedInit, TypedStep, SchedulerLockBacked, PTL DEF Spec
====
