--------------------------- MODULE HandRuns_proofs ---------------------------
(***************************************************************************)
(* The records, locks and starts of the runs by hand keep their types, and *)
(* a run in hand is held by its lock, for any number of processes, runs,   *)
(* attempts, crashes and stops.  On one server a run is begun no more      *)
(* often than its attempts and handoffs allow, and never once it completed.*)
(***************************************************************************)
EXTENDS HandRuns, WellFoundedInduction, TLAPS

(* Of records with a start, one has the last. *)
LEMMA NewestExists ==
  ASSUME NEW list, list # {}, \A l \in list : l.at \in 0 .. MaxStarts
  PROVE  Newest(list) \in list
<1> DEFINE R == OpToRel(<, Nat)
           left(l) == MaxStarts - l.at
           S == {left(l) : l \in list}
<1>1. MaxStarts \in Nat
  BY BoundsAssumption
<1>2. S \subseteq Nat /\ S # {}
  BY <1>1
<1>3. PICK s \in S : \A t \in S : <<t, s>> \notin R
  BY <1>2, NatLessThanWellFounded, WFMin, Zenon
<1>4. PICK l \in list : s = left(l)
  OBVIOUS
<1>5. ASSUME NEW m \in list, ~(m.at <= l.at) PROVE FALSE
  <2>1. left(m) \in S /\ left(m) \in Nat /\ s \in Nat /\ left(m) < s
    BY <1>1, <1>2, <1>4, <1>5
  <2>2. <<left(m), s>> \in Nat \X Nat /\ <<left(m), s>>[1] < <<left(m), s>>[2]
    BY <2>1
  <2>3. <<left(m), s>> \in R
    BY <2>2, Zenon DEF OpToRel
  <2> QED BY <1>3, <2>1, <2>3
<1>6. \E l1 \in list : \A m \in list : m.at <= l1.at
  BY <1>5
<1> QED BY <1>6 DEF Newest

-----------------------------------------------------------------------------
(* Types: what a look listed comes from records, and a restart is          *)
(* announced only with an attempt that is left.                            *)
SeekInv(k) == /\ k.pc = "probe" => k.probe # {}
              /\ k.pc = "restart" => NextAttempt(k.latest) \in 0 .. MaxAttempts

HandInv == HandTypeOK /\ \A s \in Server : SeekInv(seek[s])

LEMMA InitTypes == Init => HandInv
<1> SUFFICES ASSUME Init PROVE HandInv
  OBVIOUS
<1>1. 0 \in 0 .. MaxAttempts /\ 0 \in 0 .. MaxStarts /\ MaxStarts \in Nat
  BY BoundsAssumption, AttemptsAssumption
<1>2. NoRecord \in Record /\ NoHand \in Hand /\ NoListed \in ListedRecord
  BY <1>1 DEF NoRecord, Record, NoHand, Hand, NoListed, ListedRecord, Statuses
<1>3. NoSeek \in Seeker /\ SeekInv(NoSeek)
  BY <1>1, <1>2 DEF NoSeek, Seeker, SeekInv
<1> QED BY <1>1, <1>2, <1>3 DEF Init, HandInv, HandTypeOK

(* A run in hand and a look keep their types through every edit of them. *)
LEMMA HandGoesOn ==
  ASSUME NEW h \in Hand, NEW pc \in {"record", "setup", "work", "told", "end", "release"}
  PROVE  [h EXCEPT !.pc = pc] \in Hand /\ [h EXCEPT !.pc = pc].server = h.server
BY DEF Hand

LEMMA HandEdits ==
  ASSUME NEW h \in Hand, NEW pc \in {"told", "end"}, NEW status \in Statuses
  PROVE  /\ [h EXCEPT !.pc = pc, !.status = status] \in Hand
         /\ [h EXCEPT !.pc = pc, !.status = status, !.byGrace = TRUE] \in Hand
         /\ [h EXCEPT !.pc = pc, !.status = status].server = h.server
         /\ [h EXCEPT !.pc = pc, !.status = status, !.byGrace = TRUE].server = h.server
BY DEF Hand

LEMMA FreshHand ==
  ASSUME NEW s \in Server, NEW r \in Run \cup {NoRun}, NEW attempt \in 0 .. MaxAttempts
  PROVE  [NoHand EXCEPT !.pc = "take", !.server = s, !.run = r, !.attempt = attempt] \in Hand
BY DEF NoHand, Hand, Statuses

LEMMA SeekerEdits ==
  ASSUME NEW k \in Seeker, NEW pc \in {"idle", "list", "probe", "probed", "report", "restart"},
         NEW probe \in SUBSET ListedRecord, NEW at \in 0 .. MaxStarts
  PROVE  /\ [k EXCEPT !.pc = pc] \in Seeker
         /\ [k EXCEPT !.pc = pc, !.probed = at] \in Seeker
         /\ [k EXCEPT !.pc = pc, !.probe = probe, !.probed = at] \in Seeker
         /\ [k EXCEPT !.older = probe] \in Seeker
BY DEF Seeker

(* What the edits make of the part of a look the next step goes by. *)
LEMMA SeekerEditsHold ==
  ASSUME NEW k \in Seeker, NEW probe \in SUBSET ListedRecord, NEW at \in 0 .. MaxStarts, NEW older
  PROVE  /\ SeekInv([k EXCEPT !.pc = "list"])
         /\ SeekInv([k EXCEPT !.pc = AfterProbe(k.probe), !.probed = at])
         /\ SeekInv([k EXCEPT !.pc = "probed", !.probe = probe, !.probed = at])
         /\ k.pc = "report" => SeekInv([k EXCEPT !.older = older])
         /\ NextAttempt(k.latest) \in 0 .. MaxAttempts => SeekInv([k EXCEPT !.pc = "restart"])
<1>1. SeekInv([k EXCEPT !.pc = "list"])
  BY DEF Seeker, SeekInv
<1>2. SeekInv([k EXCEPT !.pc = AfterProbe(k.probe), !.probed = at])
  BY DEF Seeker, SeekInv, AfterProbe
<1>3. SeekInv([k EXCEPT !.pc = "probed", !.probe = probe, !.probed = at])
  BY DEF Seeker, SeekInv
<1>4. k.pc = "report" => SeekInv([k EXCEPT !.older = older])
  BY DEF Seeker, SeekInv
<1>5. NextAttempt(k.latest) \in 0 .. MaxAttempts => SeekInv([k EXCEPT !.pc = "restart"])
  BY DEF Seeker, SeekInv
<1> QED BY <1>1, <1>2, <1>3, <1>4, <1>5

(* One look edited, the others stay. *)
LEMMA OneSeekerEdited ==
  ASSUME NEW f \in [Server -> Seeker], \A t \in Server : SeekInv(f[t]),
         NEW s \in Server, NEW k \in Seeker, SeekInv(k)
  PROVE  [f EXCEPT ![s] = k] \in [Server -> Seeker] /\ \A t \in Server : SeekInv([f EXCEPT ![s] = k][t])
OBVIOUS

(* Counters stay counters. *)
LEMMA CountsUp ==
  ASSUME NEW S, NEW T
  PROVE  /\ \A f \in [S -> Nat] : \A x : [f EXCEPT ![x] = @ + 1] \in [S -> Nat]
         /\ \A t \in [crashes : Nat, stops : Nat, asked : T] :
              [t EXCEPT !.stops = @ + 1] \in [crashes : Nat, stops : Nat, asked : T]
<1>1. ASSUME NEW f \in [S -> Nat], NEW x PROVE [f EXCEPT ![x] = @ + 1] \in [S -> Nat]
  <2>1. CASE x \in S
    <3>1. f[x] + 1 \in Nat
      BY <2>1
    <3> QED BY <3>1
  <2>2. CASE x \notin S
    BY <2>2
  <2> QED BY <2>1, <2>2
<1>2. ASSUME NEW t \in [crashes : Nat, stops : Nat, asked : T]
      PROVE  [t EXCEPT !.stops = @ + 1] \in [crashes : Nat, stops : Nat, asked : T]
  <2>1. t.stops + 1 \in Nat
    OBVIOUS
  <2> QED BY <2>1
<1> QED BY <1>1, <1>2

LEMMA StepKeepsTypes == HandInv /\ [Next]_vars => HandInv'
<1> SUFFICES ASSUME HandInv, [Next]_vars PROVE HandInv'
  OBVIOUS
<1> USE DEF HandInv, HandTypeOK
<1>0. MaxStarts \in Nat /\ MaxAttempts \in Nat \ {0} /\ NoServer \notin Server /\ DeadServer \notin Server
  BY BoundsAssumption, AttemptsAssumption, OwnersAssumption
<1>1. 0 \in 0 .. MaxAttempts /\ 1 \in 0 .. MaxAttempts /\ 0 \in 0 .. MaxStarts /\ Instant \subseteq 0 .. MaxStarts
  BY <1>0 DEF Instant
<1>2. NoHand \in Hand /\ NoListed \in ListedRecord
  BY <1>1 DEF NoHand, Hand, NoListed, ListedRecord, Statuses
<1>3. NoSeek \in Seeker /\ SeekInv(NoSeek)
  BY <1>1, <1>2 DEF NoSeek, Seeker, SeekInv
<1>4. ASSUME NEW s \in Server, NEW r \in Run \cup {NoRun}, NEW attempt \in 0 .. MaxAttempts, Starts(s, r, attempt)
      PROVE  /\ clock' \in 0 .. MaxStarts /\ hand' \in [Instant -> Hand]
             /\ active' \in [Server -> 0 .. MaxStarts] /\ draining' \in [Server -> BOOLEAN]
  <2>1. [NoHand EXCEPT !.pc = "take", !.server = s, !.run = r, !.attempt = attempt] \in Hand
    BY FreshHand
  <2>2. clock + 1 \in 0 .. MaxStarts
    BY <1>0, <1>4 DEF Starts
  <2>3. Scheduled \in BOOLEAN
    BY RunAssumption
  <2> QED BY <1>4, <2>1, <2>2, <2>3 DEF Starts
<1>5. ASSUME NEW k \in Instant, NEW from, NEW to \in {"record", "setup", "work", "release"}, Goes(k, from, to)
      PROVE  hand' \in [Instant -> Hand]
  <2>1. [hand[k] EXCEPT !.pc = to] \in Hand
    BY HandGoesOn
  <2> QED BY <1>5, <2>1 DEF Goes
<1>6. ASSUME NEW k \in Instant, NEW status \in Statuses
      PROVE  RecordOf(k, status) \in Record
  BY <1>1 DEF RecordOf, Record, Hand
<1>7. Unfinished \subseteq [run : Run, status : Statuses, attempt : 0 .. MaxAttempts, at : 0 .. MaxStarts]
  BY DEF Unfinished, Listed, Record
<1>8. ASSUME NEW s \in Server, NEW l \in ListedRecord, Reported(l) PROVE record' \in [Run -> Record]
  <2>1. [status |-> "failed", attempt |-> l.attempt, at |-> l.at] \in Record
    BY DEF ListedRecord, Record, Statuses
  <2> QED BY <1>8, <2>1 DEF Reported
<1>9. ASSUME NEW s \in Server, Dies(s), tally' \in [crashes : Nat, stops : Nat, asked : SUBSET Run] PROVE HandInv'
  <2>1. hand' \in [Instant -> Hand] /\ lock' \in [Instant -> Server \cup {NoServer, DeadServer}]
    BY <1>9, <1>2 DEF Dies
  <2>2. handoff' \in [Server -> [Run -> 0 .. MaxStarts]] /\ active' \in [Server -> 0 .. MaxStarts]
    BY <1>9, <1>1 DEF Dies
  <2>3. \A t \in Server : SeekInv(seek'[t])
    <3>1. ASSUME NEW t \in Server PROVE seek'[t] = seek[t] \/ seek'[t] = NoSeek
      BY <1>9 DEF Dies
    <3> QED BY <1>3, <3>1
  <2>4. mode' \in [Server -> {"down", "up", "stopping", "late"}]
    BY <1>9 DEF Dies
  <2>5. /\ draining' \in [Server -> BOOLEAN] /\ recovered' \in [Server -> BOOLEAN]
        /\ seek' \in [Server -> Seeker]
    BY <1>3, <1>9 DEF Dies
  <2> QED BY <1>9, <2>1, <2>2, <2>3, <2>4, <2>5 DEF Dies
<1>10. ASSUME NEW s \in Server, NEW r \in Run, Enqueues(s, r) PROVE HandInv'
  <2>1. tally' \in [crashes : Nat, stops : Nat, asked : SUBSET Run]
    BY <1>10 DEF Enqueues
  <2> QED BY <1>10, <1>1, <1>4, <2>1 DEF Enqueues, Crowds
<1>11. ASSUME NEW k \in Instant, TakesLock(k) PROVE HandInv'
  <2>1. hand[k].server \in Server \cup {NoServer}
    BY DEF Hand
  <2> QED BY <1>11, <1>5, <2>1 DEF TakesLock
<1>12. ASSUME NEW k \in Instant, RecordsStart(k) PROVE HandInv'
  <2>1. handoff' \in [Server -> [Run -> 0 .. MaxStarts]]
    BY <1>12, <1>1 DEF RecordsStart
  <2>2. record' \in [Run -> Record]
    BY <1>12, <1>6 DEF RecordsStart, Statuses
  <2> QED BY <1>12, <1>5, <2>1, <2>2 DEF RecordsStart
<1>13. ASSUME NEW k \in Instant, BeginsWork(k) PROVE HandInv'
  <2>1. begun' \in [Run -> Nat]
    <3>1. begun \in [Run -> Nat] /\ begun' = [begun EXCEPT ![hand[k].run] = @ + 1]
      BY <1>13 DEF BeginsWork
    <3> QED BY <3>1, CountsUp
  <2>2. hand' \in [Instant -> Hand]
    BY <1>13, <1>5 DEF BeginsWork
  <2> QED BY <1>13, <2>1, <2>2 DEF BeginsWork
<1>14. ASSUME NEW k \in Instant, NEW status \in {"completed", "failed"}, EndsWork(k, status) PROVE HandInv'
  <2>1. [hand[k] EXCEPT !.pc = "told", !.status = status] \in Hand
    BY HandEdits DEF Statuses
  <2> QED BY <1>14, <2>1 DEF EndsWork
<1>15. ASSUME NEW k \in Instant, LeavesWork(k) PROVE HandInv'
  <2>1. Outcome(k) \in Statuses
    BY DEF Outcome, Statuses, Hand
  <2>2. [hand[k] EXCEPT !.pc = "end", !.status = Outcome(k)] \in Hand
    BY <2>1, HandEdits
  <2>3. hand' \in [Instant -> Hand] /\ active' \in [Server -> 0 .. MaxStarts]
    BY <1>15, <1>1, <2>2 DEF LeavesWork
  <2>4. handoff' \in [Server -> [Run -> 0 .. MaxStarts]]
    BY <1>15, <1>1 DEF LeavesWork
  <2> QED BY <1>15, <2>3, <2>4 DEF LeavesWork
<1>16. ASSUME NEW k \in Instant, HandsOff(k) PROVE HandInv'
  <2>1. [hand[k] EXCEPT !.pc = "end", !.status = "interrupted", !.byGrace = TRUE] \in Hand
    BY HandEdits DEF Statuses
  <2> QED BY <1>16, <2>1 DEF HandsOff
<1>17. ASSUME NEW k \in Instant, RecordsEnd(k) PROVE HandInv'
  <2>1. hand[k].status \in Statuses
    BY DEF Hand
  <2>2. record' \in [Run -> Record]
    BY <1>17, <1>6, <2>1 DEF RecordsEnd
  <2> QED BY <1>17, <1>5, <2>2 DEF RecordsEnd
<1>18. ASSUME NEW k \in Instant, ReleasesLock(k) PROVE HandInv'
  BY <1>18, <1>2 DEF ReleasesLock, GivenUp
<1>19. ASSUME NEW k \in Instant, LeaseExpires(k) PROVE HandInv'
  BY <1>19 DEF LeaseExpires
<1>20. ASSUME NEW s \in Server, NEW next \in Seeker, SeekInv(next), seek' = [seek EXCEPT ![s] = next]
       PROVE  seek' \in [Server -> Seeker] /\ \A t \in Server : SeekInv(seek'[t])
  BY <1>20, OneSeekerEdited
<1>21. ASSUME NEW s \in Server, Seeks(s) \/ ListsNothing(s) \/ FindsItHeld(s) PROVE HandInv'
  <2>1. [seek[s] EXCEPT !.pc = "list"] \in Seeker /\ SeekInv([seek[s] EXCEPT !.pc = "list"])
    BY SeekerEdits, SeekerEditsHold, <1>1
  <2>2. seek' \in {[seek EXCEPT ![s] = [seek[s] EXCEPT !.pc = "list"]], [seek EXCEPT ![s] = NoSeek]}
    BY <1>21 DEF Seeks, ListsNothing, FindsItHeld
  <2>3. seek' \in [Server -> Seeker] /\ \A t \in Server : SeekInv(seek'[t])
    BY <1>3, <1>20, <2>1, <2>2
  <2> QED BY <1>21, <2>3 DEF Seeks, ListsNothing, FindsItHeld
<1>22. ASSUME NEW s \in Server, Lists(s) PROVE HandInv'
  <2> DEFINE running == RunningIn(Unfinished)
             newest == Newest(Unfinished)
             next == [pc |-> AfterProbe(running), probe |-> running, probed |-> 0,
                      older |-> Unfinished \ {newest}, latest |-> newest]
  <2>1. Unfinished # {} /\ \A l \in Unfinished : l.at \in 0 .. MaxStarts
    BY <1>22, <1>7 DEF Lists
  <2>2. newest \in Unfinished
    BY <2>1, NewestExists
  <2>3. Unfinished \subseteq ListedRecord
    BY <1>7 DEF ListedRecord
  <2>4. running \subseteq ListedRecord
    BY <2>3 DEF RunningIn
  <2>5. seek' = [seek EXCEPT ![s] = next]
    BY <1>22 DEF Lists
  <2> HIDE DEF newest, running
  <2>6. AfterProbe(running) \in {"probe", "report"} /\ (AfterProbe(running) = "probe" => running # {})
    BY DEF AfterProbe
  <2>7. next \in Seeker
    BY <1>1, <2>2, <2>3, <2>4, <2>6 DEF Seeker
  <2>8. SeekInv(next)
    BY <2>6 DEF SeekInv
  <2> HIDE DEF next
  <2>9. seek' \in [Server -> Seeker] /\ \A t \in Server : SeekInv(seek'[t])
    BY <1>20, <2>5, <2>7, <2>8
  <2> QED BY <1>22, <2>9 DEF Lists
<1>23. ASSUME NEW s \in Server, Probes(s) PROVE HandInv'
  <2> DEFINE l == Newest(seek[s].probe)
             next == [seek[s] EXCEPT !.pc = "probed", !.probe = @ \ {l}, !.probed = l.at]
  <2>1. seek[s] \in Seeker /\ seek[s].pc = "probe" /\ seek[s].probe # {}
    BY <1>23 DEF Probes, SeekInv
  <2>2. seek' = [seek EXCEPT ![s] = next] /\ lock' = [lock EXCEPT ![l.at] = s]
    BY <1>23 DEF Probes
  <2>3. seek[s].probe \subseteq ListedRecord
    BY <2>1 DEF Seeker
  <2>4. l \in seek[s].probe
    BY <2>1, <2>3, NewestExists DEF ListedRecord
  <2>5. l.at \in 0 .. MaxStarts
    BY <2>3, <2>4 DEF ListedRecord
  <2> HIDE DEF l
  <2>6. next \in Seeker /\ SeekInv(next)
    <3>1. seek[s].probe \ {l} \in SUBSET ListedRecord
      BY <2>3
    <3>2. next \in Seeker
      BY <2>1, <2>5, <3>1 DEF Seeker
    <3>3. next.pc = "probed"
      BY <2>1 DEF Seeker
    <3> HIDE DEF next
    <3> QED BY <3>2, <3>3 DEF SeekInv
  <2>7. lock' \in [Instant -> Server \cup {NoServer, DeadServer}]
    BY <2>2
  <2> HIDE DEF next
  <2>8. seek' \in [Server -> Seeker] /\ \A t \in Server : SeekInv(seek'[t])
    BY <1>20, <2>2, <2>6
  <2> QED BY <1>23, <2>7, <2>8 DEF Probes
<1>24. ASSUME NEW s \in Server, Unprobes(s) PROVE HandInv'
  <2> DEFINE next == [seek[s] EXCEPT !.pc = AfterProbe(seek[s].probe), !.probed = 0]
  <2>1. AfterProbe(seek[s].probe) \in {"report", "probe"}
    BY DEF AfterProbe
  <2>2. next \in Seeker /\ SeekInv(next)
    BY <1>1, <2>1, SeekerEdits, SeekerEditsHold
  <2>3. seek' = [seek EXCEPT ![s] = next] /\ lock' \in [Instant -> Server \cup {NoServer, DeadServer}]
    BY <1>24 DEF Unprobes, GivenUp
  <2> HIDE DEF next
  <2>4. seek' \in [Server -> Seeker] /\ \A t \in Server : SeekInv(seek'[t])
    BY <1>20, <2>2, <2>3
  <2> QED BY <1>24, <2>3, <2>4 DEF Unprobes
<1>25. ASSUME NEW s \in Server, ReportsOlder(s) PROVE HandInv'
  <2> DEFINE l == Newest(seek[s].older)
             next == [seek[s] EXCEPT !.older = @ \ {l}]
  <2>1. seek[s] \in Seeker /\ seek[s].older # {} /\ seek[s].pc = "report"
    BY <1>25 DEF ReportsOlder
  <2>2. seek[s].older \subseteq ListedRecord
    BY <2>1 DEF Seeker
  <2>3. l \in ListedRecord
    <3>1. \A m \in seek[s].older : m.at \in 0 .. MaxStarts
      BY <2>2 DEF ListedRecord
    <3> QED BY <2>1, <2>2, <3>1, NewestExists
  <2>4. seek' = [seek EXCEPT ![s] = next] /\ Reported(l)
    BY <1>25 DEF ReportsOlder
  <2> HIDE DEF l
  <2>5. record' \in [Run -> Record]
    BY <1>8, <2>3, <2>4
  <2>6. next \in Seeker /\ SeekInv(next)
    BY <1>1, <2>1, <2>2, SeekerEdits, SeekerEditsHold
  <2> HIDE DEF next
  <2>7. seek' \in [Server -> Seeker] /\ \A t \in Server : SeekInv(seek'[t])
    BY <1>20, <2>4, <2>6
  <2> QED BY <1>25, <2>5, <2>7 DEF ReportsOlder
<1>26. ASSUME NEW s \in Server, ReportsLatest(s) PROVE HandInv'
  <2>1. seek[s].latest \in ListedRecord
    BY DEF Seeker
  <2>2. record' \in [Run -> Record]
    BY <1>8, <1>26, <2>1 DEF ReportsLatest
  <2>3. seek' \in [Server -> Seeker] /\ \A t \in Server : SeekInv(seek'[t])
    BY <1>3, <1>20, <1>26 DEF ReportsLatest
  <2> QED BY <1>26, <2>2, <2>3 DEF ReportsLatest
<1>27. ASSUME NEW s \in Server, Announces(s) PROVE HandInv'
  <2> DEFINE next == [seek[s] EXCEPT !.pc = "restart"]
  <2>1. seek[s].latest.attempt \in 0 .. MaxAttempts
    BY DEF Seeker, ListedRecord
  <2>2. NextAttempt(seek[s].latest) \in 0 .. MaxAttempts
    BY <1>0, <1>27, <2>1 DEF Announces, NextAttempt
  <2>3. next \in Seeker /\ SeekInv(next)
    BY <1>1, <2>2, SeekerEdits, SeekerEditsHold
  <2>4. seek' = [seek EXCEPT ![s] = next]
    BY <1>27 DEF Announces
  <2> HIDE DEF next
  <2>5. seek' \in [Server -> Seeker] /\ \A t \in Server : SeekInv(seek'[t])
    BY <1>20, <2>3, <2>4
  <2> QED BY <1>27, <2>5 DEF Announces
<1>28. ASSUME NEW s \in Server, Restarts(s) PROVE HandInv'
  <2>1. seek[s].latest.run \in Run \cup {NoRun} /\ NextAttempt(seek[s].latest) \in 0 .. MaxAttempts
    BY <1>28 DEF Restarts, Seeker, SeekInv, ListedRecord
  <2>2. Starts(s, seek[s].latest.run, NextAttempt(seek[s].latest)) /\ crowded' \in BOOLEAN
    BY <1>28 DEF Restarts, Crowds
  <2> QED BY <1>3, <1>4, <1>28, <2>1, <2>2 DEF Restarts
<1>29. ASSUME NEW s \in Server, StartsUp(s) \/ Stops(s) \/ GraceEnds(s) PROVE HandInv'
  <2>1. tally' = tally \/ tally' = [tally EXCEPT !.stops = @ + 1]
    BY <1>29 DEF StartsUp, Stops, GraceEnds
  <2>2. [tally EXCEPT !.stops = @ + 1] \in [crashes : Nat, stops : Nat, asked : SUBSET Run]
    BY CountsUp
  <2>3. tally' \in [crashes : Nat, stops : Nat, asked : SUBSET Run]
    BY <2>1, <2>2
  <2> QED BY <1>29, <2>3 DEF StartsUp, Stops, GraceEnds
<1>30. ASSUME NEW s \in Server, Leaves(s) \/ Crashes(s) PROVE HandInv'
  <2>1. tally' \in [crashes : Nat, stops : Nat, asked : SUBSET Run]
    BY <1>30 DEF Leaves, Crashes
  <2> QED BY <1>30, <1>9, <2>1 DEF Leaves, Crashes
<1>31. CASE UNCHANGED vars
  BY <1>31 DEF vars
<1> QED
  BY <1>10, <1>11, <1>12, <1>13, <1>14, <1>15, <1>16, <1>17, <1>18, <1>19, <1>20, <1>21, <1>22, <1>23,
     <1>24, <1>25, <1>26, <1>27, <1>28, <1>29, <1>30, <1>31
  DEF Next, HandStep, SeekStep, ProcessStep

(* Every state that can be reached has the types of HandTypeOK. *)
THEOREM HandTypesCorrect == Spec => []HandTypeOK
<1>1. Init => HandInv
  BY InitTypes
<1>2. HandInv /\ [Next]_vars => HandInv'
  BY StepKeepsTypes
<1>3. HandInv => HandTypeOK
  BY DEF HandInv
<1> QED BY <1>1, <1>2, <1>3, PTL DEF Spec

-----------------------------------------------------------------------------
(* A run in hand is held by its lock.  It is: its job drains or, without a *)
(* schedule, is active, so no look begins, and no look was under way when  *)
(* it was started, so none is after a lock of its own process; and a lock  *)
(* of another process is not taken.  That a process has one run in hand    *)
(* keeps the flag up until the run is out of hand.  A job without a        *)
(* schedule is no longer active while its run's end is recorded, and then  *)
(* nothing is claimed.                                                     *)
Ending(h) == h.pc \in {"end", "release"}

Guarded(k) == hand[k].pc # "idle" /\ (Scheduled \/ ~Ending(hand[k]))

KeepsOut(s) == (Scheduled /\ draining[s]) \/ (~Scheduled /\ active[s] # 0)

InCharge(k) ==
  /\ hand[k].pc # "idle" => hand[k].server \in Server
  /\ Guarded(k) => /\ KeepsOut(hand[k].server)
                   /\ seek[hand[k].server].pc = "idle"
                   /\ hand[k].pc # "take" => lock[k] = hand[k].server

Alone == \A k, m \in Instant :
  hand[k].pc # "idle" /\ hand[m].pc # "idle" /\ hand[k].server = hand[m].server => k = m

HeldInv == crowded \/ (Alone /\ \A k \in Instant : InCharge(k))

LEMMA InitHeld == Init => HeldInv
BY DEF Init, HeldInv, Alone, InCharge, Guarded, NoHand

(* A step of a look of s that leaves every hand, every flag, and every     *)
(* lock but those that are free or of s.                                   *)
LEMMA LookKeepsHeld ==
  ASSUME HandInv, HeldInv, NEW s \in Server, seek[s].pc # "idle" \/ (active[s] = 0 /\ ~draining[s]),
         UNCHANGED <<hand, active, draining, crowded>>,
         NEW next \in Seeker, seek' = [seek EXCEPT ![s] = next],
         \A k \in Instant : lock[k] \notin {NoServer, s} => lock'[k] = lock[k]
  PROVE  HeldInv'
<1>1. CASE crowded
  BY <1>1 DEF HeldInv
<1>2. CASE ~crowded
  <2>1. Alone'
    BY <1>2 DEF HeldInv, Alone
  <2>2. ASSUME NEW k \in Instant, Guarded(k) PROVE InCharge(k)'
    <3>1. InCharge(k) /\ hand[k].server \in Server /\ hand[k].server # s
      BY <1>2, <2>2 DEF HeldInv, InCharge, Guarded, KeepsOut
    <3>2. seek'[hand[k].server] = seek[hand[k].server]
      BY <3>1 DEF HandInv, HandTypeOK
    <3>3. hand[k].pc # "take" => lock'[k] = lock[k]
      BY <2>2, <3>1, OwnersAssumption DEF InCharge
    <3> QED BY <2>2, <3>1, <3>2, <3>3 DEF InCharge, Guarded, KeepsOut
  <2>3. \A k \in Instant : InCharge(k)'
    BY <1>2, <2>2 DEF HeldInv, InCharge, Guarded
  <2> QED BY <2>1, <2>3 DEF HeldInv
<1> QED BY <1>1, <1>2

(* A run started in a process with none in hand and no look under way. *)
LEMMA StartKeepsHeld ==
  ASSUME HandInv, HeldInv, NEW s \in Server, NEW r \in Run \cup {NoRun}, NEW attempt \in 0 .. MaxAttempts,
         Starts(s, r, attempt), UNCHANGED lock,
         crowded' \/ (~crowded /\ InHand(s) = {}),
         crowded' \/ seek'[s].pc = "idle",
         \A t \in Server \ {s} : seek'[t] = seek[t]
  PROVE  HeldInv'
<1> DEFINE new == [NoHand EXCEPT !.pc = "take", !.server = s, !.run = r, !.attempt = attempt]
<1>1. CASE crowded'
  BY <1>1 DEF HeldInv
<1>2. CASE ~crowded'
  <2>1. clock + 1 \in Instant /\ hand' = [hand EXCEPT ![clock + 1] = new] /\ draining' = [draining EXCEPT ![s] = Scheduled]
        /\ active' = [active EXCEPT ![s] = clock + 1] /\ clock + 1 # 0
    BY BoundsAssumption DEF Starts, HandInv, HandTypeOK, Instant
  <2>2. new.pc = "take" /\ new.server = s
    BY DEF NoHand
  <2> HIDE DEF new
  <2>3. hand'[clock + 1] = new /\ \A k \in Instant \ {clock + 1} : hand'[k] = hand[k]
    BY <2>1 DEF HandInv, HandTypeOK
  <2>4. \A k \in Instant : hand[k].pc # "idle" => hand[k].server # s
    BY <1>2 DEF InHand
  <2>5. Alone'
    BY <1>2, <2>2, <2>3, <2>4 DEF HeldInv, Alone
  <2>6. /\ draining'[s] = Scheduled /\ active'[s] # 0
        /\ \A t \in Server \ {s} : draining'[t] = draining[t] /\ active'[t] = active[t]
    BY <2>1 DEF HandInv, HandTypeOK
  <2>7. ASSUME NEW k \in Instant PROVE InCharge(k)'
    <3>1. CASE k = clock + 1
      BY <1>2, <2>2, <2>3, <2>6, <3>1 DEF InCharge, Guarded, KeepsOut
    <3>2. CASE k # clock + 1
      BY <1>2, <2>3, <2>4, <2>6, <3>2 DEF InCharge, HeldInv, Guarded, KeepsOut
    <3> QED BY <3>1, <3>2
  <2> QED BY <2>5, <2>7 DEF HeldInv
<1> QED BY <1>1, <1>2

(* A step of a run in hand, which stays in hand. *)
LEMMA GoingOnKeepsHeld ==
  ASSUME HandInv, HeldInv, NEW k \in Instant, hand[k].pc # "idle", NEW h \in Hand, h.server = hand[k].server,
         hand' = [hand EXCEPT ![k] = h], UNCHANGED <<draining, seek, crowded>>, Ending(hand[k]) => Ending(h),
         UNCHANGED active \/ (Ending(h) /\ active' = [active EXCEPT ![hand[k].server] = 0]),
         \A m \in Instant \ {k} : lock'[m] = lock[m],
         lock'[k] = hand[k].server \/ (hand[k].pc # "take" /\ lock'[k] = lock[k])
  PROVE  HeldInv'
<1>1. CASE crowded
  BY <1>1 DEF HeldInv
<1>2. CASE ~crowded
  <2>1. hand'[k] = h /\ \A m \in Instant \ {k} : hand'[m] = hand[m]
    BY DEF HandInv, HandTypeOK
  <2>2. Alone'
    BY <1>2, <2>1 DEF HeldInv, Alone
  <2>3. ASSUME NEW m \in Instant PROVE InCharge(m)'
    <3>1. InCharge(m) /\ InCharge(k)
      BY <1>2 DEF HeldInv
    <3>2. CASE m = k
      BY <2>1, <3>1, <3>2 DEF InCharge, Guarded, KeepsOut
    <3>3. CASE m # k /\ hand[m].pc # "idle"
      <4>1. hand[m].server # hand[k].server /\ hand[m].server \in Server
        BY <1>2, <3>1, <3>3 DEF HeldInv, Alone, InCharge
      <4>2. active'[hand[m].server] = active[hand[m].server]
        BY <4>1 DEF HandInv, HandTypeOK
      <4> QED BY <2>1, <3>1, <3>3, <4>2 DEF InCharge, Guarded, KeepsOut
    <3>4. CASE m # k /\ hand[m].pc = "idle"
      BY <2>1, <3>4 DEF InCharge, Guarded
    <3> QED BY <3>2, <3>3, <3>4
  <2> QED BY <2>2, <2>3 DEF HeldInv
<1> QED BY <1>1, <1>2

(* A process that dies takes its own hands, flag and locks with it only. *)
LEMMA DeathKeepsHeld ==
  ASSUME HandInv, HeldInv, NEW s \in Server, Dies(s)
  PROVE  HeldInv'
<1>1. CASE crowded
  BY <1>1 DEF HeldInv, Dies
<1>2. CASE ~crowded
  <2>1. \A k \in Instant : hand'[k] = IF hand[k].server = s THEN NoHand ELSE hand[k]
    BY DEF Dies
  <2>2. Alone'
    BY <1>2, <2>1 DEF HeldInv, Alone, NoHand
  <2>3. ASSUME NEW k \in Instant, hand'[k].pc # "idle" PROVE InCharge(k)'
    <3>1. hand'[k] = hand[k] /\ hand[k].server # s
      BY <2>1, <2>3 DEF NoHand
    <3>2. InCharge(k) /\ hand[k].server \in Server
      BY <1>2, <2>3, <3>1 DEF HeldInv, InCharge
    <3>3. /\ draining'[hand[k].server] = draining[hand[k].server] /\ active'[hand[k].server] = active[hand[k].server]
          /\ seek'[hand[k].server] = seek[hand[k].server]
      BY <3>1, <3>2 DEF Dies, HandInv, HandTypeOK
    <3>4. lock[k] # s => lock'[k] = lock[k]
      BY DEF Dies
    <3> QED BY <2>3, <3>1, <3>2, <3>3, <3>4 DEF InCharge, Guarded, KeepsOut
  <2>4. \A k \in Instant : InCharge(k)'
    BY <2>3 DEF InCharge, Guarded
  <2> QED BY <2>2, <2>4 DEF HeldInv
<1> QED BY <1>1, <1>2

LEMMA StepKeepsHeld == HandInv /\ HeldInv /\ [Next]_vars => HeldInv'
<1> SUFFICES ASSUME HandInv, HeldInv, [Next]_vars PROVE HeldInv'
  OBVIOUS
<1>0. hand \in [Instant -> Hand] /\ seek \in [Server -> Seeker] /\ lock \in [Instant -> Server \cup {NoServer, DeadServer}]
  BY DEF HandInv, HandTypeOK
<1>1. NoSeek \in Seeker /\ NoSeek.pc = "idle"
  BY BoundsAssumption, AttemptsAssumption DEF NoSeek, Seeker, NoListed, ListedRecord, Statuses
<1>2. HandInv'
  BY StepKeepsTypes
<1>3. \A s \in Server : seek'[s] \in Seeker
  BY <1>2 DEF HandInv, HandTypeOK
<1>4. \A k \in Instant : hand'[k] \in Hand
  BY <1>2 DEF HandInv, HandTypeOK
<1>5. ASSUME NEW k \in Instant, NEW from \in {"take", "record", "setup", "end"}, NEW to \in {"record", "setup", "work", "release"},
             Goes(k, from, to), from = "end" => to = "release", UNCHANGED <<active, draining, seek, crowded>>,
             lock' = IF from = "take" THEN [lock EXCEPT ![k] = hand[k].server] ELSE lock
      PROVE  HeldInv'
  <2>1. hand[k].pc = from /\ hand' = [hand EXCEPT ![k] = [hand[k] EXCEPT !.pc = to]]
    BY <1>5 DEF Goes
  <2>2. [hand[k] EXCEPT !.pc = to] \in Hand /\ [hand[k] EXCEPT !.pc = to].server = hand[k].server
    BY <1>0, HandGoesOn
  <2>3. /\ \A m \in Instant \ {k} : lock'[m] = lock[m]
        /\ from = "take" => lock'[k] = hand[k].server
        /\ from # "take" => lock'[k] = lock[k]
    BY <1>0, <1>5
  <2>4. Ending(hand[k]) => Ending([hand[k] EXCEPT !.pc = to])
    BY <1>0, <1>5, <2>1 DEF Ending, Hand
  <2> QED BY <1>5, <2>1, <2>2, <2>3, <2>4, GoingOnKeepsHeld
<1>6. ASSUME NEW k \in Instant, hand[k].pc \notin {"idle", "take"}, NEW h \in Hand, h.server = hand[k].server,
             hand' = [hand EXCEPT ![k] = h], UNCHANGED <<draining, seek, crowded, lock>>,
             Ending(hand[k]) => Ending(h),
             UNCHANGED active \/ (Ending(h) /\ active' = [active EXCEPT ![hand[k].server] = 0])
      PROVE  HeldInv'
  BY <1>6, GoingOnKeepsHeld
<1>7. ASSUME NEW s \in Server, seek[s].pc # "idle" \/ (active[s] = 0 /\ ~draining[s]), UNCHANGED <<hand, active, draining, crowded>>,
             NEW next, seek' = [seek EXCEPT ![s] = next],
             \A k \in Instant : lock[k] \notin {NoServer, s} => lock'[k] = lock[k]
      PROVE  HeldInv'
  <2>1. next \in Seeker
    BY <1>0, <1>3, <1>7
  <2> QED BY <1>7, <2>1, LookKeepsHeld
<1>8. ASSUME NEW k \in Instant, TakesLock(k) PROVE HeldInv'
  BY <1>5, <1>8 DEF TakesLock
<1>9. ASSUME NEW k \in Instant, RecordsStart(k) PROVE HeldInv'
  BY <1>5, <1>9 DEF RecordsStart
<1>10. ASSUME NEW k \in Instant, BeginsWork(k) PROVE HeldInv'
  BY <1>5, <1>10 DEF BeginsWork
<1>11. ASSUME NEW k \in Instant, RecordsEnd(k) PROVE HeldInv'
  BY <1>5, <1>11 DEF RecordsEnd
<1>12. ASSUME NEW k \in Instant, NEW status \in {"completed", "failed"}, EndsWork(k, status) PROVE HeldInv'
  <2> DEFINE h == [hand[k] EXCEPT !.pc = "told", !.status = status]
  <2>1. h \in Hand /\ h.server = hand[k].server
    <3>1. hand[k] \in Hand /\ status \in Statuses /\ "told" \in {"told", "end"}
      BY <1>0 DEF Statuses
    <3> QED BY <3>1, HandEdits
  <2>2. hand[k].pc = "work" /\ hand' = [hand EXCEPT ![k] = h] /\ ~Ending(hand[k])
    BY <1>12 DEF EndsWork, Ending
  <2> HIDE DEF h
  <2> QED BY <1>6, <1>12, <2>1, <2>2 DEF EndsWork
<1>13. ASSUME NEW k \in Instant, LeavesWork(k) PROVE HeldInv'
  <2> DEFINE h == [hand[k] EXCEPT !.pc = "end", !.status = Outcome(k)]
  <2>1. hand[k].pc = "told" /\ hand' = [hand EXCEPT ![k] = h]
    BY <1>13 DEF LeavesWork
  <2>2. h \in Hand
    BY <1>0, <1>4, <2>1
  <2>3. h.server = hand[k].server /\ Ending(h)
    BY <1>0 DEF Hand, Ending
  <2> HIDE DEF h
  <2> QED BY <1>6, <1>13, <2>1, <2>2, <2>3 DEF LeavesWork
<1>14. ASSUME NEW k \in Instant, HandsOff(k) PROVE HeldInv'
  <2> DEFINE h == [hand[k] EXCEPT !.pc = "end", !.status = "interrupted", !.byGrace = TRUE]
  <2>1. h \in Hand /\ h.server = hand[k].server
    BY <1>0, HandEdits DEF Statuses
  <2>3. Ending(h)
    BY <1>0 DEF Hand, Ending
  <2>2. hand[k].pc \in {"setup", "work", "told"} /\ hand' = [hand EXCEPT ![k] = h]
    BY <1>14 DEF HandsOff
  <2> HIDE DEF h
  <2> QED BY <1>6, <1>14, <2>1, <2>2, <2>3 DEF HandsOff
<1>15. ASSUME NEW k \in Instant, ReleasesLock(k) PROVE HeldInv'
  <2>1. CASE crowded
    BY <1>15, <2>1 DEF ReleasesLock, HeldInv
  <2>2. CASE ~crowded
    <3>1. hand'[k] = NoHand /\ \A m \in Instant \ {k} : hand'[m] = hand[m] /\ lock'[m] = lock[m]
      BY <1>0, <1>15 DEF ReleasesLock, GivenUp
    <3>2. Alone'
      BY <2>2, <3>1 DEF HeldInv, Alone, NoHand
    <3>3. ASSUME NEW m \in Instant, hand'[m].pc # "idle" PROVE InCharge(m)'
      <4>1. m # k /\ hand'[m] = hand[m] /\ lock'[m] = lock[m]
        BY <3>1, <3>3 DEF NoHand
      <4>2. InCharge(m) /\ hand[m].server # hand[k].server
        BY <1>15, <2>2, <3>3, <4>1 DEF HeldInv, Alone, ReleasesLock
      <4>3. draining'[hand[m].server] = draining[hand[m].server]
        BY <1>15, <3>3, <4>1, <4>2 DEF ReleasesLock, HandInv, HandTypeOK, InCharge
      <4> QED BY <1>15, <3>3, <4>1, <4>2, <4>3 DEF InCharge, ReleasesLock, Guarded, KeepsOut
    <3>4. \A m \in Instant : InCharge(m)'
      BY <3>3 DEF InCharge, Guarded
    <3> QED BY <3>2, <3>4 DEF HeldInv
  <2> QED BY <2>1, <2>2
<1>16. ASSUME NEW k \in Instant, LeaseExpires(k) PROVE HeldInv'
  <2>1. \A m \in Instant : lock[m] \in Server => lock'[m] = lock[m]
    BY <1>0, <1>16, OwnersAssumption DEF LeaseExpires
  <2> QED BY <1>16, <2>1 DEF LeaseExpires, HeldInv, Alone, InCharge, Guarded, KeepsOut
<1>17. ASSUME NEW s \in Server, Seeks(s) PROVE HeldInv'
  BY <1>7, <1>17 DEF Seeks
<1>18. ASSUME NEW s \in Server, ListsNothing(s) \/ FindsItHeld(s) \/ ReportsLatest(s) PROVE HeldInv'
  BY <1>7, <1>18 DEF ListsNothing, FindsItHeld, ReportsLatest
<1>19. ASSUME NEW s \in Server, Lists(s) PROVE HeldInv'
  BY <1>7, <1>19 DEF Lists
<1>20. ASSUME NEW s \in Server, Probes(s) PROVE HeldInv'
  <2>1. \A k \in Instant : lock[k] \notin {NoServer, s} => lock'[k] = lock[k]
    BY <1>0, <1>20 DEF Probes, Takeable
  <2> QED BY <1>7, <1>20, <2>1 DEF Probes
<1>21. ASSUME NEW s \in Server, Unprobes(s) PROVE HeldInv'
  <2>1. \A k \in Instant : lock[k] \notin {NoServer, s} => lock'[k] = lock[k]
    BY <1>0, <1>21 DEF Unprobes, GivenUp
  <2> QED BY <1>7, <1>21, <2>1 DEF Unprobes
<1>22. ASSUME NEW s \in Server, ReportsOlder(s) PROVE HeldInv'
  BY <1>7, <1>22 DEF ReportsOlder
<1>23. ASSUME NEW s \in Server, Announces(s) PROVE HeldInv'
  BY <1>7, <1>23 DEF Announces
<1>24. ASSUME NEW s \in Server, Restarts(s) PROVE HeldInv'
  <2>1. seek[s].latest.run \in Run \cup {NoRun} /\ NextAttempt(seek[s].latest) \in 0 .. MaxAttempts
    BY <1>0, <1>24 DEF Restarts, HandInv, SeekInv, Seeker, ListedRecord
  <2>2. crowded' \/ (~crowded /\ InHand(s) = {})
    BY <1>24 DEF Restarts, Crowds
  <2>3. seek'[s].pc = "idle" /\ \A t \in Server \ {s} : seek'[t] = seek[t]
    BY <1>0, <1>1, <1>24 DEF Restarts
  <2> QED BY <1>24, <2>1, <2>2, <2>3, StartKeepsHeld DEF Restarts
<1>25. ASSUME NEW s \in Server, NEW r \in Run, Enqueues(s, r) PROVE HeldInv'
  <2>1. crowded' \/ (~crowded /\ InHand(s) = {} /\ seek[s].pc = "idle")
    BY <1>25 DEF Enqueues, Crowds
  <2>2. 1 \in 0 .. MaxAttempts
    BY AttemptsAssumption
  <2> QED BY <1>25, <2>1, <2>2, StartKeepsHeld DEF Enqueues
<1>26. ASSUME NEW s \in Server, StartsUp(s) \/ Stops(s) \/ GraceEnds(s) PROVE HeldInv'
  BY <1>26 DEF StartsUp, Stops, GraceEnds, HeldInv, Alone, InCharge, Guarded, KeepsOut
<1>27. ASSUME NEW s \in Server, Leaves(s) \/ Crashes(s) PROVE HeldInv'
  BY <1>27, DeathKeepsHeld DEF Leaves, Crashes
<1>28. CASE UNCHANGED vars
  BY <1>28 DEF vars, HeldInv, Alone, InCharge, Guarded, KeepsOut
<1> QED
  BY <1>8, <1>9, <1>10, <1>11, <1>12, <1>13, <1>14, <1>15, <1>16, <1>17, <1>18, <1>19, <1>20, <1>21,
     <1>22, <1>23, <1>24, <1>25, <1>26, <1>27, <1>28
  DEF Next, HandStep, SeekStep, ProcessStep

(* A run in hand is held by its lock from before its record says it is     *)
(* running until its work ends and, when its job has a schedule, until     *)
(* after the record says how it ended, as long as none crowded it: no look *)
(* of any process takes it for cut off.                                    *)
THEOREM LiveRunsStayHeld == Spec => []LiveRunsAreHeld
<1>1. Init => HandInv /\ HeldInv
  BY InitTypes, InitHeld
<1>2. HandInv /\ HeldInv /\ [Next]_vars => HandInv' /\ HeldInv'
  BY StepKeepsTypes, StepKeepsHeld
<1>3. HeldInv => LiveRunsAreHeld
  BY DEF HeldInv, InCharge, LiveRunsAreHeld, Attended, Guarded, Ending
<1> QED BY <1>1, <1>2, <1>3, PTL DEF Spec

-----------------------------------------------------------------------------
(* One server.  How many stops ended: *)
Ended(s) == tally.stops - (IF mode[s] \in {"stopping", "late"} THEN 1 ELSE 0)

ModesInv(s) ==
  /\ mode[s] \in {"stopping", "late"} => tally.stops > 0
  /\ seek[s].pc # "idle" => mode[s] # "down"
  /\ \A k \in Instant : hand[k].pc # "idle" => hand[k].server = s /\ mode[s] # "down"

AskedInv == \A r \in Run \ tally.asked : record[r] = NoRecord

(* What a look listed is still so. *)
ListInv(s) == seek[s].pc \in {"probe", "probed", "report", "restart"} =>
  seek[s].latest \in Unfinished /\ seek[s].older \subseteq Unfinished \ {seek[s].latest}

(* A run in hand and its record. *)
AtHand(s, k) ==
  /\ hand[k].run \in Run \cap tally.asked
  /\ hand[k].pc \in {"take", "record"} => record[hand[k].run].status \in {"none", "running", "interrupted"}
  /\ hand[k].pc \in {"take", "record", "setup"} => begun[hand[k].run] < hand[k].attempt + Ended(s)
  /\ hand[k].pc \in {"setup", "work", "told", "end"} => record[hand[k].run] = RecordOf(k, "running")
  /\ hand[k].pc = "told" => hand[k].status \in {"completed", "failed"}
  /\ hand[k].pc = "end" => hand[k].status \in {"completed", "failed", "interrupted"}
  /\ hand[k].pc \in {"end", "release"} /\ hand[k].status = "interrupted" => mode[s] # "up"

HandsInv(s) == \A k \in Instant : hand[k].pc # "idle" => AtHand(s, k)

(* A run was begun once for each attempt and each stop that ended; one that *)
(* was handed off has a beginning to spare once its process is gone.       *)
CountInv(s) == \A r \in Run :
  /\ record[r].status = "none" => begun[r] = 0
  /\ record[r].status # "none" => begun[r] <= record[r].attempt + Ended(s)
  /\ record[r].status = "interrupted" /\ (mode[s] \in {"up", "down"} \/ seek[s].pc # "idle") =>
       begun[r] < record[r].attempt + Ended(s)

OneInv(s) == ModesInv(s) /\ AskedInv /\ ListInv(s) /\ HandsInv(s) /\ CountInv(s)

LEMMA CrowdedStays == [Next]_vars /\ ~crowded' => ~crowded
  BY DEF Next, vars, SeekStep, ProcessStep, HandStep, Enqueues, Crowds, TakesLock, RecordsStart, BeginsWork, EndsWork,
         LeavesWork, HandsOff, RecordsEnd, ReleasesLock, LeaseExpires, Seeks, ListsNothing, Lists, Probes, FindsItHeld,
         Unprobes, ReportsOlder, ReportsLatest, Announces, Restarts, StartsUp, Stops, GraceEnds, Leaves, Crashes, Dies

(* Types of what the counts are made of. *)
LEMMA CountTypes ==
  ASSUME NEW s \in Server, HandInv, ModesInv(s)
  PROVE  /\ Ended(s) \in Nat /\ Ended(s) <= tally.stops /\ tally.stops \in Nat /\ MaxAttempts \in Nat
         /\ \A r \in Run : begun[r] \in Nat /\ record[r].attempt \in Nat /\ record[r].attempt <= MaxAttempts
         /\ \A k \in Instant : hand[k].attempt \in Nat
<1>1. /\ tally.stops \in Nat /\ begun \in [Run -> Nat] /\ record \in [Run -> Record]
      /\ hand \in [Instant -> Hand] /\ MaxAttempts \in Nat
  BY AttemptsAssumption DEF HandInv, HandTypeOK
<1>2. \A r \in Run : record[r].attempt \in 0 .. MaxAttempts
  BY <1>1 DEF Record
<1>3. \A k \in Instant : hand[k].attempt \in 0 .. MaxAttempts
  BY <1>1 DEF Hand
<1> QED BY <1>1, <1>2, <1>3 DEF Ended, ModesInv

(* The one run in hand of one server. *)
LEMMA OnlyHand ==
  ASSUME NEW s, Server = {s}, Scheduled, HeldInv, ~crowded, ModesInv(s), NEW k \in Instant, hand[k].pc # "idle"
  PROVE  /\ hand[k].server = s /\ seek[s].pc = "idle" /\ mode[s] # "down"
         /\ \A m \in Instant \ {k} : hand[m].pc = "idle"
  BY DEF HeldInv, Alone, InCharge, Guarded, ModesInv

LEMMA HandStepOne ==
  ASSUME NEW s, Server = {s}, Scheduled, HandInv, HeldInv, OneInv(s), ~crowded, NEW k \in Instant, HandStep(k)
  PROVE  OneInv(s)'
<1>1. /\ hand \in [Instant -> Hand] /\ record \in [Run -> Record] /\ begun \in [Run -> Nat]
      /\ s \in Server /\ NoHand.pc = "idle" /\ mode[s] \in {"down", "up", "stopping", "late"}
  BY DEF HandInv, HandTypeOK, NoHand
<1>2. hand[k].pc # "idle"
  BY DEF HandStep, Goes, TakesLock, RecordsStart, BeginsWork, EndsWork, LeavesWork, HandsOff, RecordsEnd, ReleasesLock
<1>3. /\ hand[k].server = s /\ seek[s].pc = "idle" /\ mode[s] # "down"
      /\ \A m \in Instant \ {k} : hand[m].pc = "idle"
  BY <1>2, OnlyHand DEF OneInv
<1>4. UNCHANGED <<mode, seek, tally>>
  BY DEF HandStep, TakesLock, RecordsStart, BeginsWork, EndsWork, LeavesWork, HandsOff, RecordsEnd, ReleasesLock
<1>5. Ended(s)' = Ended(s)
  BY <1>4 DEF Ended
<1>6. /\ Ended(s) \in Nat /\ \A r \in Run : begun[r] \in Nat /\ record[r].attempt \in Nat
      /\ hand[k].attempt \in Nat
  BY <1>1, CountTypes DEF OneInv
<1>7. AtHand(s, k) /\ hand[k].run \in Run /\ hand[k].run \in tally.asked
  BY <1>2 DEF OneInv, HandsInv, AtHand
<1>8. ASSUME NEW h, hand' = [hand EXCEPT ![k] = h], h = NoHand \/ (h.server = s /\ AtHand(s, k)'),
             \A r \in Run \ {hand[k].run} : record'[r] = record[r], CountInv(s)'
      PROVE  OneInv(s)'
  <2>1. hand'[k] = h /\ \A m \in Instant \ {k} : hand'[m] = hand[m]
    BY <1>1, <1>8
  <2>2. ModesInv(s)' /\ HandsInv(s)' /\ ListInv(s)'
    BY <1>1, <1>3, <1>4, <1>8, <2>1 DEF OneInv, ModesInv, HandsInv, ListInv
  <2>3. AskedInv'
    BY <1>4, <1>7, <1>8 DEF OneInv, AskedInv
  <2> QED BY <1>8, <2>2, <2>3 DEF OneInv
<1>9. ASSUME NEW h, hand' = [hand EXCEPT ![k] = h], h.run = hand[k].run, h.attempt = hand[k].attempt, h.server = hand[k].server,
             UNCHANGED <<record, begun>>,
             \/ hand[k].pc = "take" /\ h.pc = "record"
             \/ hand[k].pc = "work" /\ h.pc = "told" /\ h.status \in {"completed", "failed"}
             \/ hand[k].pc \in {"setup", "work", "told"} /\ h.pc = "end" /\ h.status \in {"completed", "failed", "interrupted"}
                  /\ (h.status = "interrupted" => mode[s] # "up")
      PROVE  OneInv(s)'
  <2>1. hand'[k] = h
    BY <1>1, <1>9
  <2>2. RecordOf(k, "running")' = RecordOf(k, "running")
    BY <1>9, <2>1 DEF RecordOf
  <2>3. AtHand(s, k)'
    BY <1>4, <1>5, <1>7, <1>9, <2>1, <2>2 DEF AtHand
  <2>4. CountInv(s)'
    BY <1>4, <1>5, <1>9 DEF OneInv, CountInv
  <2> QED BY <1>3, <1>8, <1>9, <2>3, <2>4
<1>10. CASE TakesLock(k)
  <2> DEFINE h == [hand[k] EXCEPT !.pc = "record"]
  <2>1. hand[k].pc = "take" /\ hand' = [hand EXCEPT ![k] = h] /\ UNCHANGED <<record, begun>>
    BY <1>10 DEF TakesLock, Goes
  <2>2. h.run = hand[k].run /\ h.attempt = hand[k].attempt /\ h.server = hand[k].server /\ h.pc = "record"
    BY <1>1 DEF Hand
  <2> HIDE DEF h
  <2> QED BY <1>9, <2>1, <2>2
<1>11. CASE RecordsStart(k)
  <2> DEFINE h == [hand[k] EXCEPT !.pc = "setup"]
             r == hand[k].run
  <2>1. /\ hand[k].pc = "record" /\ hand' = [hand EXCEPT ![k] = h] /\ begun' = begun
        /\ record' = [record EXCEPT ![r] = RecordOf(k, "running")]
    BY <1>11 DEF RecordsStart, Goes
  <2>2. h.run = r /\ h.attempt = hand[k].attempt /\ h.server = s /\ h.pc = "setup"
    BY <1>1, <1>3 DEF Hand
  <2> HIDE DEF h
  <2>3. hand'[k] = h /\ record'[r] = RecordOf(k, "running") /\ RecordOf(k, "running")' = RecordOf(k, "running")
        /\ \A q \in Run \ {r} : record'[q] = record[q]
    BY <1>1, <1>7, <2>1, <2>2 DEF RecordOf
  <2>4. AtHand(s, k)'
    BY <1>4, <1>5, <1>7, <2>1, <2>2, <2>3 DEF AtHand
  <2>5. record'[r].status = "running" /\ record'[r].attempt = hand[k].attempt
    BY <2>3 DEF RecordOf
  <2>6. begun[r] <= hand[k].attempt + Ended(s)
    BY <1>6, <1>7, <2>1 DEF AtHand
  <2>7. CountInv(s)'
    BY <1>4, <1>5, <2>1, <2>3, <2>5, <2>6 DEF OneInv, CountInv
  <2> QED BY <1>8, <2>1, <2>2, <2>3, <2>4, <2>7
<1>12. CASE BeginsWork(k)
  <2> DEFINE h == [hand[k] EXCEPT !.pc = "work"]
             r == hand[k].run
  <2>1. /\ hand[k].pc = "setup" /\ hand' = [hand EXCEPT ![k] = h] /\ record' = record
        /\ begun' = [begun EXCEPT ![r] = @ + 1]
    BY <1>12 DEF BeginsWork, Goes
  <2>2. h.run = r /\ h.attempt = hand[k].attempt /\ h.server = s /\ h.pc = "work"
    BY <1>1, <1>3 DEF Hand
  <2> HIDE DEF h
  <2>3. hand'[k] = h /\ RecordOf(k, "running")' = RecordOf(k, "running")
    BY <1>1, <2>1, <2>2 DEF RecordOf
  <2>4. AtHand(s, k)'
    BY <1>4, <1>7, <2>1, <2>2, <2>3 DEF AtHand
  <2>5. record[r].status = "running" /\ record[r].attempt = hand[k].attempt /\ begun[r] < hand[k].attempt + Ended(s)
    BY <1>7, <2>1 DEF AtHand, RecordOf
  <2>6. begun'[r] <= record[r].attempt + Ended(s) /\ \A q \in Run \ {r} : begun'[q] = begun[q]
    BY <1>1, <1>6, <1>7, <2>1, <2>5
  <2>7. CountInv(s)'
    BY <1>4, <1>5, <2>1, <2>5, <2>6 DEF OneInv, CountInv
  <2> QED BY <1>8, <2>1, <2>2, <2>4, <2>7
<1>13. CASE \E status \in {"completed", "failed"} : EndsWork(k, status)
  <2>1. PICK status \in {"completed", "failed"} : EndsWork(k, status)
    BY <1>13
  <2> DEFINE h == [hand[k] EXCEPT !.pc = "told", !.status = status]
  <2>2. hand[k].pc = "work" /\ hand' = [hand EXCEPT ![k] = h] /\ UNCHANGED <<record, begun>>
    BY <2>1 DEF EndsWork
  <2>3. h.run = hand[k].run /\ h.attempt = hand[k].attempt /\ h.server = hand[k].server /\ h.pc = "told" /\ h.status = status
    BY <1>1 DEF Hand
  <2> HIDE DEF h
  <2> QED BY <1>9, <2>2, <2>3
<1>14. CASE LeavesWork(k)
  <2> DEFINE h == [hand[k] EXCEPT !.pc = "end", !.status = Outcome(k)]
  <2>1. hand[k].pc = "told" /\ hand' = [hand EXCEPT ![k] = h] /\ UNCHANGED <<record, begun>>
    BY <1>14 DEF LeavesWork
  <2>2. h.run = hand[k].run /\ h.attempt = hand[k].attempt /\ h.server = hand[k].server /\ h.pc = "end" /\ h.status = Outcome(k)
    BY <1>1 DEF Hand
  <2>3. Outcome(k) \in {"completed", "failed", "interrupted"} /\ (Outcome(k) = "interrupted" => mode[s] # "up")
    BY <1>3, <1>7, <2>1 DEF Outcome, AtHand
  <2> HIDE DEF h
  <2> QED BY <1>9, <2>1, <2>2, <2>3
<1>15. CASE HandsOff(k)
  <2> DEFINE h == [hand[k] EXCEPT !.pc = "end", !.status = "interrupted", !.byGrace = TRUE]
  <2>1. /\ hand[k].pc \in {"setup", "work", "told"} /\ hand' = [hand EXCEPT ![k] = h]
        /\ mode[s] = "late" /\ UNCHANGED <<record, begun>>
    BY <1>3, <1>15 DEF HandsOff
  <2>2. /\ h.run = hand[k].run /\ h.attempt = hand[k].attempt /\ h.server = hand[k].server
        /\ h.pc = "end" /\ h.status = "interrupted"
    BY <1>1 DEF Hand
  <2> HIDE DEF h
  <2> QED BY <1>9, <2>1, <2>2
<1>16. CASE RecordsEnd(k)
  <2> DEFINE h == [hand[k] EXCEPT !.pc = "release"]
             r == hand[k].run
  <2>1. /\ hand[k].pc = "end" /\ hand' = [hand EXCEPT ![k] = h] /\ begun' = begun
        /\ record' = [record EXCEPT ![r] = RecordOf(k, hand[k].status)]
    BY <1>16 DEF RecordsEnd, Goes
  <2>2. h.run = r /\ h.attempt = hand[k].attempt /\ h.server = s /\ h.pc = "release" /\ h.status = hand[k].status
    BY <1>1, <1>3 DEF Hand
  <2> HIDE DEF h
  <2>3. hand'[k] = h /\ record'[r] = RecordOf(k, hand[k].status) /\ \A q \in Run \ {r} : record'[q] = record[q]
    BY <1>1, <1>7, <2>1
  <2>4. AtHand(s, k)'
    BY <1>4, <1>7, <2>1, <2>2, <2>3 DEF AtHand
  <2>5. record'[r].status = hand[k].status /\ record'[r].attempt = hand[k].attempt /\ hand[k].status # "none"
        /\ (hand[k].status = "interrupted" => mode[s] \in {"stopping", "late"})
    BY <1>1, <1>3, <1>7, <2>1, <2>3 DEF RecordOf, AtHand
  <2>6. begun[r] <= hand[k].attempt + Ended(s)
    BY <1>7, <2>1 DEF AtHand, RecordOf, OneInv, CountInv
  <2>7. CountInv(s)'
    BY <1>3, <1>4, <1>5, <2>1, <2>3, <2>5, <2>6 DEF OneInv, CountInv
  <2> QED BY <1>8, <2>1, <2>2, <2>3, <2>4, <2>7
<1>17. CASE ReleasesLock(k)
  <2>1. hand' = [hand EXCEPT ![k] = NoHand] /\ UNCHANGED <<record, begun>>
    BY <1>17 DEF ReleasesLock
  <2>2. CountInv(s)'
    BY <1>4, <1>5, <2>1 DEF OneInv, CountInv
  <2> QED BY <1>8, <2>1, <2>2
<1> QED BY <1>10, <1>11, <1>12, <1>13, <1>14, <1>15, <1>16, <1>17 DEF HandStep

(* What Unfinished holds, and what a report takes out of it. *)
LEMMA UnfinishedIs ==
  ASSUME NEW l \in Unfinished
  PROVE  /\ l.run \in Run /\ record[l.run].status \in {"running", "interrupted"}
         /\ l.status = record[l.run].status /\ l.attempt = record[l.run].attempt
         /\ l = Listed(l.run)
BY DEF Unfinished, Listed

LEMMA ReportedLeaves ==
  ASSUME HandInv, NEW l \in Unfinished, Reported(l)
  PROVE  /\ record'[l.run].status = "failed" /\ record'[l.run].attempt = record[l.run].attempt
         /\ \A r \in Run \ {l.run} : record'[r] = record[r]
         /\ Unfinished' = Unfinished \ {l}
<1> DEFINE new == [status |-> "failed", attempt |-> l.attempt, at |-> l.at]
<1>1. l.run \in Run /\ l.attempt = record[l.run].attempt /\ l = Listed(l.run)
  BY UnfinishedIs
<1>2. record' = [record EXCEPT ![l.run] = new] /\ record \in [Run -> Record]
  BY DEF Reported, HandInv, HandTypeOK
<1>3. new.status = "failed" /\ new.attempt = l.attempt
  OBVIOUS
<1> HIDE DEF new
<1>4. record'[l.run] = new /\ \A r \in Run \ {l.run} : record'[r] = record[r]
  BY <1>1, <1>2
<1>5. \A r \in Run \ {l.run} : Listed(r)' = Listed(r)
  BY <1>4 DEF Listed
<1>6. \A r \in Run : Listed(r).run = r /\ Listed(r)'.run = r
  BY DEF Listed
<1>7. Unfinished' = {Listed(r)' : r \in {q \in Run : record'[q].status \in {"running", "interrupted"}}}
  BY DEF Unfinished
<1>8. {q \in Run : record'[q].status \in {"running", "interrupted"}}
        = {q \in Run : record[q].status \in {"running", "interrupted"}} \ {l.run}
  BY <1>1, <1>3, <1>4
<1>9. Unfinished' = Unfinished \ {l}
  <2>1. ASSUME NEW m \in Unfinished' PROVE m \in Unfinished \ {l}
    <3>1. PICK r \in Run \ {l.run} : record[r].status \in {"running", "interrupted"} /\ m = Listed(r)'
      BY <1>7, <1>8, <2>1
    <3>2. m = Listed(r) /\ m.run # l.run
      BY <1>5, <1>6, <3>1
    <3> QED BY <3>1, <3>2 DEF Unfinished
  <2>2. ASSUME NEW m \in Unfinished, m # l PROVE m \in Unfinished'
    <3>1. PICK r \in Run : record[r].status \in {"running", "interrupted"} /\ m = Listed(r)
      BY <2>2 DEF Unfinished
    <3>2. r # l.run
      BY <1>1, <2>2, <3>1
    <3> QED BY <1>5, <1>7, <1>8, <3>1, <3>2
  <2> QED BY <2>1, <2>2
<1> QED BY <1>1, <1>3, <1>4, <1>9

LEMMA SeekStepOne ==
  ASSUME NEW s, Server = {s}, Scheduled, HandInv, HeldInv, OneInv(s), ~crowded', ~crowded, SeekStep(s)
  PROVE  OneInv(s)'
<1>1. /\ hand \in [Instant -> Hand] /\ record \in [Run -> Record] /\ seek \in [Server -> Seeker]
      /\ s \in Server /\ NoSeek.pc = "idle" /\ mode[s] \in {"down", "up", "stopping", "late"}
  BY DEF HandInv, HandTypeOK, NoSeek
<1>2. UNCHANGED <<mode, tally, begun>>
  BY DEF SeekStep, Seeks, ListsNothing, Lists, Probes, FindsItHeld, Unprobes, ReportsOlder, ReportsLatest, Announces, Restarts
<1>3. Ended(s)' = Ended(s)
  BY <1>2 DEF Ended
<1>4. /\ Ended(s) \in Nat /\ \A r \in Run : begun[r] \in Nat /\ record[r].attempt \in Nat
  BY <1>1, CountTypes DEF OneInv
<1>5. seek[s].pc # "idle" => \A k \in Instant : hand[k].pc = "idle"
  BY DEF HeldInv, InCharge, Guarded, KeepsOut, OneInv, ModesInv
<1>6. ASSUME UNCHANGED <<hand, record>>, seek[s].pc # "idle" \/ mode[s] = "up", seek[s].pc # "idle" \/ seek'[s].pc = "list",
             ListInv(s)'
      PROVE  OneInv(s)'
  <2>1. ModesInv(s)'
    BY <1>1, <1>2, <1>6 DEF OneInv, ModesInv
  <2>2. AskedInv'
    BY <1>2, <1>6 DEF OneInv, AskedInv
  <2>3. HandsInv(s)'
    <3>1. \A k \in Instant : AtHand(s, k)' = AtHand(s, k)
      BY <1>2, <1>3, <1>6 DEF AtHand, RecordOf
    <3> QED BY <1>6, <3>1 DEF OneInv, HandsInv
  <2>4. CountInv(s)'
    BY <1>2, <1>3, <1>6 DEF OneInv, CountInv
  <2> QED BY <1>6, <2>1, <2>2, <2>3, <2>4 DEF OneInv
<1>7. UNCHANGED record => Unfinished' = Unfinished
  BY DEF Unfinished, Listed
<1>8. CASE Seeks(s)
  <2>1. /\ UNCHANGED <<hand, record>> /\ mode[s] = "up"
        /\ seek'[s] = [seek[s] EXCEPT !.pc = "list"]
    BY <1>1, <1>8 DEF Seeks
  <2>2. seek'[s].pc = "list"
    BY <1>1, <2>1 DEF Seeker
  <2> QED BY <1>6, <2>1, <2>2 DEF ListInv
<1>9. CASE ListsNothing(s) \/ FindsItHeld(s)
  <2>1. UNCHANGED <<hand, record>> /\ seek[s].pc # "idle" /\ seek'[s].pc = "idle"
    BY <1>1, <1>9 DEF ListsNothing, FindsItHeld
  <2> QED BY <1>6, <2>1 DEF ListInv
<1>10. CASE Lists(s)
  <2> DEFINE newest == Newest(Unfinished)
             next == [pc |-> AfterProbe(RunningIn(Unfinished)), probe |-> RunningIn(Unfinished),
                      probed |-> 0, older |-> Unfinished \ {newest}, latest |-> newest]
  <2>1. UNCHANGED <<hand, record>> /\ seek[s].pc # "idle" /\ seek' = [seek EXCEPT ![s] = next] /\ Unfinished # {}
    BY <1>10 DEF Lists
  <2>2. \A l \in Unfinished : l.at \in 0 .. MaxStarts
    BY <1>1 DEF Unfinished, Listed, Record
  <2>3. newest \in Unfinished
    BY <2>1, <2>2, NewestExists
  <2>4. next.latest = newest /\ next.older = Unfinished \ {newest}
    OBVIOUS
  <2> HIDE DEF newest, next
  <2>5. seek'[s] = next
    BY <1>1, <2>1
  <2> QED BY <1>6, <1>7, <2>1, <2>3, <2>4, <2>5 DEF ListInv
<1>11. CASE Probes(s) \/ Unprobes(s) \/ Announces(s)
  <2>1. /\ UNCHANGED <<hand, record>> /\ seek[s].pc \in {"probe", "probed", "report"}
        /\ seek'[s].latest = seek[s].latest /\ seek'[s].older = seek[s].older
    BY <1>1, <1>11 DEF Probes, Unprobes, Announces, Seeker
  <2>2. ListInv(s)'
    BY <1>7, <2>1 DEF OneInv, ListInv
  <2> QED BY <1>6, <2>1, <2>2
<1>12. ASSUME NEW l \in Unfinished, Reported(l), UNCHANGED hand, seek[s].pc = "report", ListInv(s)'
       PROVE  OneInv(s)'
  <2>1. /\ record'[l.run].status = "failed" /\ record'[l.run].attempt = record[l.run].attempt
        /\ \A r \in Run \ {l.run} : record'[r] = record[r]
        /\ l.run \in Run /\ record[l.run].status \in {"running", "interrupted"}
    BY <1>12, ReportedLeaves, UnfinishedIs
  <2>2. ModesInv(s)'
    BY <1>1, <1>2, <1>12 DEF OneInv, ModesInv
  <2>3. l.run \in tally.asked
    BY <2>1 DEF OneInv, AskedInv, NoRecord
  <2>4. AskedInv'
    BY <1>2, <2>1, <2>3 DEF OneInv, AskedInv
  <2>5. HandsInv(s)'
    BY <1>5, <1>12 DEF HandsInv
  <2>6. CountInv(s)'
    <3>1. begun[l.run] <= record[l.run].attempt + Ended(s)
      BY <2>1 DEF OneInv, CountInv
    <3>2. ASSUME NEW r \in Run \ {l.run}, record[r].status = "interrupted" PROVE begun[r] < record[r].attempt + Ended(s)
      BY <1>12, <3>2 DEF OneInv, CountInv
    <3> QED BY <1>2, <1>3, <2>1, <3>1, <3>2 DEF OneInv, CountInv
  <2> QED BY <1>12, <2>2, <2>4, <2>5, <2>6 DEF OneInv
<1>13. CASE ReportsOlder(s)
  <2> DEFINE l == Newest(seek[s].older)
  <2>1. /\ UNCHANGED hand /\ Reported(l) /\ seek[s].pc = "report" /\ seek[s].older # {}
        /\ seek' = [seek EXCEPT ![s] = [seek[s] EXCEPT !.older = @ \ {l}]]
    BY <1>13 DEF ReportsOlder
  <2>2. seek[s].latest \in Unfinished /\ seek[s].older \subseteq Unfinished \ {seek[s].latest}
    BY <2>1 DEF OneInv, ListInv
  <2>3. \A m \in seek[s].older : m.at \in 0 .. MaxStarts
    BY <1>1, <2>2 DEF Unfinished, Listed, Record
  <2>4. l \in seek[s].older
    BY <2>1, <2>3, NewestExists
  <2> HIDE DEF l
  <2>5. seek'[s].latest = seek[s].latest /\ seek'[s].older = seek[s].older \ {l}
    BY <1>1, <2>1 DEF Seeker
  <2>6. Unfinished' = Unfinished \ {l}
    BY <2>1, <2>2, <2>4, ReportedLeaves
  <2>7. ListInv(s)'
    BY <2>2, <2>4, <2>5, <2>6 DEF ListInv
  <2> QED BY <1>12, <2>1, <2>2, <2>4, <2>7
<1>14. CASE ReportsLatest(s)
  <2>1. /\ UNCHANGED hand /\ Reported(seek[s].latest) /\ seek[s].pc = "report" /\ seek'[s].pc = "idle"
    BY <1>1, <1>14 DEF ReportsLatest
  <2>2. seek[s].latest \in Unfinished
    BY <2>1 DEF OneInv, ListInv
  <2> QED BY <1>12, <2>1, <2>2 DEF ListInv
<1>15. CASE Restarts(s)
  <2> DEFINE l == seek[s].latest
             h == [NoHand EXCEPT !.pc = "take", !.server = s, !.run = l.run, !.attempt = NextAttempt(l)]
  <2>1. /\ seek[s].pc = "restart" /\ seek'[s].pc = "idle" /\ record' = record
        /\ hand' = [hand EXCEPT ![clock + 1] = h]
    BY <1>1, <1>15 DEF Restarts, Starts
  <2>2. PICK k \in Instant : k = clock + 1
    BY <1>15, BoundsAssumption DEF Restarts, Starts, Instant, HandInv, HandTypeOK
  <2>3. l \in Unfinished
    BY <2>1 DEF OneInv, ListInv
  <2>4. l.run \in Run /\ record[l.run].status \in {"running", "interrupted"} /\ l.status = record[l.run].status
        /\ l.attempt = record[l.run].attempt
    BY <2>3, UnfinishedIs
  <2>5. l.run \in tally.asked
    BY <2>4 DEF OneInv, AskedInv, NoRecord
  <2>6. begun[l.run] < NextAttempt(l) + Ended(s)
    <3>1. CASE record[l.run].status = "interrupted"
      BY <2>1, <2>4, <3>1 DEF OneInv, CountInv, NextAttempt
    <3>2. CASE record[l.run].status = "running"
      <4>1. NextAttempt(l) = record[l.run].attempt + 1 /\ begun[l.run] <= record[l.run].attempt + Ended(s)
        BY <2>4, <3>2 DEF OneInv, CountInv, NextAttempt
      <4>2. begun[l.run] \in Nat /\ record[l.run].attempt \in Nat
        BY <1>4, <2>4
      <4> HIDE DEF l
      <4> QED BY <1>4, <4>1, <4>2
    <3> QED BY <2>4, <3>1, <3>2
  <2>7. h.pc = "take" /\ h.server = s /\ h.run = l.run /\ h.attempt = NextAttempt(l) /\ h.status = "none"
    BY DEF NoHand
  <2> HIDE DEF h, l
  <2>8. hand'[k] = h /\ \A m \in Instant \ {k} : hand'[m].pc = "idle"
    BY <1>1, <1>5, <2>1, <2>2
  <2>9. AtHand(s, k)'
    BY <1>2, <1>3, <2>1, <2>4, <2>5, <2>6, <2>7, <2>8 DEF AtHand
  <2>10. ModesInv(s)' /\ HandsInv(s)'
    BY <1>1, <1>2, <2>1, <2>2, <2>7, <2>8, <2>9 DEF OneInv, ModesInv, HandsInv
  <2>11. AskedInv' /\ ListInv(s)' /\ CountInv(s)'
    BY <1>2, <1>3, <2>1 DEF OneInv, AskedInv, ListInv, CountInv
  <2> QED BY <2>10, <2>11 DEF OneInv
<1> QED BY <1>8, <1>9, <1>10, <1>11, <1>13, <1>14, <1>15 DEF SeekStep

LEMMA ProcessStepOne ==
  ASSUME NEW s, Server = {s}, HandInv, OneInv(s), ~crowded, ProcessStep(s)
  PROVE  OneInv(s)'
<1>1. /\ hand \in [Instant -> Hand] /\ seek \in [Server -> Seeker] /\ mode \in [Server -> {"down", "up", "stopping", "late"}]
      /\ s \in Server /\ NoSeek.pc = "idle" /\ NoHand.pc = "idle" /\ tally \in [crashes : Nat, stops : Nat, asked : SUBSET Run]
  BY DEF HandInv, HandTypeOK, NoSeek, NoHand
<1>2. /\ Ended(s) \in Nat /\ \A r \in Run : begun[r] \in Nat /\ record[r].attempt \in Nat
      /\ tally.stops \in Nat /\ Ended(s)' = tally'.stops - (IF mode'[s] \in {"stopping", "late"} THEN 1 ELSE 0)
  BY <1>1, CountTypes DEF OneInv, Ended
<1>3. ASSUME UNCHANGED <<record, hand, seek, begun>>, tally'.asked = tally.asked, Ended(s)' = Ended(s), mode'[s] # "down",
             mode'[s] \in {"stopping", "late"} => tally'.stops > 0, mode'[s] = "up" => mode[s] = "down"
      PROVE  OneInv(s)'
  <2>1. ModesInv(s)' /\ AskedInv' /\ ListInv(s)'
    BY <1>3 DEF OneInv, ModesInv, AskedInv, ListInv, Unfinished, Listed
  <2>2. HandsInv(s)'
    <3>1. ASSUME NEW k \in Instant, hand[k].pc # "idle", AtHand(s, k) PROVE AtHand(s, k)'
      BY <1>3, <3>1 DEF AtHand, RecordOf, OneInv, ModesInv
    <3> QED BY <1>3, <3>1 DEF OneInv, HandsInv
  <2>3. CountInv(s)'
    BY <1>1, <1>3 DEF OneInv, CountInv
  <2> QED BY <2>1, <2>2, <2>3 DEF OneInv
<1>4. CASE StartsUp(s)
  <2>1. UNCHANGED <<record, hand, seek, begun, tally>> /\ mode[s] = "down" /\ mode'[s] = "up"
    BY <1>1, <1>4 DEF StartsUp
  <2> QED BY <1>3, <2>1 DEF Ended
<1>5. CASE Stops(s)
  <2>1. UNCHANGED <<record, hand, seek, begun>> /\ mode[s] = "up" /\ mode'[s] = "stopping"
        /\ tally'.asked = tally.asked /\ tally'.stops = tally.stops + 1
    BY <1>1, <1>5 DEF Stops
  <2>2. Ended(s)' = Ended(s)
    BY <1>2, <2>1 DEF Ended
  <2> QED BY <1>2, <1>3, <2>1, <2>2
<1>6. CASE GraceEnds(s)
  <2>1. UNCHANGED <<record, hand, seek, begun, tally>> /\ mode[s] = "stopping" /\ mode'[s] = "late"
    BY <1>1, <1>6 DEF GraceEnds
  <2> QED BY <1>3, <2>1 DEF Ended, OneInv, ModesInv
<1>7. CASE Leaves(s) \/ Crashes(s)
  <2>1. /\ UNCHANGED <<record, begun>> /\ mode[s] # "down" /\ mode'[s] = "down" /\ seek'[s].pc = "idle"
        /\ tally'.stops = tally.stops /\ tally'.asked = tally.asked
        /\ hand' = [k \in Instant |-> IF hand[k].server = s THEN NoHand ELSE hand[k]]
    BY <1>1, <1>7 DEF Leaves, Crashes, Dies
  <2>2. \A k \in Instant : hand'[k].pc = "idle"
    BY <1>1, <2>1 DEF OneInv, ModesInv
  <2>3. ModesInv(s)' /\ AskedInv' /\ ListInv(s)' /\ HandsInv(s)'
    BY <2>1, <2>2 DEF OneInv, ModesInv, AskedInv, ListInv, HandsInv
  <2>4. Ended(s)' = IF mode[s] = "up" THEN Ended(s) ELSE Ended(s) + 1
    BY <1>1, <1>2, <2>1 DEF Ended
  <2>5. CountInv(s)'
    <3>1. CASE mode[s] = "up"
      BY <2>1, <2>4, <3>1 DEF OneInv, CountInv
    <3>2. CASE mode[s] # "up"
      <4>1. \A r \in Run : begun[r] <= record[r].attempt + Ended(s) => begun[r] < record[r].attempt + (Ended(s) + 1)
        BY <1>2
      <4>2. \A r \in Run : record[r].status # "none" => begun[r] < record[r].attempt + Ended(s)'
        BY <2>4, <3>2, <4>1 DEF OneInv, CountInv
      <4>3. \A r \in Run : record[r].status # "none" => begun[r] <= record[r].attempt + Ended(s)'
        BY <1>2, <2>4, <4>2
      <4> QED BY <2>1, <4>2, <4>3 DEF OneInv, CountInv
    <3> QED BY <3>1, <3>2
  <2> QED BY <2>3, <2>5 DEF OneInv
<1> QED BY <1>4, <1>5, <1>6, <1>7 DEF ProcessStep

LEMMA EnqueueOne ==
  ASSUME NEW s, Server = {s}, HandInv, OneInv(s), ~crowded', NEW r \in Run, Enqueues(s, r)
  PROVE  OneInv(s)'
<1> DEFINE h == [NoHand EXCEPT !.pc = "take", !.server = s, !.run = r, !.attempt = 1]
<1>1. /\ hand \in [Instant -> Hand] /\ s \in Server /\ tally \in [crashes : Nat, stops : Nat, asked : SUBSET Run]
  BY DEF HandInv, HandTypeOK
<1>2. /\ mode[s] # "down" /\ r \notin tally.asked /\ UNCHANGED <<mode, record, seek, begun>>
      /\ tally'.asked = tally.asked \cup {r} /\ tally'.stops = tally.stops
      /\ hand' = [hand EXCEPT ![clock + 1] = h] /\ InHand(s) = {} /\ seek[s].pc = "idle"
  BY <1>1 DEF Enqueues, Starts, Crowds
<1>3. PICK k \in Instant : k = clock + 1
  BY BoundsAssumption DEF Enqueues, Starts, Instant, HandInv, HandTypeOK
<1>4. h.pc = "take" /\ h.server = s /\ h.run = r /\ h.attempt = 1 /\ h.status = "none"
  BY DEF NoHand
<1> HIDE DEF h
<1>5. \A m \in Instant : hand[m].pc = "idle"
  BY <1>2 DEF InHand, OneInv, ModesInv
<1>6. hand'[k] = h /\ \A m \in Instant \ {k} : hand'[m].pc = "idle"
  BY <1>1, <1>2, <1>3, <1>5
<1>7. record[r] = NoRecord /\ record[r].status = "none" /\ begun[r] = 0
  BY <1>2 DEF OneInv, AskedInv, CountInv, NoRecord
<1>8. Ended(s)' = Ended(s) /\ Ended(s) \in Nat
  BY <1>1, <1>2, CountTypes DEF Ended, OneInv
<1>9. AtHand(s, k)'
  BY <1>2, <1>4, <1>6, <1>7, <1>8 DEF AtHand
<1>10. ModesInv(s)' /\ HandsInv(s)'
  BY <1>2, <1>4, <1>6, <1>9 DEF OneInv, ModesInv, HandsInv
<1>11. AskedInv' /\ ListInv(s)' /\ CountInv(s)'
  BY <1>2, <1>8 DEF OneInv, AskedInv, ListInv, CountInv
<1> QED BY <1>10, <1>11 DEF OneInv

LEMMA OneInit ==
  ASSUME NEW s, Server = {s}, Init
  PROVE  OneInv(s)
<1>1. /\ s \in Server /\ NoRecord.status = "none" /\ NoHand.pc = "idle" /\ NoSeek.pc = "idle" /\ tally.stops = 0
  BY DEF Init, NoRecord, NoHand, NoSeek
<1> QED BY <1>1 DEF Init, OneInv, ModesInv, AskedInv, ListInv, HandsInv, CountInv

LEMMA OneStep ==
  ASSUME NEW s, Server = {s}, Scheduled, HandInv, HeldInv, crowded \/ OneInv(s), [Next]_vars
  PROVE  crowded' \/ OneInv(s)'
<1> SUFFICES ASSUME ~crowded' PROVE OneInv(s)'
  OBVIOUS
<1>1. ~crowded /\ OneInv(s)
  BY CrowdedStays
<1>2. CASE SeekStep(s)
  BY <1>1, <1>2, SeekStepOne
<1>3. CASE ProcessStep(s)
  BY <1>1, <1>3, ProcessStepOne
<1>4. ASSUME NEW r \in Run, Enqueues(s, r) PROVE OneInv(s)'
  BY <1>1, <1>4, EnqueueOne
<1>5. ASSUME NEW k \in Instant, HandStep(k) PROVE OneInv(s)'
  BY <1>1, <1>5, HandStepOne
<1>6. CASE UNCHANGED <<mode, record, hand, seek, tally, begun>>
  <2>1. Ended(s)' = Ended(s) /\ Unfinished' = Unfinished /\ \A k \in Instant : RecordOf(k, "running")' = RecordOf(k, "running")
    BY <1>6 DEF Ended, Unfinished, Listed, RecordOf
  <2>2. \A k \in Instant : AtHand(s, k)' = AtHand(s, k)
    BY <1>6, <2>1 DEF AtHand
  <2> QED BY <1>1, <1>6, <2>1, <2>2 DEF OneInv, ModesInv, AskedInv, ListInv, HandsInv, CountInv
<1>7. CASE UNCHANGED vars \/ \E k \in Instant : LeaseExpires(k)
  BY <1>6, <1>7 DEF vars, LeaseExpires
<1> QED BY <1>2, <1>3, <1>4, <1>5, <1>7 DEF Next

(* On one server a run of a scheduled job is begun maxAttempts times at    *)
(* most, and once more for every handoff, however often it is cut off and  *)
(* handed off, until a run crowds another: the restarts of recoverOne      *)
(* count a crash and not a handoff.                                        *)
THEOREM OneServerBeginningsBounded ==
  ASSUME NEW s, Server = {s}, Scheduled
  PROVE  Spec => []BeginningsBounded
<1>1. Init => HandInv /\ HeldInv /\ (crowded \/ OneInv(s))
  BY InitTypes, InitHeld, OneInit
<1>2. HandInv /\ HeldInv /\ (crowded \/ OneInv(s)) /\ [Next]_vars => HandInv' /\ HeldInv' /\ (crowded \/ OneInv(s))'
  BY StepKeepsTypes, StepKeepsHeld, OneStep
<1>3. HandInv /\ (crowded \/ OneInv(s)) => BeginningsBounded
  <2> SUFFICES ASSUME HandInv, OneInv(s), NEW r \in Run PROVE begun[r] <= MaxAttempts + tally.stops
    BY DEF BeginningsBounded
  <2>1. /\ Ended(s) \in Nat /\ Ended(s) <= tally.stops /\ tally.stops \in Nat /\ MaxAttempts \in Nat
        /\ begun[r] \in Nat /\ record[r].attempt \in Nat /\ record[r].attempt <= MaxAttempts
    BY CountTypes DEF OneInv
  <2>2. begun[r] = 0 \/ begun[r] <= record[r].attempt + Ended(s)
    BY DEF OneInv, CountInv
  <2> QED BY <2>1, <2>2
<1> QED BY <1>1, <1>2, <1>3, PTL DEF Spec

(* On one server a run of a scheduled job that is recorded as completed is *)
(* never begun again, and nothing else is said of it, until a run crowds   *)
(* another: no look lists it and no start is left that would still write   *)
(* its record.                                                             *)
THEOREM OneServerCompletedIsFinal ==
  ASSUME NEW s, Server = {s}, Scheduled
  PROVE  Spec => CompletedIsFinal
<1>1. Init => HandInv /\ HeldInv /\ (crowded \/ OneInv(s))
  BY InitTypes, InitHeld, OneInit
<1>2. HandInv /\ HeldInv /\ (crowded \/ OneInv(s)) /\ [Next]_vars => HandInv' /\ HeldInv' /\ (crowded \/ OneInv(s))'
  BY StepKeepsTypes, StepKeepsHeld, OneStep
<1>3. ASSUME HandInv, crowded \/ OneInv(s), [Next]_vars, NEW r \in Run, record[r].status = "completed"
      PROVE  crowded' \/ (record'[r] = record[r] /\ begun'[r] = begun[r])
  <2> SUFFICES ASSUME ~crowded' PROVE record'[r] = record[r] /\ begun'[r] = begun[r]
    OBVIOUS
  <2>1. OneInv(s) /\ record \in [Run -> Record] /\ begun \in [Run -> Nat]
    BY <1>3, CrowdedStays DEF HandInv, HandTypeOK
  <2>2. ASSUME NEW k \in Instant, HandStep(k) PROVE record'[r] = record[r] /\ begun'[r] = begun[r]
    <3>1. CASE RecordsStart(k) \/ BeginsWork(k) \/ RecordsEnd(k)
      <4>1. hand[k].pc \in {"record", "setup", "end"}
        BY <3>1 DEF RecordsStart, BeginsWork, RecordsEnd, Goes
      <4>2. record[hand[k].run].status # "completed"
        <5>1. AtHand(s, k)
          BY <2>1, <4>1 DEF OneInv, HandsInv
        <5>2. CASE hand[k].pc = "record"
          BY <5>1, <5>2 DEF AtHand
        <5>3. CASE hand[k].pc \in {"setup", "end"}
          BY <5>1, <5>3 DEF AtHand, RecordOf
        <5> QED BY <4>1, <5>2, <5>3
      <4> QED BY <1>3, <2>1, <3>1, <4>2 DEF RecordsStart, BeginsWork, RecordsEnd
    <3>2. CASE ~(RecordsStart(k) \/ BeginsWork(k) \/ RecordsEnd(k))
      BY <2>2, <3>2 DEF HandStep, TakesLock, EndsWork, LeavesWork, HandsOff, ReleasesLock
    <3> QED BY <3>1, <3>2
  <2>3. ASSUME NEW l \in Unfinished, Reported(l) PROVE record'[r] = record[r]
    BY <1>3, <2>1, <2>3, UnfinishedIs DEF Reported
  <2>4. CASE ReportsOlder(s)
    <3>1. /\ Reported(Newest(seek[s].older)) /\ seek[s].pc = "report" /\ seek[s].older # {} /\ begun' = begun
      BY <2>4 DEF ReportsOlder
    <3>2. seek[s].older \subseteq Unfinished
      BY <2>1, <3>1 DEF OneInv, ListInv
    <3>3. \A m \in seek[s].older : m.at \in 0 .. MaxStarts
      BY <2>1, <3>2 DEF Unfinished, Listed, Record
    <3>4. Newest(seek[s].older) \in Unfinished
      BY <3>1, <3>2, <3>3, NewestExists
    <3> QED BY <2>3, <3>1, <3>4
  <2>5. CASE ReportsLatest(s)
    <3>1. Reported(seek[s].latest) /\ seek[s].pc = "report" /\ begun' = begun
      BY <2>5 DEF ReportsLatest
    <3>2. seek[s].latest \in Unfinished
      BY <2>1, <3>1 DEF OneInv, ListInv
    <3> QED BY <2>3, <3>1, <3>2
  <2>6. CASE SeekStep(s) /\ ~ReportsOlder(s) /\ ~ReportsLatest(s)
    BY <2>6 DEF SeekStep, Seeks, ListsNothing, Lists, Probes, FindsItHeld, Unprobes, Announces, Restarts
  <2>7. CASE ProcessStep(s) \/ \E q \in Run : Enqueues(s, q)
    BY <2>7 DEF ProcessStep, StartsUp, Stops, GraceEnds, Leaves, Crashes, Dies, Enqueues
  <2>8. CASE UNCHANGED vars \/ \E k \in Instant : LeaseExpires(k)
    BY <2>8 DEF vars, LeaseExpires
  <2> QED BY <1>3, <2>2, <2>4, <2>5, <2>6, <2>7, <2>8 DEF Next
<1>4. HandInv /\ (crowded \/ OneInv(s)) /\ [Next]_vars =>
        [\A r \in Run : record[r].status = "completed" => crowded' \/ (record'[r] = record[r] /\ begun'[r] = begun[r])]_vars
  BY <1>3
<1> QED BY <1>1, <1>2, <1>4, PTL DEF Spec, CompletedIsFinal
====
