-------------------------- MODULE SlotLocks_proofs --------------------------
(***************************************************************************)
(* The slot lock of a site keeps the promise of SlotLease whichever        *)
(* backend was opened.  On the database it does for every set of           *)
(* processes; on files for two processes, however their calls on the file  *)
(* system interleave and whoever dies between two of them, until a process *)
(* that gave the slot up comes back to a lock of its own that had run out. *)
(***************************************************************************)
EXTENDS SlotLocks, TLAPS

-----------------------------------------------------------------------------
(* The lock of the database. *)

(* Nobody has come back late at the start. *)
LEMMA NotLateAtStart == LeaseInit => late \in BOOLEAN /\ ~late
BY Zenon DEF LeaseInit

(* No statement of the lock disturbs the types. *)
LEMMA SqliteStepTyped == SqliteTypeOK /\ [SqliteNext]_sqliteVars => SqliteTypeOK'
<1> USE TtlAssumption, MaxTimeAssumption
<1> SUFFICES ASSUME SqliteTypeOK, [SqliteNext]_sqliteVars
             PROVE  SqliteTypeOK'
  OBVIOUS
<1> USE DEF SqliteTypeOK, Row
<1>1. ASSUME NEW o \in Owner, TakeLock(o)  PROVE SqliteTypeOK'
  BY <1>1 DEF TakeLock
<1>2. ASSUME NEW o \in Owner, RenewLock(o)  PROVE SqliteTypeOK'
  BY <1>2 DEF RenewLock
<1>3. ASSUME NEW o \in Owner, ReleaseLock(o)  PROVE SqliteTypeOK'
  BY <1>3 DEF ReleaseLock, NoRow
<1>4. CASE Tick /\ UNCHANGED row
  BY <1>4 DEF Tick
<1>5. CASE UNCHANGED sqliteVars
  BY <1>5 DEF sqliteVars
<1> QED BY <1>1, <1>2, <1>3, <1>4, <1>5 DEF SqliteNext

(* The clock, the promises and the row keep their types. *)
THEOREM SqliteTypeCorrect == SqliteSpec => []SqliteTypeOK
<1> USE TtlAssumption, MaxTimeAssumption
<1>1. SqliteInit => SqliteTypeOK
  <2>1. SqliteInit => late \in BOOLEAN
    BY NotLateAtStart DEF SqliteInit
  <2> QED BY <2>1 DEF SqliteInit, LeaseInit, SqliteTypeOK, Row, NoRow
<1>2. SqliteTypeOK /\ [SqliteNext]_sqliteVars => SqliteTypeOK'
  BY SqliteStepTyped
<1> QED BY <1>1, <1>2, PTL DEF SqliteSpec

(* None takes the row from under a process that still holds the slot. *)
LEMMA SqliteStepBacked == SqliteTypeOK /\ RowBacksHolder /\ [SqliteNext]_sqliteVars => RowBacksHolder'
<1> USE TtlAssumption, MaxTimeAssumption
<1> SUFFICES ASSUME SqliteTypeOK, RowBacksHolder, [SqliteNext]_sqliteVars,
                    NEW p \in Owner, Holds(p)'
             PROVE  (row.owner = p /\ told[p] <= row.expires)'
  BY DEF RowBacksHolder
<1> USE DEF SqliteTypeOK, Row, RowBacksHolder, Holds
<1>1. ASSUME NEW o \in Owner, TakeLock(o)
      PROVE  (row.owner = p /\ told[p] <= row.expires)'
  <2>1. CASE p = o
    BY <1>1, <2>1 DEF TakeLock
  <2>2. CASE p # o
    (* p still holds the slot, so the row is p's and has not expired: o cannot take it. *)
    <3>1. row.owner = p /\ told[p] > now /\ told[p] <= row.expires
      BY <1>1, <2>2 DEF TakeLock
    <3>2. row # NoRow
      BY <3>1, NoOwnerAssumption DEF NoRow
    <3> QED BY <1>1, <2>2, <3>1, <3>2 DEF TakeLock, Takeable
  <2> QED BY <2>1, <2>2
<1>2. ASSUME NEW o \in Owner, RenewLock(o)
      PROVE  (row.owner = p /\ told[p] <= row.expires)'
  BY <1>2 DEF RenewLock
<1>3. ASSUME NEW o \in Owner, ReleaseLock(o)
      PROVE  (row.owner = p /\ told[p] <= row.expires)'
  BY <1>3 DEF ReleaseLock
<1>4. CASE Tick /\ UNCHANGED row
  BY <1>4 DEF Tick
<1>5. CASE UNCHANGED sqliteVars
  BY <1>5 DEF sqliteVars
<1> QED BY <1>1, <1>2, <1>3, <1>4, <1>5 DEF SqliteNext

(* The row names whoever still holds the slot and lasts as long as that    *)
(* process was told, so a conditional write by another changes nothing.    *)
THEOREM SqliteRowBacksHolder == SqliteSpec => []RowBacksHolder
<1> USE TtlAssumption, MaxTimeAssumption
<1>1. SqliteInit => RowBacksHolder
  BY DEF SqliteInit, LeaseInit, RowBacksHolder, Holds
<1>2. SqliteTypeOK /\ RowBacksHolder /\ [SqliteNext]_sqliteVars => RowBacksHolder'
  BY SqliteStepBacked
<1> QED BY <1>1, <1>2, SqliteTypeCorrect, PTL DEF SqliteSpec

(* Two processes are never both told that the slot is their own: the row   *)
(* knows no late return that would excuse it.                              *)
THEOREM SqliteOneHolder == SqliteSpec => [](~late /\ OneHolder)
<1>1. RowBacksHolder => OneHolder
  BY DEF RowBacksHolder, OneHolder
<1>2. SqliteInit => ~late
  BY NotLateAtStart DEF SqliteInit
<1>3. ~late /\ [SqliteNext]_sqliteVars => ~late'
  BY DEF SqliteNext, TakeLock, RenewLock, ReleaseLock, Tick, sqliteVars
<1> QED BY <1>1, <1>2, <1>3, SqliteRowBacksHolder, PTL DEF SqliteSpec

(* With the row backing the holder, each is a step of the lease or none. *)
LEMMA SqliteStepIsLease == SqliteTypeOK /\ RowBacksHolder /\ [SqliteNext]_sqliteVars => [LeaseNext]_leaseVars
<1> SUFFICES ASSUME SqliteTypeOK, RowBacksHolder, [SqliteNext]_sqliteVars
             PROVE  [LeaseNext]_leaseVars
  OBVIOUS
<1>1. ASSUME NEW o \in Owner, Takeable(o) \/ row.owner = o
      PROVE  \A p \in Owner \ {o} : ~Holds(p)
  <2> SUFFICES ASSUME NEW p \in Owner \ {o}, Holds(p) PROVE FALSE
    OBVIOUS
  <2>1. row.owner = p /\ told[p] <= row.expires /\ told[p] > now
    BY DEF RowBacksHolder, Holds
  <2>2. row # NoRow
    BY <2>1, NoOwnerAssumption DEF NoRow
  <2> QED BY <1>1, <2>1, <2>2 DEF Takeable, SqliteTypeOK, Row
<1>2. ASSUME NEW o \in Owner, TakeLock(o)  PROVE Grant(o)
  BY <1>1, <1>2 DEF TakeLock, Grant
<1>3. ASSUME NEW o \in Owner, RenewLock(o)  PROVE Grant(o)
  BY <1>1, <1>3 DEF RenewLock, Grant
<1>4. ASSUME NEW o \in Owner, ReleaseLock(o)  PROVE GiveUp(o)
  BY <1>4 DEF ReleaseLock, GiveUp
<1>5. CASE UNCHANGED sqliteVars
  BY <1>5 DEF sqliteVars, leaseVars
<1> QED BY <1>2, <1>3, <1>4, <1>5 DEF SqliteNext, LeaseNext

(* The conditional write implements the abstract lease: each operation is  *)
(* a grant, a give-up or no step of the lease at all.                      *)
THEOREM SqliteImplementsLease == SqliteSpec => LeaseSpec
<1>1. SqliteInit => LeaseInit
  BY DEF SqliteInit
<1>2. SqliteTypeOK /\ RowBacksHolder /\ [SqliteNext]_sqliteVars => [LeaseNext]_leaseVars
  BY SqliteStepIsLease
<1> QED BY <1>1, <1>2, SqliteTypeCorrect, SqliteRowBacksHolder, PTL DEF SqliteSpec, LeaseSpec

-----------------------------------------------------------------------------
(* The file lock: types. *)
(* A lease granted now is a lock file. *)
LEMMA LeaseOfTyped == ASSUME FileTypeOK, NEW o \in Owner
                      PROVE  LeaseOf(o) \in LockFile /\ now + Ttl \in Nat
BY TtlAssumption DEF FileTypeOK, LeaseOf, LockFile

(* The exclusive create keeps the types, wherever it is called from. *)
LEMMA CreateTyped ==
  ASSUME FileTypeOK, NEW o \in Owner, NEW here, NEW otherwise \in {"readHeld", "idle"},
         CreateExclusive(o, here, otherwise)
  PROVE  FileTypeOK'
<1>1. CASE file = NoFile
  BY <1>1, LeaseOfTyped DEF CreateExclusive, At, Granted, FileTypeOK
<1>2. CASE file # NoFile
  BY <1>2 DEF CreateExclusive, At, FileTypeOK
<1> QED BY <1>1, <1>2

(* No call on the file system disturbs the types. *)
LEMMA FileStepTyped == FileTypeOK /\ [FileNext]_fileVars => FileTypeOK'
<1> SUFFICES ASSUME FileTypeOK, [FileNext]_fileVars
             PROVE  FileTypeOK'
  OBVIOUS
<1>1. CASE FileTick
  BY <1>1 DEF FileTick, Tick, FileTypeOK
<1>2. ASSUME NEW o \in Owner, TakeStarts(o) \/ CreateAgain(o)  PROVE FileTypeOK'
  BY <1>2, CreateTyped DEF TakeStarts, CreateAgain
<1>3. ASSUME NEW o \in Owner, ReadHeld(o) \/ ReadOwn(o)  PROVE FileTypeOK'
  <2>1. CASE ReadHeld(o)
    BY <2>1 DEF ReadHeld, At, FileTypeOK
  <2>2. CASE ReadOwn(o)
    BY <2>2 DEF ReadOwn, At, FileTypeOK
  <2> QED BY <1>3, <2>1, <2>2
<1>4. ASSUME NEW o \in Owner, JudgeOurs(o) \/ JudgeLive(o) \/ FoundLive(o) \/ RenewStarts(o)
      PROVE  FileTypeOK'
  BY <1>4 DEF JudgeOurs, JudgeLive, FoundLive, RenewStarts, At, FileTypeOK
<1>5. ASSUME NEW o \in Owner, MoveAside(o)  PROVE FileTypeOK'
  <2>1. CASE file = NoFile
    BY <1>5, <2>1 DEF MoveAside, At, FileTypeOK
  <2>2. CASE file # NoFile
    (* What goes aside is what lay under the slot's name. *)
    <3>1. file' = NoFile /\ aside' = [aside EXCEPT ![o] = file]
      BY <1>5, <2>2 DEF MoveAside
    <3> QED BY <1>5, <2>2, <3>1 DEF MoveAside, At, FileTypeOK, LockFile
  <2> QED BY <2>1, <2>2
<1>6. ASSUME NEW o \in Owner, DropExpired(o) \/ DropAside(o)  PROVE FileTypeOK'
  BY <1>6 DEF DropExpired, DropAside, At, FileTypeOK, LockFile
<1>7. ASSUME NEW o \in Owner, LinkBack(o)  PROVE FileTypeOK'
  BY <1>7 DEF LinkBack, At, FileTypeOK
<1>8. ASSUME NEW o \in Owner, Rewrite(o)  PROVE FileTypeOK'
  BY <1>8, LeaseOfTyped DEF Rewrite, At, Granted, FileTypeOK
<1>9. ASSUME NEW o \in Owner, ReleaseStarts(o) \/ Remove(o)  PROVE FileTypeOK'
  <2>1. CASE ReleaseStarts(o)
    BY <2>1 DEF ReleaseStarts, At, FileTypeOK
  <2>2. CASE Remove(o)
    BY <2>2 DEF Remove, At, FileTypeOK, LockFile
  <2> QED BY <1>9, <2>1, <2>2
<1>10. ASSUME NEW o \in Owner, Die(o)  PROVE FileTypeOK'
  BY <1>10 DEF Die, FileTypeOK
<1>11. CASE UNCHANGED fileVars
  BY <1>11 DEF fileVars, FileTypeOK
<1> QED
  BY <1>1, <1>2, <1>3, <1>4, <1>5, <1>6, <1>7, <1>8, <1>9, <1>10, <1>11 DEF FileNext, Step

(* The clock, the promises, every process's copy of the lock, the files    *)
(* moved aside and the next call of each process keep their types.         *)
THEOREM FileTypesCorrect == FileSpec => []FileTypeOK
<1>1. FileInit => FileTypeOK
  <2>1. FileInit => late \in BOOLEAN
    BY NotLateAtStart DEF FileInit
  <2> QED BY <2>1, TtlAssumption DEF FileInit, LeaseInit, FileTypeOK, LockFile, Left
<1>2. FileTypeOK /\ [FileNext]_fileVars => FileTypeOK'
  BY FileStepTyped
<1> QED BY <1>1, <1>2, PTL DEF FileSpec

-----------------------------------------------------------------------------
(* The file lock: why two processes never both hold the slot.  A process   *)
(* that holds it finds its lock under the slot's name, or the other has    *)
(* moved it aside and is about to put it back.  The other moves it only    *)
(* after having seen an older one, and never drops one that is live; and   *)
(* as long as it has it in hand there is nobody to take the free name.     *)

(* o is on its way to take the slot, and does not hold it. *)
Taking(o) == pc[o] \in {"readHeld", "judge", "moved", "linkBack", "dropAside", "create"}

(* o holds the slot, or has read its own lock and is about to write it. *)
Owning(o) == Holds(o) \/ pc[o] \in {"rewrite", "remove"}

(* Until when the lock of o must last. *)
Due(o) == IF Holds(o) THEN told[o] ELSE held[o].expires

(* p has a file aside that it is looking at or putting back. *)
Moving(p) == pc[p] \in {"moved", "linkBack"}

(* Nobody who is taking, gave up or died counts on the slot. *)
ToldInv(o) ==
  /\ told[o] = 0 \/ Holds(o)
  /\ Taking(o) \/ pc[o] \in {"gaveUp", "gone", "remove"} => told[o] = 0

(* The lock of a holder lies where it can be found, and lasts long enough. *)
KeptInv(o, p) == Owning(o) =>
  /\ Due(o) > now
  /\ pc[o] \in {"rewrite", "remove"} => held[o].owner = o
  /\ \/ file.owner = o /\ file.expires >= Due(o)
     \/ file = NoFile /\ aside[p].owner = o /\ aside[p].expires >= Due(o) /\ (Moving(p) \/ pc[p] = "gone")

(* Only one of the two has moved a file, and it was not its own. *)
MovedInv(o, p) == Moving(p) =>
  /\ aside[p].owner # p
  /\ ~Moving(o)
  /\ pc[o] # "gone" /\ ~Owning(o) => file = NoFile

(* A lock of o that o no longer holds: the other judges it as it is. *)
SeenInv(o, p) == pc[o] # "gone" /\ ~Owning(o) /\ file.owner = o /\ pc[p] = "judge" => held[p] = file

(* A lock that o comes back to is the one it reads, and live when o keeps  *)
(* it; one that the other has moved had run out and will be dropped.       *)
RetakeInv(o, p) ==
  /\ pc[o] \notin {"gaveUp", "gone"} /\ ~Owning(o) =>
       /\ file.owner = o => pc[o] \in {"readHeld", "judge", "readOwn"}
       /\ Moving(p) /\ aside[p].owner = o => pc[p] = "moved" /\ aside[p].expires <= now
  /\ pc[o] = "judge" /\ file.owner = o => held[o] = file
  /\ pc[o] = "judge" /\ held[o].owner = o /\ held[o].expires > now => held[o] = file
  /\ pc[o] = "readOwn" /\ ~Holds(o) => file.owner = o /\ held[o] = file /\ file.expires > now

PairInv(o, p) == ToldInv(o) /\ KeptInv(o, p) /\ MovedInv(o, p) /\ SeenInv(o, p) /\ RetakeInv(o, p)

(* The exclusive create gives the slot only when its name is free, and    *)
(* then the other process holds nothing and has no lock of ours in hand.   *)
LEMMA CreateKeepsPair ==
  ASSUME NEW o, NEW p, Owner = {o, p}, o # p, FileTypeOK, PairInv(o, p), PairInv(p, o),
         NEW here \in {"idle", "gaveUp", "create"}, NEW otherwise \in {"readHeld", "idle"},
         CreateExclusive(o, here, otherwise), ~Holds(o), otherwise = "idle" <=> here = "create"
  PROVE  PairInv(o, p)' /\ PairInv(p, o)'
<1> USE TtlAssumption, NoOwnerAssumption
    DEF FileTypeOK, At, Granted, LeaseOf, LockFile, NoFile, Taking, Owning, Due, Moving, Holds,
        PairInv, ToldInv, KeptInv, MovedInv, SeenInv, RetakeInv, CreateExclusive
<1>1. CASE file = NoFile
  BY <1>1
<1>2. CASE file # NoFile
  BY <1>2
<1> QED BY <1>1, <1>2

(* No call of one process breaks what is said of the two, but that of one  *)
(* that renews, for a new take, a lock of its own that had run out.        *)
LEMMA StepKeepsPair ==
  ASSUME NEW o, NEW p, Owner = {o, p}, o # p, FileTypeOK, PairInv(o, p), PairInv(p, o), Step(o), ~late'
  PROVE  PairInv(o, p)' /\ PairInv(p, o)'
<1> USE TtlAssumption, NoOwnerAssumption
    DEF FileTypeOK, At, Granted, LeaseOf, LockFile, NoFile, Taking, Owning, Due, Moving, Holds,
        PairInv, ToldInv, KeptInv, MovedInv, SeenInv, RetakeInv
<1>1. CASE ReadHeld(o)
  BY <1>1 DEF ReadHeld
<1>2. CASE JudgeOurs(o)
  <2>1. held[o].expires > now
    <3>1. held[o].expires <= now \/ held[o].expires > now
      BY DEF Owning
    <3>2. late' = (late \/ held[o].expires <= now)
      BY <1>2 DEF JudgeOurs
    <3> QED BY <3>1, <3>2, Zenon
  <2>2. held[o].owner = o /\ pc[o] = "judge" /\ pc' = [pc EXCEPT ![o] = "readOwn"]
    BY <1>2 DEF JudgeOurs
  <2>3. UNCHANGED <<now, told, file, aside, held>>
    BY <1>2 DEF JudgeOurs
  <2> QED BY <2>1, <2>2, <2>3
<1>3. CASE JudgeLive(o)
  BY <1>3 DEF JudgeLive
<1>4. CASE MoveAside(o)
  BY <1>4 DEF MoveAside
<1>5. CASE FoundLive(o)
  BY <1>5 DEF FoundLive
<1>6. CASE DropExpired(o)
  BY <1>6 DEF DropExpired
<1>7. CASE LinkBack(o)
  BY <1>7 DEF LinkBack
<1>8. CASE DropAside(o)
  BY <1>8 DEF DropAside
<1>9. CASE RenewStarts(o)
  BY <1>9 DEF RenewStarts
<1>10. CASE ReadOwn(o)
  BY <1>10 DEF ReadOwn
<1>11. CASE Rewrite(o)
  BY <1>11 DEF Rewrite
<1>12. CASE ReleaseStarts(o)
  BY <1>12 DEF ReleaseStarts
<1>13. CASE Remove(o)
  BY <1>13 DEF Remove
<1>14. CASE Die(o)
  BY <1>14 DEF Die
<1>15. CASE TakeStarts(o)
  BY <1>15, CreateKeepsPair DEF TakeStarts
<1>16. CASE CreateAgain(o)
  <2>1. pc[o] = "create" /\ ~Holds(o)
    BY <1>16 DEF CreateAgain, CreateExclusive
  <2> QED BY <1>16, <2>1, CreateKeepsPair DEF CreateAgain
<1> QED BY <1>1, <1>2, <1>3, <1>4, <1>5, <1>6, <1>7, <1>8, <1>9, <1>10, <1>11, <1>12, <1>13, <1>14, <1>15, <1>16 DEF Step

(* Time passes no lease of a process that holds the slot or is at its lock. *)
LEMMA TickKeepsPair ==
  ASSUME NEW o, NEW p, Owner = {o, p}, o # p, FileTypeOK, PairInv(o, p), PairInv(p, o), FileTick
  PROVE  PairInv(o, p)'
<1> USE TtlAssumption, NoOwnerAssumption
    DEF FileTypeOK, LockFile, NoFile, Taking, Owning, Due, Moving, Holds,
        PairInv, ToldInv, KeptInv, MovedInv, SeenInv, RetakeInv
<1> QED BY DEF FileTick, Tick, Prompt

(* Every call of either process that does not come back late keeps what is *)
(* said of both.                                                           *)
LEMMA FileStepKeepsPair ==
  ASSUME NEW a, NEW b, Owner = {a, b}, a # b, FileTypeOK, PairInv(a, b), PairInv(b, a),
         [FileNext]_fileVars, ~late'
  PROVE  PairInv(a, b)' /\ PairInv(b, a)'
<1>1. CASE FileTick
  <2>1. Owner = {b, a}
    OBVIOUS
  <2> QED BY <1>1, <2>1, TickKeepsPair
<1>2. CASE Step(a)
  BY <1>2, StepKeepsPair
<1>3. CASE Step(b)
  <2>1. Owner = {b, a}
    OBVIOUS
  <2> QED BY <1>3, <2>1, StepKeepsPair
<1>4. CASE UNCHANGED fileVars
  <2> USE <1>4 DEF fileVars, PairInv
  <2>1. ASSUME NEW o, NEW p
        PROVE  /\ ToldInv(o) => ToldInv(o)'
               /\ KeptInv(o, p) => KeptInv(o, p)'
    BY DEF ToldInv, KeptInv, Holds, Taking, Owning, Due, Moving
  <2>2. ASSUME NEW o, NEW p
        PROVE  /\ MovedInv(o, p) => MovedInv(o, p)'
               /\ SeenInv(o, p) => SeenInv(o, p)'
               /\ RetakeInv(o, p) => RetakeInv(o, p)'
    BY DEF MovedInv, SeenInv, RetakeInv, Holds, Taking, Owning, Moving
  <2> QED BY <2>1, <2>2
<1> QED BY <1>1, <1>2, <1>3, <1>4 DEF FileNext

(* At the start the one lock there may be is a dead process's. *)
LEMMA PairAtStart ==
  ASSUME NEW a, NEW b, Owner = {a, b}, a # b, FileInit
  PROVE  PairInv(a, b)
BY NoOwnerAssumption, DeadAssumption, TtlAssumption
   DEF FileInit, LeaseInit, NoFile, Left, PairInv, ToldInv, KeptInv, MovedInv, SeenInv, RetakeInv,
       Taking, Owning, Due, Moving, Holds

(* What is said of the two leaves room for one holder. *)
LEMMA PairAlone ==
  ASSUME NEW a, NEW b, Owner = {a, b}, a # b, FileTypeOK, PairInv(a, b), PairInv(b, a)
  PROVE  OneHolder /\ LockNeverLost
<1> USE NoOwnerAssumption DEF NoFile, PairInv, ToldInv, KeptInv, Owning, Taking, Moving
<1>1. ASSUME Holds(a), Holds(b)  PROVE FALSE
  <2>1. told[a] # 0 /\ told[b] # 0
    BY <1>1 DEF Holds, FileTypeOK
  <2> QED BY <1>1, <2>1
<1>2. LockNeverLost
  BY DEF LockNeverLost
<1>3. OneHolder
  BY <1>1 DEF OneHolder
<1> QED BY <1>2, <1>3

(* With one holder at most, or after a late return, a call that tells a    *)
(* process it holds the slot is a grant, one that gives it up or kills the *)
(* process a give-up, one that comes back late says so, and every other    *)
(* call is no step of the lease at all.                                    *)
LEMMA FileOwnerStepIsLease ==
  ASSUME NEW o, NEW p, Owner = {o, p}, o # p, FileTypeOK,
         late \/ (PairInv(o, p) /\ PairInv(p, o)), Step(o)
  PROVE  [LeaseNext]_leaseVars
<1> USE DEF leaseVars, At
<1>1. ASSUME pc[o] \in {"idle", "gaveUp", "create"}, file = NoFile  PROVE late \/ ~Holds(p)
  BY <1>1, NoOwnerAssumption DEF PairInv, KeptInv, Owning, Moving, NoFile
<1>2. ASSUME pc[o] = "rewrite"  PROVE late \/ ~Holds(p)
  BY <1>2, NoOwnerAssumption DEF PairInv, KeptInv, Owning, Moving, NoFile
<1>3. ASSUME NEW here \in {"idle", "gaveUp", "create"}, NEW otherwise, CreateExclusive(o, here, otherwise)
      PROVE  Grant(o) \/ UNCHANGED leaseVars
  BY <1>1, <1>3 DEF CreateExclusive, Granted, Grant
<1>4. CASE TakeStarts(o) \/ CreateAgain(o)
  BY <1>3, <1>4 DEF TakeStarts, CreateAgain, LeaseNext
<1>5. CASE Rewrite(o)
  <2>1. Grant(o)
    BY <1>2, <1>5 DEF Rewrite, Granted, Grant
  <2> QED BY <2>1 DEF LeaseNext
<1>6. CASE ReleaseStarts(o) \/ Die(o)
  <2>1. GiveUp(o)
    BY <1>6 DEF ReleaseStarts, Die, GiveUp
  <2> QED BY <2>1 DEF LeaseNext
<1>7. CASE ReadHeld(o) \/ JudgeLive(o) \/ MoveAside(o) \/ FoundLive(o) \/ DropExpired(o)
  BY <1>7 DEF ReadHeld, JudgeLive, MoveAside, FoundLive, DropExpired
<1>8. CASE LinkBack(o) \/ DropAside(o) \/ RenewStarts(o) \/ ReadOwn(o) \/ Remove(o)
  BY <1>8 DEF LinkBack, DropAside, RenewStarts, ReadOwn, Remove
<1>9. CASE JudgeOurs(o)
  <2>1. ComesBackLate \/ UNCHANGED leaseVars
    BY <1>9 DEF JudgeOurs, ComesBackLate, FileTypeOK
  <2> QED BY <2>1 DEF LeaseNext
<1> QED BY <1>4, <1>5, <1>6, <1>7, <1>8, <1>9 DEF Step

(* Whatever happens at the files is a step of the lease or none.           *)
LEMMA FileStepIsLease ==
  ASSUME NEW a, NEW b, Owner = {a, b}, a # b, FileTypeOK,
         late \/ (PairInv(a, b) /\ PairInv(b, a)), [FileNext]_fileVars
  PROVE  [LeaseNext]_leaseVars
<1>1. CASE FileTick
  BY <1>1 DEF FileTick, LeaseNext
<1>2. CASE Step(a)
  BY <1>2, FileOwnerStepIsLease
<1>3. CASE Step(b)
  <2>1. Owner = {b, a}
    OBVIOUS
  <2> QED BY <1>3, <2>1, FileOwnerStepIsLease
<1>4. CASE UNCHANGED fileVars
  BY <1>4 DEF fileVars, leaseVars
<1> QED BY <1>1, <1>2, <1>3, <1>4 DEF FileNext

(* Once a process has come back late, that is so for good. *)
LEMMA LateStays == FileTypeOK /\ [FileNext]_fileVars /\ ~late' => ~late
<1> SUFFICES ASSUME FileTypeOK, [FileNext]_fileVars, late
             PROVE  late'
  BY DEF FileTypeOK
<1>1. ASSUME NEW o \in Owner, TakeStarts(o) \/ CreateAgain(o) \/ ReadHeld(o) \/ JudgeOurs(o) \/ JudgeLive(o) \/ MoveAside(o)
      PROVE  late'
  BY <1>1 DEF TakeStarts, CreateAgain, CreateExclusive, ReadHeld, JudgeOurs, JudgeLive, MoveAside
<1>2. ASSUME NEW o \in Owner, FoundLive(o) \/ DropExpired(o) \/ LinkBack(o) \/ DropAside(o) \/ Die(o)
      PROVE  late'
  BY <1>2 DEF FoundLive, DropExpired, LinkBack, DropAside, Die
<1>3. ASSUME NEW o \in Owner, RenewStarts(o) \/ ReadOwn(o) \/ Rewrite(o) \/ ReleaseStarts(o) \/ Remove(o)
      PROVE  late'
  BY <1>3 DEF RenewStarts, ReadOwn, Rewrite, ReleaseStarts, Remove
<1>4. CASE FileTick
  BY <1>4 DEF FileTick, Tick
<1> QED BY <1>1, <1>2, <1>3, <1>4 DEF FileNext, Step, fileVars

-----------------------------------------------------------------------------
(* Both backends: a site asks the one it opened, and the other never moves. *)
LEMMA LocksStepIsOneOf ==
  ASSUME [LocksNext]_lockVars
  PROVE  /\ backend' = backend
         /\ backend = "sqlite" => [SqliteNext]_sqliteVars /\ UNCHANGED <<file, aside, held, pc>>
         /\ backend = "file" => [FileNext]_fileVars /\ UNCHANGED row
         /\ [SqliteNext]_sqliteVars \/ [FileNext]_fileVars
BY DEF LocksNext, lockVars, sqliteVars, fileVars

LocksTypeOK == SqliteTypeOK /\ FileTypeOK /\ backend \in {"sqlite", "file"}

(* The variables of both backends keep their types, whichever is asked. *)
LEMMA LocksTyped == LocksSpec => []LocksTypeOK
<1>1. LocksInit => LocksTypeOK
  <2>1. LocksInit => late \in BOOLEAN
    BY NotLateAtStart DEF LocksInit, FileInit
  <2> QED BY <2>1, TtlAssumption DEF LocksInit, selectJobStateBackend, SqliteInit, FileInit, LeaseInit, LocksTypeOK,
                       SqliteTypeOK, FileTypeOK, Row, NoRow, LockFile, NoFile, Left
<1>2. LocksTypeOK /\ [LocksNext]_lockVars => LocksTypeOK'
  <2> SUFFICES ASSUME LocksTypeOK, [LocksNext]_lockVars
               PROVE  LocksTypeOK'
    OBVIOUS
  <2>1. CASE backend = "sqlite"
    <3>1. SqliteTypeOK' /\ UNCHANGED <<file, aside, held, pc, backend>>
      BY <2>1, LocksStepIsOneOf, SqliteStepTyped DEF LocksTypeOK
    <3>2. FileTypeOK'
      BY <3>1 DEF LocksTypeOK, SqliteTypeOK, FileTypeOK
    <3> QED BY <3>1, <3>2 DEF LocksTypeOK
  <2>2. CASE backend = "file"
    <3>1. FileTypeOK' /\ UNCHANGED <<row, backend>>
      BY <2>2, LocksStepIsOneOf, FileStepTyped DEF LocksTypeOK
    <3>2. SqliteTypeOK'
      BY <3>1 DEF LocksTypeOK, SqliteTypeOK, FileTypeOK
    <3> QED BY <3>1, <3>2 DEF LocksTypeOK
  <2> QED BY <2>1, <2>2 DEF LocksTypeOK
<1> QED BY <1>1, <1>2, PTL DEF LocksSpec

(* The backend opened has what it needs to keep the promise. *)
BackedInv(a, b) == /\ backend = "sqlite" => RowBacksHolder
                   /\ backend = "file" => late \/ (PairInv(a, b) /\ PairInv(b, a))

(* Whichever backend was opened stays good for the promise.                *)
LEMMA LocksBacked ==
  ASSUME NEW a, NEW b, a # b, Owner = {a, b}
  PROVE  LocksSpec => []BackedInv(a, b)
<1>1. LocksInit => BackedInv(a, b)
  <2> SUFFICES ASSUME LocksInit PROVE BackedInv(a, b)
    OBVIOUS
  <2>1. RowBacksHolder
    BY DEF LocksInit, SqliteInit, LeaseInit, RowBacksHolder, Holds
  <2>2. FileInit
    BY DEF LocksInit
  <2>3. PairInv(a, b)
    BY <2>2, PairAtStart
  <2>4. PairInv(b, a)
    <3>1. Owner = {b, a}
      OBVIOUS
    <3> QED BY <2>2, <3>1, PairAtStart
  <2> QED BY <2>1, <2>3, <2>4 DEF BackedInv
<1>2. LocksTypeOK /\ BackedInv(a, b) /\ [LocksNext]_lockVars => BackedInv(a, b)'
  <2> SUFFICES ASSUME LocksTypeOK, BackedInv(a, b), [LocksNext]_lockVars
               PROVE  BackedInv(a, b)'
    OBVIOUS
  <2>1. backend' = backend
    BY LocksStepIsOneOf
  <2>2. CASE backend = "sqlite"
    <3>1. RowBacksHolder'
      BY <2>2, LocksStepIsOneOf, SqliteStepBacked DEF BackedInv, LocksTypeOK
    <3> QED BY <2>1, <2>2, <3>1 DEF BackedInv
  <2>3. CASE backend = "file"
    <3>1. ASSUME ~late'
          PROVE  PairInv(a, b)' /\ PairInv(b, a)'
      BY <2>3, <3>1, LocksStepIsOneOf, LateStays, FileStepKeepsPair DEF BackedInv, LocksTypeOK
    <3> QED BY <2>1, <2>3, <3>1 DEF BackedInv
  <2> QED BY <2>1, <2>2, <2>3 DEF LocksTypeOK
<1> QED BY <1>1, <1>2, LocksTyped, PTL DEF LocksSpec

(* Whoever still holds the slot is backed by the store that was opened:    *)
(* the row names it and lasts as long as it was told; the lock file, or    *)
(* the file a stealer moved aside and is about to put back, is its own,    *)
(* until a process comes back to a lock of its own that had run out.       *)
THEOREM TwoProcessesLocksKept ==
  ASSUME NEW a, NEW b, a # b, Owner = {a, b}
  PROVE  LocksSpec => []LocksKept
<1>1. LocksTypeOK /\ BackedInv(a, b) => LocksKept
  BY PairAlone DEF LocksTypeOK, BackedInv, LocksKept
<1> QED BY <1>1, LocksTyped, LocksBacked, PTL

(* Two processes of a site are never both told that the slot is their own, *)
(* whichever backend it opened and wherever their calls interleave, until  *)
(* one comes back to a lock file of its own that had run out.              *)
THEOREM TwoProcessesOneHolder ==
  ASSUME NEW a, NEW b, a # b, Owner = {a, b}
  PROVE  LocksSpec => []OneHolder
<1>1. LocksTypeOK /\ BackedInv(a, b) => OneHolder
  <2>1. RowBacksHolder => OneHolder
    BY DEF RowBacksHolder, OneHolder
  <2>2. late => OneHolder
    BY Zenon DEF OneHolder
  <2> QED BY <2>1, <2>2, PairAlone DEF LocksTypeOK, BackedInv
<1> QED BY <1>1, LocksTyped, LocksBacked, PTL

(* A site's lock implements the abstract lease: whatever is called on the  *)
(* database or on the file system is a grant, a give-up, a late return to  *)
(* a lock of its own or no step of the lease.                              *)
THEOREM TwoProcessesImplementLease ==
  ASSUME NEW a, NEW b, a # b, Owner = {a, b}
  PROVE  LocksSpec => LeaseSpec
<1>1. LocksInit => LeaseInit
  BY DEF LocksInit, SqliteInit
<1>2. LocksTypeOK /\ BackedInv(a, b) /\ [LocksNext]_lockVars => [LeaseNext]_leaseVars
  <2> SUFFICES ASSUME LocksTypeOK, BackedInv(a, b), [LocksNext]_lockVars
               PROVE  [LeaseNext]_leaseVars
    OBVIOUS
  <2>1. CASE backend = "sqlite"
    BY <2>1, LocksStepIsOneOf, SqliteStepIsLease DEF BackedInv, LocksTypeOK
  <2>2. CASE backend = "file"
    BY <2>2, LocksStepIsOneOf, FileStepIsLease DEF BackedInv, LocksTypeOK
  <2> QED BY <2>1, <2>2 DEF LocksTypeOK
<1> QED BY <1>1, <1>2, LocksTyped, LocksBacked, PTL DEF LocksSpec, LeaseSpec
=============================================================================
