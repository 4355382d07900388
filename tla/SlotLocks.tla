------------------------------ MODULE SlotLocks ------------------------------
(***************************************************************************)
(* The slot lock of a site: the backend that                               *)
(* src/src/managers/BackgroundJobManager.ts (initialize) opened, from the  *)
(* setting and from whether the application database is open, is the one   *)
(* every process of the site asks.  Whichever it is, it keeps the promise  *)
(* of SlotLease.                                                           *)
(***************************************************************************)
EXTENDS FileSlotLock, SqliteSlotLock

VARIABLE backend   \* the job state provider that was opened

lockVars == <<now, told, late, file, aside, held, pc, backend, row>>

(* auto is the database when it is open; "sqlite" without one is refused. *)
selectJobStateBackend(configured, databaseEnabled) ==
  IF configured = "auto" THEN (IF databaseEnabled THEN "sqlite" ELSE "file") ELSE configured

LocksInit == /\ \E configured \in {"auto", "file", "sqlite"}, databaseEnabled \in BOOLEAN :
                  /\ configured = "sqlite" => databaseEnabled
                  /\ backend = selectJobStateBackend(configured, databaseEnabled)
             /\ SqliteInit
             /\ FileInit
             /\ backend = "sqlite" => file = NoFile

LocksNext == \/ /\ backend = "sqlite"
                /\ SqliteNext
                /\ UNCHANGED <<file, aside, held, pc, backend>>
             \/ /\ backend = "file"
                /\ FileNext
                /\ UNCHANGED <<row, backend>>

LocksSpec == LocksInit /\ [][LocksNext]_lockVars

-----------------------------------------------------------------------------
(* Whoever still holds the slot is backed by the store: the row names it   *)
(* and lasts as long as it was told; the lock file, or the file a stealer  *)
(* moved aside and has not put back, is its own, until a process comes     *)
(* back to a lock of its own that had run out.                             *)
LocksKept == /\ backend = "sqlite" => RowBacksHolder
             /\ backend = "file" => late \/ LockNeverLost

(* OneHolder and LeaseSpec of SlotLease are checked for both backends.     *)
=============================================================================
