----------------------------- MODULE AuditTrail -----------------------------
(***************************************************************************)
(* What the audit log promises to the code that records in it              *)
(* (recordAuditEvent of src/src/utils/auditEvents.ts over the provider of  *)
(* src/src/providers/BaseAuditProvider.ts): records are stored in the      *)
(* order they were accepted in, none is forgotten while the process lives, *)
(* and the caller of a critical one is answered once it is stored.  How it *)
(* is kept is AuditLog.                                                    *)
(***************************************************************************)
EXTENDS Naturals, Sequences

CONSTANT Event   \* the events that may be recorded, each once

VARIABLES
  serving,   \* whether there is a process to record in
  waiting,   \* accepted and not known to be stored, oldest first
  trail,     \* what was ever stored, in the order of the file
  answered   \* the critical events whose caller was told they are on record

trailVars == <<serving, waiting, trail, answered>>

In(s) == {s[i] : i \in DOMAIN s}

First(s, n) == SubSeq(s, 1, n)
After(s, n) == SubSeq(s, n + 1, Len(s))

TrailInit == /\ serving = FALSE
             /\ waiting = <<>>
             /\ trail = <<>>
             /\ answered = {}

Begin == /\ ~serving
         /\ serving' = TRUE
         /\ UNCHANGED <<waiting, trail, answered>>

Accept(e) == /\ serving
             /\ e \notin In(waiting) \cup In(trail)
             /\ waiting' = Append(waiting, e)
             /\ UNCHANGED <<serving, trail, answered>>

(* A write puts down the oldest records; when it says it failed, what it   *)
(* put down is kept waiting and put down again.                            *)
Store(n) == /\ serving
            /\ trail' = trail \o First(waiting, n)
            /\ waiting' \in {waiting, After(waiting, n)}
            /\ UNCHANGED answered

Answer(e) == /\ e \in In(trail)
             /\ answered' = answered \cup {e}
             /\ UNCHANGED <<serving, waiting, trail>>

(* The process ends: what it had not stored is lost. *)
End(n) == /\ serving
          /\ serving' = FALSE
          /\ trail' = trail \o First(waiting, n)
          /\ waiting' = <<>>
          /\ UNCHANGED answered

TrailNext == \/ Begin
             \/ \E e \in Event : Accept(e) \/ Answer(e)
             \/ \E n \in 0 .. Len(waiting) : Store(n) \/ End(n)

TrailSpec == TrailInit /\ [][TrailNext]_trailVars

-----------------------------------------------------------------------------
(* "The action must not complete unless the record does": whoever was      *)
(* answered has a record in the log.                                       *)
AnsweredIsStored == answered \subseteq In(trail)
=============================================================================
