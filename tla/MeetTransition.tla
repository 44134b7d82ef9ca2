---------------------------- MODULE MeetTransition ----------------------------
(***************************************************************************)
(* The vocabulary of the Meet synchronisation and its one transition table *)
(* (service/meetschedule/refresh_task.py, sections 1 and 4).               *)
(*                                                                         *)
(* A remote call only reports a Result; what the local tables do about it  *)
(* is decided here, by Transition.  WriteOf turns the table's verdict into *)
(* the columns that _apply_outcomes changes on one entry: a column that    *)
(* keeps its value is not written at all when the session is flushed,      *)
(* which matters when another transaction has changed it in the meantime.  *)
(***************************************************************************)
EXTENDS Naturals

CONSTANTS
    Events,     \* the ids Meet may give to an event
    NoEvent     \* meet_event_id IS NULL

ASSUME NoEventAssumption == NoEvent \notin Events

Statuses == {"PENDING", "PENDING_UPDATE", "PENDING_DELETE", "SUCCESS"}

Results == {"OK", "MISSING", "PERMANENT", "TRANSIENT"}

Phases == {"PUSH", "UPDATE", "DELETE", "PULL"}

\* The order in which `for phase in Phase` visits the phases.
Rank(phase) ==
    CASE phase = "PUSH"   -> 1
      [] phase = "UPDATE" -> 2
      [] phase = "DELETE" -> 3
      [] phase = "PULL"   -> 4
      [] OTHER            -> 0

SourceStatus(phase) ==
    CASE phase = "PUSH"   -> "PENDING"
      [] phase = "UPDATE" -> "PENDING_UPDATE"
      [] phase = "DELETE" -> "PENDING_DELETE"
      [] phase = "PULL"   -> "SUCCESS"

(***************************************************************************)
(* LocalOp: delete the tracking entry; move it to a status ("keep" is the  *)
(* code's None); store the event id of the outcome; write the outcome's    *)
(* completion mark back to the homework.                                   *)
(***************************************************************************)
LocalOps == [delete: BOOLEAN, status: Statuses \cup {"keep"},
             storeEvent: BOOLEAN, patchDone: BOOLEAN]

KeepAndRetry ==
    [delete |-> FALSE, status |-> "keep", storeEvent |-> FALSE, patchDone |-> FALSE]

DropTracking == [KeepAndRetry EXCEPT !.delete = TRUE]

MoveTo(status) == [KeepAndRetry EXCEPT !.status = status]

\* Mutant: the id of the created event is not stored.
PushForgetsEvent(result) ==
    IF result = "OK" THEN MoveTo("SUCCESS")
    ELSE IF result = "TRANSIENT" THEN KeepAndRetry ELSE DropTracking

\* From PENDING: create the event.
PushTransition(result) ==
    CASE result = "OK"        -> [MoveTo("SUCCESS") EXCEPT !.storeEvent = TRUE]
      [] result = "TRANSIENT" -> KeepAndRetry
      [] OTHER                -> DropTracking

\* Mutant: an event that is gone is retried as it is.
UpdateRetriesMissing(result) ==
    IF result = "OK" THEN MoveTo("SUCCESS")
    ELSE IF result = "PERMANENT" THEN DropTracking ELSE KeepAndRetry

\* Mutant: an event that is gone ends the tracking.
UpdateDropsMissing(result) ==
    IF result = "OK" THEN MoveTo("SUCCESS")
    ELSE IF result = "TRANSIENT" THEN KeepAndRetry ELSE DropTracking

\* From PENDING_UPDATE: send the completion mark.
UpdateTransition(result) ==
    CASE result = "OK"        -> MoveTo("SUCCESS")
      [] result = "TRANSIENT" -> KeepAndRetry
      [] result = "MISSING"   -> MoveTo("PENDING")
      [] OTHER                -> DropTracking

\* From PENDING_DELETE: delete the event, then the entry.
DeleteTransition(result) ==
    IF result \in {"OK", "MISSING"} THEN DropTracking ELSE KeepAndRetry

\* Mutant: the mark that came back is not written.
PullKeepsMark(result) ==
    IF result = "MISSING" THEN MoveTo("PENDING") ELSE KeepAndRetry

\* From SUCCESS: bring the completion mark back.
PullTransition(result) ==
    CASE result = "OK"      -> [MoveTo("SUCCESS") EXCEPT !.patchDone = TRUE]
      [] result = "MISSING" -> MoveTo("PENDING")
      [] OTHER              -> KeepAndRetry

Transition(phase, result) ==
    CASE phase = "PUSH"   -> PushTransition(result)
      [] phase = "UPDATE" -> UpdateTransition(result)
      [] phase = "DELETE" -> DeleteTransition(result)
      [] phase = "PULL"   -> PullTransition(result)

(***************************************************************************)
(* The pending changes of the job's session to one entry.                  *)
(***************************************************************************)
Writes == [delete: BOOLEAN, status: Statuses \cup {"keep"}, event: Events \cup {NoEvent}]

NoWrite == [delete |-> FALSE, status |-> "keep", event |-> NoEvent]

\* session.delete(entry)
DeleteRow == [NoWrite EXCEPT !.delete = TRUE]

\* entry.status = status, outside the table
SetStatus(status) == [NoWrite EXCEPT !.status = status]

\* What _apply_outcomes does to an entry of this phase (whose status in memory
\* is still the phase's source status): a deletion wins over a status, and a
\* status equal to the current one is not an attribute change.
WriteOf(phase, result, ev) ==
    LET op == Transition(phase, result)
    IN  [delete |-> op.delete,
         status |-> IF op.delete \/ op.status = SourceStatus(phase)
                    THEN "keep" ELSE op.status,
         event  |-> IF op.storeEvent THEN ev ELSE NoEvent]

\* The flush of a pending change is an UPDATE statement (a DELETE otherwise).
IsUpdate(w) == ~w.delete /\ (w.status # "keep" \/ w.event # NoEvent)

===============================================================================
