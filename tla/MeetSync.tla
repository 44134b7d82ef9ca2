------------------------------- MODULE MeetSync -------------------------------
(***************************************************************************)
(* The synchronisation of homeworks with the Meet timetable: the periodic  *)
(* job of service/meetschedule/refresh_task.py, the requests of actions.py *)
(* (bind, unbind), the hooks of event_handlers.py, and what they meet: the *)
(* homework table as service/homework changes it, and Meet itself.         *)
(*                                                                         *)
(* Concurrency.  The service is one asyncio process; every request, hook   *)
(* and job has a database session of its own, and Meet is called over the  *)
(* network between two statements of a session.  The database is InnoDB at *)
(* its default isolation, REPEATABLE READ:                                 *)
(*   - all the reads of a session come from the snapshot its first SELECT  *)
(*     takes (variable snap), while another session may commit;            *)
(*   - changed attributes stay in the session (write, patch) until an      *)
(*     autoflush, which happens when a later phase loads its homeworks;    *)
(*     a flushed row is locked until the commit (locked);                  *)
(*   - a flush writes the changed columns of the current row; an UPDATE    *)
(*     that finds no row (StaleDataError) poisons the session, and nothing *)
(*     the job did to the database survives.  A DELETE that finds no row   *)
(*     is only warned about.                                               *)
(*                                                                         *)
(* Simplifications.                                                        *)
(*   - A phase calls Meet for its entries in any order.  PUSH creates the  *)
(*     events of up to BatchSize (100) homeworks of a user in one call: a  *)
(*     batch here is any part of the user's bundle, in any order, so that  *)
(*     the single creations of a refused batch are batches of one.  Meet   *)
(*     answers with the events it has created, in the order of the request.*)
(*     DELETE's batches go one entry at a time: their answer is a count.   *)
(*   - _apply_outcomes is folded into the step that produces the outcome:  *)
(*     its changes stay in the session until the next flush either way.    *)
(*   - api_key and schedule_id of a binding are one value, a key; a user's *)
(*     events can be reached with each working key of that user.           *)
(*   - A person who deletes the account may register again at once: what   *)
(*     was under way then goes on for the new account.                     *)
(*   - A repeated hook for the same homework and not yet run is one hook.  *)
(*   - The rate limiter only delays the job and refuses requests: no step. *)
(*                                                                         *)
(* Bounds.  Limit bounds how often each kind of spontaneous event happens  *)
(* (a click, a fault, a crash...); the job itself is not bounded, and      *)
(* Events bounds how many events Meet can ever create.                     *)
(***************************************************************************)
EXTENDS MeetTransition, FiniteSets, Sequences, Functions

CONSTANTS
    Users,
    HW,         \* homework ids; an entry has its homework's id
    Keys,       \* bindings: an API key and a timetable of Meet
    NoKey,      \* the user has no row in meetscheduleconfig
    NoHW,       \* an event that does not exist yet
    Owner,      \* homework.user_id
    Undated,    \* homeworks with no deadline: no event can be built
    Rejected,   \* homeworks Meet refuses with 422 or 409
    BatchSize,  \* how many events one call creates
    Limit       \* Limit[kind]: how many events of this kind may happen

Kinds == {"click", "meet", "fault", "crash", "bind", "unbind",
          "find", "remove", "revoke"}

ASSUME OwnerAssumption == Owner \in [HW -> Users]
ASSUME NoValuesAssumption == NoKey \notin Keys /\ NoHW \notin HW
ASSUME HomeworkKindAssumption == Undated \subseteq HW /\ Rejected \subseteq HW
ASSUME BatchSizeAssumption == BatchSize \in Nat \ {0}
ASSUME LimitAssumption == Limit \in [Kinds -> Nat]

Marks == {"todo", "done"}
KeyStates == {"ok", "revoked", "unscheduled"}

\* A row of meetscheduleentry; id and user_id are the index and its Owner.
Entries == [status: Statuses \cup {"ABSENT"}, event: Events \cup {NoEvent}]
Absent == [status |-> "ABSENT", event |-> NoEvent]
NewEntry == [status |-> "PENDING", event |-> NoEvent]

VARIABLES
    \* the database
    rows,       \* ids of the homework table
    done,       \* homework.done
    entry,      \* meetscheduleentry
    config,     \* meetscheduleconfig
    \* Meet
    evHw,       \* the homework an event was created for
    live,       \* the events that exist
    evDone,     \* the completion mark of an event
    keyState,   \* whether Meet accepts a key, and its timetable exists
    \* requests and hooks under way in the process
    clicked,    \* after_done hooks not yet run, by homework
    found,      \* after_refresh hooks not yet run: sets of homework ids
    binding,    \* bind requests between their commit and the backfill
    unbinding,  \* unbind requests between Meet and the local deletion
    unbindIds,  \* the ids such a request is going to delete
    leaving,    \* deletions of an account between Meet and their commit
    \* the job
    phase, todo, snap, write, patch, locked, toUnbind,
    \* the bounds
    used

dbVars == <<rows, done, entry, config>>
meetVars == <<evHw, live, evDone, keyState>>
requestVars == <<clicked, found, binding, unbinding, unbindIds, leaving>>
jobVars == <<phase, todo, snap, write, patch, locked, toUnbind>>
vars == <<dbVars, meetVars, requestVars, jobVars, used>>

HomeworksOf(u) == {h \in HW : Owner[h] = u}

Tracked(ent) == {h \in HW : ent[h].status # "ABSENT"}

Snapshots == [rows: SUBSET HW, done: [HW -> Marks],
              entry: [HW -> Entries], config: [Users -> Keys \cup {NoKey}]]

NoSnapshot == [rows |-> {}, done |-> [h \in HW |-> "todo"],
               entry |-> [h \in HW |-> Absent], config |-> [u \in Users |-> NoKey]]

DbTypeOK ==
    /\ rows \subseteq HW
    /\ done \in [HW -> Marks]
    /\ entry \in [HW -> Entries]
    /\ config \in [Users -> Keys \cup {NoKey}]

MeetTypeOK ==
    /\ evHw \in [Events -> HW \cup {NoHW}]
    /\ live \subseteq Events
    /\ evDone \in [Events -> Marks]
    /\ keyState \in [Keys -> KeyStates]

RequestTypeOK ==
    /\ clicked \subseteq HW
    /\ found \subseteq SUBSET HW
    /\ binding \subseteq Users
    /\ unbinding \subseteq Users
    /\ unbindIds \in [Users -> SUBSET HW]
    /\ leaving \subseteq Users

JobTypeOK ==
    /\ phase \in Phases \cup {"idle"}
    /\ todo \subseteq HW
    /\ snap \in Snapshots
    /\ write \in [HW -> Writes]
    /\ patch \in [HW -> Marks \cup {"keep"}]
    /\ locked \subseteq HW
    /\ toUnbind \subseteq Users

\* Every variable holds a value of its kind: statuses of the enumeration, ids of
\* the tables, whatever the job and the requests do to them.
TypeOK ==
    /\ DbTypeOK /\ MeetTypeOK /\ RequestTypeOK /\ JobTypeOK
    /\ used \in [Kinds -> Nat]

Spend(kind) ==
    /\ used[kind] < Limit[kind]
    /\ used' = [used EXCEPT ![kind] = @ + 1]

-------------------------------------------------------------------------------
(* Meet: what a call does to the events.                                   *)

\* The ids Meet gives to new events, one per request: never used before, which
\* ones is immaterial.
FreshEvents(made) ==
    CHOOSE ids \in Injection(DOMAIN made, {ev \in Events : evHw[ev] = NoHW}) : TRUE

\* events.create_batch / create: an event for each homework of a sequence, with the
\* homework's mark.
MeetCreate(made, marks) ==
    LET ids == FreshEvents(made)
        madeFor == [ev \in Range(ids) |-> made[AntiFunction(ids)[ev]]]
    IN
    /\ ExistsInjection(DOMAIN made, {ev \in Events : evHw[ev] = NoHW})
    /\ evHw' = [ev \in Events |-> IF ev \in Range(ids) THEN madeFor[ev] ELSE evHw[ev]]
    /\ live' = live \cup Range(ids)
    /\ evDone' = [ev \in Events |->
          IF ev \in Range(ids) THEN marks[madeFor[ev]] ELSE evDone[ev]]
    /\ UNCHANGED keyState

\* events.update(EventPatch(done)) on an event that exists
MeetUpdate(ev, mark) ==
    /\ ev \in live
    /\ evDone' = [evDone EXCEPT ![ev] = mark]
    /\ UNCHANGED <<evHw, live, keyState>>

\* events.delete_batch: ids that do not exist are only reported
MeetDelete(evs) ==
    /\ live' = live \ evs
    /\ evDone' = [ev \in Events |-> IF ev \in evs THEN "todo" ELSE evDone[ev]]
    /\ UNCHANGED <<evHw, keyState>>

\* The user ticks or unticks an event in Meet's own client.
UserEditsMeet(ev) ==
    /\ ev \in live
    /\ Spend("meet")
    /\ evDone' = [evDone EXCEPT ![ev] = IF @ = "done" THEN "todo" ELSE "done"]
    /\ UNCHANGED <<evHw, live, keyState, dbVars, requestVars, jobVars>>

\* The user deletes an event in Meet's own client.
UserDeletesEvent(ev) ==
    /\ ev \in live
    /\ Spend("meet")
    /\ MeetDelete({ev})
    /\ UNCHANGED <<dbVars, requestVars, jobVars>>

\* The user revokes the key or takes a permission away (401, 403).
UserRevokesKey(k) ==
    /\ keyState[k] = "ok"
    /\ Spend("revoke")
    /\ keyState' = [keyState EXCEPT ![k] = "revoked"]
    /\ UNCHANGED <<evHw, live, evDone, dbVars, requestVars, jobVars>>

\* The user deletes the timetable, and with it the user's events (404).
UserDropsSchedule(u) ==
    /\ config[u] # NoKey /\ keyState[config[u]] = "ok"
    /\ Spend("revoke")
    /\ keyState' = [keyState EXCEPT ![config[u]] = "unscheduled"]
    /\ live' = {ev \in live : evHw[ev] \notin HomeworksOf(u)}
    /\ evDone' = [ev \in Events |-> IF ev \in live' THEN evDone[ev] ELSE "todo"]
    /\ UNCHANGED <<evHw, dbVars, requestVars, jobVars>>

-------------------------------------------------------------------------------
(* The homework table, as service/homework changes it.                     *)

\* complete_homework: the mark is committed (even when it is the old one), then
\* the after_done hook is started in the background.
Complete(h, mark) ==
    /\ h \in rows
    /\ Spend("click")
    /\ done' = [done EXCEPT ![h] = mark]
    /\ clicked' = clicked \cup {h}
    /\ UNCHANGED <<rows, entry, config, meetVars, found, binding, unbinding,
                   unbindIds, leaving, jobVars>>

\* refresh_homework: the homeworks the platform shows and the table does not
\* have are committed, then the after_refresh hook is started with their ids.
RefreshFinds(u, new) ==
    /\ new # {} /\ new \subseteq HomeworksOf(u) \ rows
    /\ Spend("find")
    /\ rows' = rows \cup new
    /\ found' = found \cup {new}
    /\ UNCHANGED <<done, entry, config, meetVars, clicked, binding, unbinding,
                   unbindIds, leaving, jobVars>>

\* delete_platform_homework, the background hook of platform.after_unbind: the
\* homeworks of the user on one platform go; nothing tells the Meet side.
RemoveHomeworks(u, old) ==
    /\ old # {} /\ old \subseteq HomeworksOf(u) \cap rows
    /\ Spend("remove")
    /\ rows' = rows \ old
    /\ done' = [h \in HW |-> IF h \in old THEN "todo" ELSE done[h]]
    /\ UNCHANGED <<entry, config, meetVars, requestVars, jobVars>>

-------------------------------------------------------------------------------
(* The hooks of event_handlers.py.                                         *)

(***************************************************************************)
(* _on_recv_new_homework: one transaction inserts an entry for each new    *)
(* id.  If one of them has an entry already the INSERT fails, the hook's   *)
(* exception is logged by the task runner, and no entry is inserted.       *)
(* A row the job has flushed makes the INSERT wait for the job's commit.   *)
(***************************************************************************)
HookNewHomeworks(u, new) ==
    /\ new \in found /\ new \subseteq HomeworksOf(u)
    /\ found' = found \ {new}
    /\ IF config[u] = NoKey \/ new \cap Tracked(entry) # {}
       THEN UNCHANGED entry
       ELSE entry' = [h \in HW |-> IF h \in new THEN NewEntry ELSE entry[h]]
    /\ config[u] = NoKey \/ new \cap locked = {}
    /\ UNCHANGED <<rows, done, config, meetVars, clicked, binding, unbinding,
                   unbindIds, leaving, jobVars, used>>

\* _on_recv_homework_done_event, when it has nothing to write: no entry, or an
\* entry that is PENDING_UPDATE in what this transaction can see.
HookDoneIdle(h) ==
    /\ h \in clicked
    /\ entry[h].status \in {"ABSENT", "PENDING_UPDATE"}
    /\ clicked' = clicked \ {h}
    /\ UNCHANGED <<dbVars, meetVars, found, binding, unbinding, unbindIds, leaving,
                   jobVars, used>>

\* The same, when the status has to change: waits for the lock of the row.
HookDoneMarks(h) ==
    /\ h \in clicked \ locked
    /\ entry[h].status \notin {"ABSENT", "PENDING_UPDATE"}
    /\ clicked' = clicked \ {h}
    /\ entry' = [entry EXCEPT ![h].status = "PENDING_UPDATE"]
    /\ UNCHANGED <<rows, done, config, meetVars, found, binding, unbinding,
                   unbindIds, leaving, jobVars, used>>

\* Lock wait timeout: the job holds the row for longer than the database lets a
\* transaction wait; the hook's exception is logged and the mark is lost.
HookDoneTimesOut(h) ==
    /\ h \in clicked \cap locked
    /\ entry[h].status \notin {"ABSENT", "PENDING_UPDATE"}
    /\ Spend("fault")
    /\ clicked' = clicked \ {h}
    /\ UNCHANGED <<dbVars, meetVars, found, binding, unbinding, unbindIds, leaving, jobVars>>

-------------------------------------------------------------------------------
(* The requests of actions.py.                                             *)

\* bind, up to its commit: the key has been checked against Meet.  api_key is
\* unique over the table.
BindConfig(u, k) ==
    /\ config[u] = NoKey /\ u \notin binding
    /\ \A v \in Users : config[v] # k
    /\ keyState[k] = "ok"
    /\ Spend("bind")
    /\ config' = [config EXCEPT ![u] = k]
    /\ binding' = binding \cup {u}
    /\ UNCHANGED <<rows, done, entry, meetVars, clicked, found, unbinding,
                   unbindIds, leaving, jobVars>>

\* bind, the rest: an entry for each homework of the user, in one transaction
\* that inserts nothing when an entry exists (waits for locked rows first).
BindBackfill(u) ==
    LET ids == rows \cap HomeworksOf(u) IN
    /\ u \in binding
    /\ ids \cap locked = {}
    /\ binding' = binding \ {u}
    /\ IF ids \cap Tracked(entry) # {}
       THEN UNCHANGED entry
       ELSE entry' = [h \in HW |-> IF h \in ids THEN NewEntry ELSE entry[h]]
    /\ UNCHANGED <<rows, done, config, meetVars, clicked, found, unbinding,
                   unbindIds, leaving, jobVars, used>>

EventsOf(u) == {entry[h].event : h \in HomeworksOf(u)} \ {NoEvent}

\* unbind, its first half: the entries are read, and delete_homeworks_now sends
\* the deletion of their events (no call when no entry has one).
UnbindRemote(u) ==
    /\ config[u] # NoKey /\ u \notin unbinding
    /\ Spend("unbind")
    /\ EventsOf(u) = {} \/ keyState[config[u]] # "revoked"
    /\ MeetDelete(EventsOf(u))
    /\ unbinding' = unbinding \cup {u}
    /\ unbindIds' = [unbindIds EXCEPT ![u] = HomeworksOf(u) \cap Tracked(entry)]
    /\ UNCHANGED <<dbVars, clicked, found, binding, leaving, jobVars>>

\* The same when the call fails, before or after Meet has deleted the events:
\* the exception is swallowed, and no entry is going to be deleted.
UnbindRemoteFails(u) ==
    /\ config[u] # NoKey /\ u \notin unbinding
    /\ Spend("unbind")
    /\ EventsOf(u) # {}
    /\ \/ UNCHANGED meetVars
       \/ keyState[config[u]] # "revoked" /\ MeetDelete(EventsOf(u))
    /\ unbinding' = unbinding \cup {u}
    /\ unbindIds' = [unbindIds EXCEPT ![u] = {}]
    /\ UNCHANGED <<dbVars, clicked, found, binding, leaving, jobVars>>

\* unbind, its second half, and the commit: the ids read before are deleted
\* (waits for locked rows), and the row of the binding.
UnbindLocal(u) ==
    /\ u \in unbinding
    /\ unbindIds[u] \cap locked = {}
    /\ entry' = [h \in HW |-> IF h \in unbindIds[u] THEN Absent ELSE entry[h]]
    /\ config' = [config EXCEPT ![u] = NoKey]
    /\ unbinding' = unbinding \ {u}
    /\ unbindIds' = [unbindIds EXCEPT ![u] = {}]
    /\ UNCHANGED <<rows, done, meetVars, clicked, found, binding, leaving, jobVars, used>>

\* Lock wait timeout of the DELETE: swallowed as well, the binding still goes.
UnbindLocalTimesOut(u) ==
    /\ u \in unbinding
    /\ unbindIds[u] \cap locked # {}
    /\ Spend("fault")
    /\ config' = [config EXCEPT ![u] = NoKey]
    /\ unbinding' = unbinding \ {u}
    /\ unbindIds' = [unbindIds EXCEPT ![u] = {}]
    /\ UNCHANGED <<rows, done, entry, meetVars, clicked, found, binding, leaving, jobVars>>

-------------------------------------------------------------------------------
(* The deletion of an account: on_delete_user, in delete_account's session. *)

\* The binding, if there is one, is undone as by unbind: the events are deleted in
\* Meet, or the call fails, before or after that, and the failure is swallowed.
LeaveStarts(u) ==
    LET asks == config[u] # NoKey /\ EventsOf(u) # {} IN
    /\ u \notin leaving
    /\ Spend("unbind")
    /\ \/ UNCHANGED meetVars
       \/ asks /\ keyState[config[u]] # "revoked" /\ MeetDelete(EventsOf(u))
    /\ leaving' = leaving \cup {u}
    /\ UNCHANGED <<dbVars, clicked, found, binding, unbinding, unbindIds, jobVars>>

\* The commit (waits for locked rows): everything of the user goes by cascade.
LeaveCommits(u) ==
    LET mine == HomeworksOf(u) IN
    /\ u \in leaving
    /\ mine \cap locked = {}
    /\ entry' = [h \in HW |-> IF h \in mine THEN Absent ELSE entry[h]]
    /\ rows' = rows \ mine
    /\ done' = [h \in HW |-> IF h \in mine THEN "todo" ELSE done[h]]
    /\ config' = [config EXCEPT ![u] = NoKey]
    /\ leaving' = leaving \ {u}
    /\ UNCHANGED <<meetVars, clicked, found, binding, unbinding, unbindIds, jobVars, used>>

\* Lock wait timeout: the account stays, and so does the binding.
LeaveTimesOut(u) ==
    /\ u \in leaving
    /\ HomeworksOf(u) \cap locked # {}
    /\ Spend("fault")
    /\ leaving' = leaving \ {u}
    /\ UNCHANGED <<dbVars, meetVars, clicked, found, binding, unbinding, unbindIds, jobVars>>

-------------------------------------------------------------------------------
(* The job.                                                                *)

\* The entries the job read with the status of a phase.
Partition(ent, p) == {h \in HW : ent[h].status = SourceStatus(p)}

\* The phases after p that have entries; the others are skipped unseen.
Upcoming(ent, p) == {q \in Phases : Rank(q) > Rank(p) /\ Partition(ent, q) # {}}

IsNextPhase(ent, p, q) ==
    q \in Upcoming(ent, p) /\ \A r \in Upcoming(ent, p) : Rank(q) <= Rank(r)

\* The interval trigger fires (one instance at a time).  The select of all the
\* entries fixes the snapshot; the first phase with entries loads its homeworks.
StartJob ==
    /\ phase = "idle"
    /\ \E p \in Phases :
          /\ IsNextPhase(entry, "idle", p)
          /\ phase' = p
          /\ todo' = Partition(entry, p)
    /\ snap' = [rows |-> rows, done |-> done, entry |-> entry, config |-> config]
    /\ UNCHANGED <<dbVars, meetVars, requestVars, write, patch, locked, toUnbind, used>>

\* An UPDATE for a row that another transaction has deleted since the snapshot.
EntryGone == \E h \in HW : IsUpdate(write[h]) /\ entry[h].status = "ABSENT"
HomeworkGone == \E h \in HW : patch[h] # "keep" /\ h \notin rows

\* The phase's outcomes are applied; the next one with entries loads its
\* homeworks, which flushes and locks what has been written so far.
NextPhase ==
    /\ phase # "idle" /\ todo = {}
    /\ ~EntryGone
    /\ \E p \in Phases :
          /\ IsNextPhase(snap.entry, phase, p)
          /\ phase' = p
          /\ todo' = {h \in Partition(snap.entry, p) : Owner[h] \notin toUnbind}
    /\ locked' = {h \in HW : write[h] # NoWrite}
    /\ UNCHANGED <<dbVars, meetVars, requestVars, snap, write, patch, toUnbind, used>>

EndOfJob ==
    /\ phase' = "idle"
    /\ todo' = {}
    /\ snap' = NoSnapshot
    /\ write' = [h \in HW |-> NoWrite]
    /\ patch' = [h \in HW |-> "keep"]
    /\ locked' = {}
    /\ toUnbind' = {}

\* A flush fails: the session is rolled back, the phases and the unbinding that
\* are left fail on it without any call to Meet, and the commit fails.
JobRollsBack ==
    /\ phase # "idle" /\ todo = {}
    /\ EntryGone \/ (Upcoming(snap.entry, phase) = {} /\ HomeworkGone)
    /\ EndOfJob
    /\ UNCHANGED <<dbVars, meetVars, requestVars, used>>

\* Mutant: a status that is to be kept is written as well.
WrittenAlways(w, e) ==
    IF w.delete THEN Absent
    ELSE [status |-> w.status, event |-> IF w.event = NoEvent THEN e.event ELSE w.event]

\* What the flush of w makes of the row e: only changed columns are written.
Written(w, e) ==
    IF w.delete THEN Absent
    ELSE [status |-> IF w.status = "keep" THEN e.status ELSE w.status,
          event  |-> IF w.event = NoEvent THEN e.event ELSE w.event]

\* The phases are over: _unbind_user_local deletes what the snapshot shows of
\* each user to unbind, by primary key, and the session commits.
JobCommits ==
    /\ phase # "idle" /\ todo = {}
    /\ Upcoming(snap.entry, phase) = {}
    /\ ~EntryGone /\ ~HomeworkGone
    /\ entry' = [h \in HW |->
          IF Owner[h] \in toUnbind /\ h \in Tracked(snap.entry) THEN Absent
          ELSE Written(write[h], entry[h])]
    /\ config' = [u \in Users |-> IF u \in toUnbind THEN NoKey ELSE config[u]]
    /\ done' = [h \in HW |-> IF patch[h] = "keep" THEN done[h] ELSE patch[h]]
    /\ EndOfJob
    /\ UNCHANGED <<rows, meetVars, requestVars, used>>

-------------------------------------------------------------------------------
(* The phases: one entry, or one batch of creations, of one user at a time. *)

KeyOf(h) == snap.config[Owner[h]]
EventOf(h) == snap.entry[h].event

\* The outcome of an entry in this phase, through the table: an event id and a
\* completion mark may come with it.
Outcome(h, result, ev, mark) ==
    /\ todo' = todo \ {h}
    /\ write' = [write EXCEPT ![h] = WriteOf(phase, result, ev)]
    /\ patch' = IF Transition(phase, result).patchDone /\ mark # "keep"
                THEN [patch EXCEPT ![h] = mark] ELSE patch

\* Mutant: the void entries are left alone.
CleansUpNothing(h) ==
    /\ h \in todo
    /\ KeyOf(h) = NoKey
    /\ todo' = todo \ {h}
    /\ UNCHANGED <<dbVars, meetVars, requestVars, phase, snap, write, patch, locked,
                   toUnbind, used>>

\* _run_user finds no binding: the user's entries are void.
CleansUp(h) ==
    /\ h \in todo
    /\ KeyOf(h) = NoKey
    /\ todo' = todo \ {h}
    /\ write' = [write EXCEPT ![h] = DeleteRow]
    /\ UNCHANGED <<dbVars, meetVars, requestVars, phase, snap, patch, locked,
                   toUnbind, used>>

\* Entries a phase settles without calling Meet.
LocalResult(h) ==
    CASE phase = "PUSH"   /\ h \notin snap.rows \ Undated -> "PERMANENT"
      [] phase = "UPDATE" /\ h \notin snap.rows           -> "PERMANENT"
      [] phase = "UPDATE" /\ h \in snap.rows /\ EventOf(h) = NoEvent -> "MISSING"
      [] phase = "DELETE" /\ EventOf(h) = NoEvent         -> "OK"
      [] OTHER -> "none"

SettlesLocally(h) ==
    /\ h \in todo /\ KeyOf(h) # NoKey
    /\ LocalResult(h) # "none"
    /\ Outcome(h, LocalResult(h), NoEvent, "keep")
    /\ UNCHANGED <<dbVars, meetVars, requestVars, phase, snap, locked, toUnbind, used>>

\* _pull_user, an entry whose homework is gone: its status is set at once.
MarksDangling(h) ==
    /\ h \in todo /\ KeyOf(h) # NoKey
    /\ phase = "PULL" /\ h \notin snap.rows
    /\ todo' = todo \ {h}
    /\ write' = [write EXCEPT ![h] = SetStatus("PENDING_DELETE")]
    /\ UNCHANGED <<dbVars, meetVars, requestVars, phase, snap, patch, locked,
                   toUnbind, used>>

\* _pull_user, an entry with a homework but no event id: it is passed over.
PassesOver(h) ==
    /\ h \in todo /\ KeyOf(h) # NoKey
    /\ phase = "PULL" /\ h \in snap.rows /\ EventOf(h) = NoEvent
    /\ todo' = todo \ {h}
    /\ UNCHANGED <<dbVars, meetVars, requestVars, phase, snap, write, patch,
                   locked, toUnbind, used>>

\* The entries a phase calls Meet about.  PULL marks the user's dangling entries
\* before its first call.
Calls(h) ==
    /\ h \in todo /\ KeyOf(h) # NoKey
    /\ phase # "idle" /\ LocalResult(h) = "none"
    /\ phase = "PULL" =>
          EventOf(h) # NoEvent /\ todo \cap HomeworksOf(Owner[h]) \subseteq snap.rows

\* Mutant: the 404 of a single event counts as well.
RefusesMissing(h) ==
    \/ keyState[KeyOf(h)] = "revoked"
    \/ phase = "PUSH" /\ keyState[KeyOf(h)] = "unscheduled"
    \/ phase = "UPDATE" /\ EventOf(h) \notin live

\* Meet answers 401 or 403, or 404 to the creation of events in a timetable that
\* is gone.
Refuses(h) ==
    \/ keyState[KeyOf(h)] = "revoked"
    \/ phase = "PUSH" /\ keyState[KeyOf(h)] = "unscheduled"

\* Mutant: the user's phase is given up, but nobody unbinds the user.
GivesUpPhase(h) ==
    /\ Calls(h) /\ Refuses(h)
    /\ todo' = todo \ HomeworksOf(Owner[h])
    /\ UNCHANGED <<dbVars, meetVars, requestVars, phase, snap, write, patch, locked,
                   toUnbind, used>>

\* HaveToUnbindMeetschedule: the user's outcomes of this phase are dropped, and
\* the user is left out of the phases to come.
GivesUpUser(h) ==
    LET dropped == {x \in Partition(snap.entry, phase) :
                       Owner[x] = Owner[h] /\ (phase = "PULL" => x \in snap.rows)}
    IN
    /\ Calls(h) /\ Refuses(h)
    /\ toUnbind' = toUnbind \cup {Owner[h]}
    /\ todo' = todo \ HomeworksOf(Owner[h])
    /\ write' = [x \in HW |-> IF x \in dropped THEN NoWrite ELSE write[x]]
    /\ patch' = [x \in HW |-> IF x \in dropped THEN "keep" ELSE patch[x]]
    /\ UNCHANGED <<dbVars, meetVars, requestVars, phase, snap, locked, used>>

\* _push_user: what is left of a user's bundle.
Bundle(u) == {h \in HomeworksOf(u) : phase = "PUSH" /\ Calls(h)}

\* The sequences of homeworks that go to Meet in one call.
Batches(hs) == UNION {Injection(1..n, hs) : n \in 1..BatchSize}

\* Mutant: the numbers are not compared, and the pairing ends with the shorter.
PairedUnchecked(h, batch, answer) ==
    LET i == AntiFunction(batch)[h]
    IN  IF i <= Len(answer) THEN WriteOf(phase, "OK", answer[i])
        ELSE WriteOf(phase, "TRANSIENT", NoEvent)

\* An answer is paired with the batch by position; when their lengths differ nothing
\* of it is believed, and the whole batch is to be tried again.
Paired(h, batch, answer) ==
    IF Len(answer) # Len(batch) THEN WriteOf(phase, "TRANSIENT", NoEvent)
    ELSE WriteOf(phase, "OK", answer[AntiFunction(batch)[h]])

BatchOutcome(batch, answer) ==
    /\ todo' = todo \ Range(batch)
    /\ write' = [h \in HW |->
          IF h \in Range(batch) THEN Paired(h, batch, answer) ELSE write[h]]
    /\ UNCHANGED patch

\* _push_batch, or a single creation: Meet creates an event for each homework.
PushesBatch(u, batch) ==
    /\ batch \in Batches(Bundle(u) \ Rejected)
    /\ \A h \in Range(batch) : ~Refuses(h)
    /\ MeetCreate(batch, snap.done)
    /\ BatchOutcome(batch, FreshEvents(batch))
    /\ UNCHANGED <<dbVars, requestVars, phase, snap, locked, toUnbind, used>>

\* The same when the call fails, or answers with some of the events only: Meet may
\* have created events for any part of the batch.
PushFails(u, batch) ==
    /\ batch \in Batches(Bundle(u))
    /\ Spend("fault")
    /\ \E made \in Batches(Range(batch) \ Rejected) \cup {<<>>} :
          /\ made = <<>> \/ \A h \in Range(batch) : ~Refuses(h)
          /\ MeetCreate(made, snap.done)
          /\ \E answer \in {<<>>, FreshEvents(made)} :
                Len(answer) # Len(batch) /\ BatchOutcome(batch, answer)
    /\ UNCHANGED <<dbVars, requestVars, phase, snap, locked, toUnbind>>

\* _push_singly: Meet refuses the homework for good (422, 409).
PushRefused(h) ==
    /\ phase = "PUSH" /\ h \in Rejected /\ Calls(h) /\ ~Refuses(h)
    /\ Outcome(h, "PERMANENT", NoEvent, "keep")
    /\ UNCHANGED <<dbVars, meetVars, requestVars, phase, snap, locked, toUnbind, used>>

\* _update_user: the completion mark of the snapshot goes to the event.
Updates(h) ==
    /\ phase = "UPDATE" /\ Calls(h) /\ ~Refuses(h)
    /\ IF EventOf(h) \in live
       THEN MeetUpdate(EventOf(h), snap.done[h]) /\ Outcome(h, "OK", NoEvent, "keep")
       ELSE UNCHANGED meetVars /\ Outcome(h, "MISSING", NoEvent, "keep")
    /\ UNCHANGED <<dbVars, requestVars, phase, snap, locked, toUnbind, used>>

\* _delete_user: an event that is already gone counts as deleted.
Deletes(h) ==
    /\ phase = "DELETE" /\ Calls(h) /\ ~Refuses(h)
    /\ MeetDelete({EventOf(h)})
    /\ Outcome(h, "OK", NoEvent, "keep")
    /\ UNCHANGED <<dbVars, requestVars, phase, snap, locked, toUnbind, used>>

\* _pull_user: the event's mark comes back when it differs from the snapshot's.
Pulls(h) ==
    LET mark == evDone[EventOf(h)] IN
    /\ phase = "PULL" /\ Calls(h) /\ ~Refuses(h)
    /\ IF EventOf(h) \in live
       THEN Outcome(h, "OK", NoEvent, IF mark = snap.done[h] THEN "keep" ELSE mark)
       ELSE Outcome(h, "MISSING", NoEvent, "keep")
    /\ UNCHANGED <<dbVars, meetVars, requestVars, phase, snap, locked, toUnbind, used>>

\* What a call may have done in Meet when its answer is lost.
HiddenEffect(h) ==
    CASE phase = "UPDATE" -> MeetUpdate(EventOf(h), snap.done[h])
      [] phase = "DELETE" -> MeetDelete({EventOf(h)})
      [] OTHER            -> FALSE

\* A call of another phase fails: network failure, 429, 5xx.
Fails(h) ==
    /\ Calls(h) /\ phase # "PUSH"
    /\ Spend("fault")
    /\ UNCHANGED meetVars \/ (~Refuses(h) /\ HiddenEffect(h))
    /\ Outcome(h, "TRANSIENT", NoEvent, "keep")
    /\ UNCHANGED <<dbVars, requestVars, phase, snap, locked, toUnbind>>

ProcessEntry(h) ==
    \/ CleansUp(h) \/ SettlesLocally(h) \/ MarksDangling(h) \/ PassesOver(h)
    \/ GivesUpUser(h) \/ PushRefused(h) \/ Updates(h) \/ Deletes(h) \/ Pulls(h)

-------------------------------------------------------------------------------
\* The process dies or is shut down: background tasks are cancelled, requests and
\* the job are lost with their uncommitted changes.
Crash ==
    /\ Spend("crash")
    /\ clicked' = {} /\ found' = {} /\ binding' = {} /\ unbinding' = {}
    /\ unbindIds' = [u \in Users |-> {}] /\ leaving' = {}
    /\ EndOfJob
    /\ UNCHANGED <<dbVars, meetVars>>

\* Some homeworks are known, and nothing is bound yet.
Init ==
    /\ rows \in SUBSET HW
    /\ done = [h \in HW |-> "todo"]
    /\ entry = [h \in HW |-> Absent]
    /\ config = [u \in Users |-> NoKey]
    /\ evHw = [ev \in Events |-> NoHW]
    /\ live = {}
    /\ evDone = [ev \in Events |-> "todo"]
    /\ keyState = [k \in Keys |-> "ok"]
    /\ clicked = {} /\ found = {} /\ binding = {} /\ unbinding = {}
    /\ unbindIds = [u \in Users |-> {}] /\ leaving = {}
    /\ phase = "idle" /\ todo = {} /\ snap = NoSnapshot
    /\ write = [h \in HW |-> NoWrite]
    /\ patch = [h \in HW |-> "keep"]
    /\ locked = {} /\ toUnbind = {}
    /\ used = [kind \in Kinds |-> 0]

JobStep ==
    \/ StartJob \/ NextPhase \/ JobRollsBack \/ JobCommits
    \/ \E h \in HW : ProcessEntry(h)
    \/ \E u \in Users : \E batch \in Batches(HomeworksOf(u)) : PushesBatch(u, batch)

\* What the process goes on with by itself.
ServiceStep ==
    \/ JobStep
    \/ \E h \in HW : HookDoneIdle(h) \/ HookDoneMarks(h)
    \/ \E u \in Users :
          \/ BindBackfill(u) \/ UnbindLocal(u) \/ LeaveCommits(u)
          \/ \E new \in SUBSET HomeworksOf(u) : HookNewHomeworks(u, new)

\* What the user, the platforms, Meet, the network and the host do.
EnvironmentStep ==
    \/ Crash
    \/ \E h \in HW : HookDoneTimesOut(h) \/ Fails(h) \/ \E m \in Marks : Complete(h, m)
    \/ \E u \in Users :
          \/ UnbindRemote(u) \/ UnbindRemoteFails(u) \/ UnbindLocalTimesOut(u)
          \/ LeaveStarts(u) \/ LeaveTimesOut(u)
          \/ UserDropsSchedule(u)
          \/ \E batch \in Batches(HomeworksOf(u)) : PushFails(u, batch)
          \/ \E k \in Keys : BindConfig(u, k)
          \/ \E hs \in SUBSET HomeworksOf(u) : RefreshFinds(u, hs) \/ RemoveHomeworks(u, hs)
    \/ \E ev \in Events : UserEditsMeet(ev) \/ UserDeletesEvent(ev)
    \/ \E k \in Keys : UserRevokesKey(k)

Next == ServiceStep \/ EnvironmentStep

Spec == Init /\ [][Next]_vars

(***************************************************************************)
(* Fairness.  The interval trigger starts the job again and again, the     *)
(* event loop resumes what waits for an answer or a lock, and every call   *)
(* to Meet ends (with a failure at worst, which Limit bounds).  Nothing is *)
(* assumed of the users, of Meet or of the network.                        *)
(***************************************************************************)
Fairness ==
    /\ WF_vars(JobStep)
    /\ \A h \in HW : WF_vars(HookDoneIdle(h) \/ HookDoneMarks(h))
    /\ \A u \in Users :
          /\ WF_vars(BindBackfill(u))
          /\ WF_vars(UnbindLocal(u)) /\ WF_vars(LeaveCommits(u))
          /\ WF_vars(\E new \in SUBSET HomeworksOf(u) : HookNewHomeworks(u, new))

FairSpec == Spec /\ Fairness

-------------------------------------------------------------------------------
(* Properties.                                                             *)

\* The event ids the service holds for a homework.
Held(h) == {entry[h].event, snap.entry[h].event, write[h].event}

\* No homework ever gets hold of the event of another one, in the table, in the
\* job's snapshot or among its pending changes: each event id that is stored was
\* given by Meet for that very homework.  _push_batch pairs the events of an answer
\* with its requests by position, and an answer may be short of some of them.
EventBelongs ==
    \A h \in HW : \A ev \in Held(h) \ {NoEvent} : evHw[ev] = h

\* An entry that counts as mirrored, or whose mirror is to be deleted, has an
\* event id: otherwise PULL passes over it for ever (refresh_task.py:531-535)
\* and neither UPDATE nor DELETE can reach its event.
SuccessHasEvent ==
    \A h \in HW : entry[h].status \in {"SUCCESS", "PENDING_DELETE"} => entry[h].event # NoEvent

\* The homeworks of a bound user that can be mirrored are all tracked, as soon as
\* the requests and hooks that create their entries are over.  (It fails when a hook
\* meets an entry that is there already: in a backfill, see BackfillLost, or when a
\* removed homework comes back before the job has dropped its entry.)
AllTracked ==
    \A h \in rows \ (Undated \cup Rejected) :
        \/ config[Owner[h]] = NoKey
        \/ Owner[h] \in binding \cup unbinding
        \/ \E new \in found : h \in new
        \/ entry[h].status # "ABSENT"

\* As long as no answer of Meet is lost and nothing dies, Meet holds no event the
\* service has forgotten, whatever the user does in Meet and here: an event of a
\* bound user's homework is the one its entry names, or will name when the job
\* commits.  (It fails when a round rolls back, as a removed homework or an unbinding
\* in its way makes it, and for what comes back while its old event is in Meet.)
NoStrayEvent ==
    used["fault"] + used["crash"] = 0 => \A ev \in live :
        \/ evHw[ev] \notin rows
        \/ config[Owner[evHw[ev]]] = NoKey
        \/ Owner[evHw[ev]] \in toUnbind
        \/ entry[evHw[ev]].event = ev \/ write[evHw[ev]].event = ev

\* The job never unbinds a user whose binding works: it does so only when Meet
\* refuses the very key that is deleted, however the calls of the round failed.  (An
\* unbinding in a round may let a new binding take the place of the refused one.)
NoSpuriousUnbind ==
    [][\A u \in Users :
          config[u] # NoKey /\ config'[u] = NoKey /\ u \notin unbinding \cup leaving
             => keyState[config[u]] # "ok"]_vars

\* Retries end: once the users, the network and Meet leave the service alone, it
\* comes to a state from which every tracked homework stays mirrored.
Settles == <>[](\A h \in Tracked(entry) : entry[h].status = "SUCCESS")

\* ... and from which each mirror shows the completion mark of its homework.
Converges ==
    <>[](\A h \in HW :
            /\ entry[h].status = "SUCCESS"
            /\ h \in rows
            => entry[h].event \in live /\ evDone[entry[h].event] = done[h])

\* A binding Meet refuses does not stay while something is tracked under it.
BrokenKeyUnbinds ==
    \A u \in Users, k \in Keys :
        (config[u] = k /\ keyState[k] # "ok" /\ HomeworksOf(u) \cap Tracked(entry) # {})
            ~> (config[u] # k \/ HomeworksOf(u) \cap Tracked(entry) = {})

\* Entries an unbinding left behind are cleaned up by the job, or taken over by
\* a new binding.
LeftoversGo ==
    \A u \in Users :
        (config[u] = NoKey /\ HomeworksOf(u) \cap Tracked(entry) # {})
            ~> (config[u] # NoKey \/ HomeworksOf(u) \cap Tracked(entry) = {})

===============================================================================
