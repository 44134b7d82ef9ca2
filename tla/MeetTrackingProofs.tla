-------------------------- MODULE MeetTrackingProofs --------------------------
(***************************************************************************)
(* More proofs about MeetSync, for every set of users, homeworks, keys and *)
(* events and every Limit: which users the job unbinds, that no homework   *)
(* is left untracked, and that no event is forgotten in Meet.              *)
(*                                                                         *)
(* The last two fail in histories that README.md lists.  What rules these  *)
(* out is a hypothesis on the behaviour, in the form Spec /\ []H => []Inv: *)
(* H and H' are then at hand when a step is shown to preserve Inv, and     *)
(* nothing is assumed of a step that H does not speak of.                  *)
(***************************************************************************)
EXTENDS MeetSyncProofs

-------------------------------------------------------------------------------
(* The steps outside the job, by what they do to the state the job reads.  *)

RequestStep ==
    \/ \E h \in HW : HookDoneIdle(h) \/ HookDoneMarks(h) \/ HookDoneTimesOut(h)
                     \/ \E m \in Marks : Complete(h, m)
    \/ \E u \in Users :
          \/ BindBackfill(u) \/ UnbindRemote(u) \/ UnbindRemoteFails(u)
          \/ UnbindLocal(u) \/ UnbindLocalTimesOut(u)
          \/ LeaveStarts(u) \/ LeaveCommits(u) \/ LeaveTimesOut(u)
          \/ UserDropsSchedule(u)
          \/ \E k \in Keys : BindConfig(u, k)
          \/ \E hs \in SUBSET HomeworksOf(u) :
                HookNewHomeworks(u, hs) \/ RefreshFinds(u, hs) \/ RemoveHomeworks(u, hs)
    \/ \E ev \in Events : UserEditsMeet(ev) \/ UserDeletesEvent(ev)
    \/ \E k \in Keys : UserRevokesKey(k)

\* The steps of the job that create events, or fail to.
PushStep ==
    \E u \in Users : \E batch \in Batches(HomeworksOf(u)) :
        PushesBatch(u, batch) \/ PushFails(u, batch)

\* Every step is one of the job, a call of the job that fails, a crash or one of
\* the requests and hooks.
LEMMA StepKinds ==
    ASSUME Next
    PROVE  JobStep \/ (\E h \in HW : Fails(h)) \/ PushStep \/ Crash \/ RequestStep
BY DEF Next, ServiceStep, EnvironmentStep, RequestStep, PushStep

LEMMA JobSteps ==
    ASSUME JobStep
    PROVE  \/ StartJob \/ NextPhase \/ JobRollsBack \/ JobCommits
           \/ \E h \in HW : ProcessEntry(h)
           \/ PushStep
BY DEF JobStep, PushStep

\* An unbinding deletes entries of its own user only.
IdsOwned == \A u \in Users : unbindIds[u] \subseteq HomeworksOf(u)

\* What a step outside the job may do to an entry.
EntryMoves(h) ==
    \/ entry'[h] = entry[h]
    \/ entry[h].status = "ABSENT" /\ entry'[h] = NewEntry
    \/ /\ entry[h].status # "ABSENT" /\ entry'[h].status = "PENDING_UPDATE"
       /\ entry'[h].event = entry[h].event
    \/ phase = "idle" /\ entry'[h] = Absent /\ config'[Owner[h]] = NoKey

\* ... and to the rest: no new event, no key that works again, no change of the job,
\* and no binding replaced while the job runs.
OutsideTheJob ==
    /\ UNCHANGED jobVars
    /\ live' \subseteq live /\ evHw' = evHw
    /\ \A k \in Keys : keyState[k] # "ok" => keyState'[k] # "ok"
    /\ \A h \in HW : EntryMoves(h)
    /\ phase # "idle" => \A u \in Users : config[u] # NoKey => config'[u] = config[u]

LEMMA RequestsOutside ==
    ASSUME TypeOK, Undisturbed, IdsOwned, RequestStep
    PROVE  OutsideTheJob
<1> USE DEF OutsideTheJob, EntryMoves, TypeOK, DbTypeOK, meetVars, dbVars, requestVars
<1>1. ASSUME NEW h \in HW, HookDoneIdle(h) \/ HookDoneTimesOut(h)
      PROVE  OutsideTheJob
  BY <1>1 DEF HookDoneIdle, HookDoneTimesOut
<1>2. ASSUME NEW h \in HW, HookDoneMarks(h)
      PROVE  OutsideTheJob
  BY <1>2 DEF HookDoneMarks, Entries
<1>3. ASSUME NEW h \in HW, NEW m \in Marks, Complete(h, m)
      PROVE  OutsideTheJob
  BY <1>3 DEF Complete
<1>4. ASSUME NEW u \in Users, BindBackfill(u)
      PROVE  OutsideTheJob
  BY <1>4 DEF BindBackfill, Tracked
<1>5. ASSUME NEW u \in Users, UnbindRemote(u) \/ UnbindRemoteFails(u) \/ LeaveStarts(u)
      PROVE  OutsideTheJob
  BY <1>5 DEF UnbindRemote, UnbindRemoteFails, LeaveStarts, MeetDelete
<1>6. ASSUME NEW u \in Users, UnbindLocal(u)
      PROVE  OutsideTheJob
  <2>1. phase = "idle"
    BY <1>6 DEF UnbindLocal, Undisturbed
  <2>2. \A h \in unbindIds[u] : config'[Owner[h]] = NoKey
    BY <1>6 DEF UnbindLocal, IdsOwned, HomeworksOf
  <2> QED BY <1>6, <2>1, <2>2 DEF UnbindLocal
<1>7. ASSUME NEW u \in Users, UnbindLocalTimesOut(u) \/ LeaveTimesOut(u)
      PROVE  OutsideTheJob
  BY <1>7 DEF UnbindLocalTimesOut, LeaveTimesOut, Undisturbed
<1>8. ASSUME NEW u \in Users, LeaveCommits(u)
      PROVE  OutsideTheJob
  <2>1. phase = "idle"
    BY <1>8 DEF LeaveCommits, Undisturbed
  <2>2. \A h \in HomeworksOf(u) : config'[Owner[h]] = NoKey
    BY <1>8 DEF LeaveCommits, HomeworksOf
  <2> QED BY <1>8, <2>1, <2>2 DEF LeaveCommits
<1>9. ASSUME NEW u \in Users, UserDropsSchedule(u)
      PROVE  OutsideTheJob
  BY <1>9 DEF UserDropsSchedule, MeetTypeOK
<1>10. ASSUME NEW u \in Users, NEW k \in Keys, BindConfig(u, k)
      PROVE  OutsideTheJob
  BY <1>10 DEF BindConfig
<1>11. ASSUME NEW u \in Users, NEW new \in SUBSET HomeworksOf(u), HookNewHomeworks(u, new)
      PROVE  OutsideTheJob
  BY <1>11 DEF HookNewHomeworks, Tracked
<1>12. ASSUME NEW u \in Users, NEW hs \in SUBSET HomeworksOf(u),
              RefreshFinds(u, hs) \/ RemoveHomeworks(u, hs)
      PROVE  OutsideTheJob
  BY <1>12 DEF RefreshFinds, RemoveHomeworks
<1>13. ASSUME NEW ev \in Events, UserEditsMeet(ev) \/ UserDeletesEvent(ev)
      PROVE  OutsideTheJob
  BY <1>13 DEF UserEditsMeet, UserDeletesEvent, MeetDelete
<1>14. ASSUME NEW k \in Keys, UserRevokesKey(k)
      PROVE  OutsideTheJob
  BY <1>14 DEF UserRevokesKey, MeetTypeOK
<1> QED
  BY <1>1, <1>2, <1>3, <1>4, <1>5, <1>6, <1>7, <1>8, <1>9, <1>10, <1>11, <1>12,
     <1>13, <1>14 DEF RequestStep

-------------------------------------------------------------------------------
(* A round of the job, as long as no unbinding and no deletion overlaps    *)
(* it: what is still to do has the status of the phase, what is written    *)
(* belongs to an entry that is done with, and the entries of the snapshot  *)
(* are still there, with the same event ids.                               *)

IdleClean == phase = "idle" => todo = {} /\ toUnbind = {} /\ snap = NoSnapshot

WritesSettled ==
    \A h \in HW : write[h] # NoWrite =>
        /\ phase # "idle" /\ h \notin todo
        /\ snap.entry[h].status # "ABSENT"
        /\ \A p \in Phases : h \in Partition(snap.entry, p) => Rank(p) <= Rank(phase)

AbsentBare(ent) == \A h \in HW : ent[h].status = "ABSENT" => ent[h].event = NoEvent

EntriesKept ==
    phase # "idle" => \A h \in HW :
        /\ entry[h].event = snap.entry[h].event
        /\ snap.entry[h].status # "ABSENT" => entry[h].status # "ABSENT"

RoundInv ==
    /\ IdsOwned /\ IdleClean /\ TodoOfPhase /\ WritesSettled
    /\ AbsentBare(entry) /\ AbsentBare(snap.entry) /\ EntriesKept

LEMMA Ranks ==
    /\ \A p \in Phases : Rank(p) \in Nat
    /\ \A p, q \in Phases : SourceStatus(p) = SourceStatus(q) => p = q
    /\ \A p \in Phases : SourceStatus(p) \in Statuses /\ SourceStatus(p) # "ABSENT"
    /\ \A p \in Phases : p # "idle"
BY DEF Rank, SourceStatus, Phases, Statuses

LEMMA NoWriteMeans ==
    /\ ~NoWrite.delete /\ NoWrite.status = "keep" /\ NoWrite.event = NoEvent
    /\ ~IsUpdate(NoWrite)
BY DEF NoWrite, IsUpdate

\* The flush of a round cannot fail on an entry.
LEMMA NoEntryGone ==
    ASSUME RoundInv
    PROVE  ~EntryGone
BY NoWriteMeans DEF EntryGone, RoundInv, WritesSettled, EntriesKept

\* A step of the job at some entries settles them, and changes the session only.
JobAt(hs) ==
    /\ hs \subseteq todo
    /\ UNCHANGED <<dbVars, requestVars, phase, snap>>
    /\ todo' \subseteq todo \ hs
    /\ \A x \in HW : x \in hs \/ write'[x] \in {write[x], NoWrite}

JobAtEntry(h) == h \in todo /\ JobAt({h})

\* What a batch leaves to write for its homeworks.
LEMMA BatchWrites ==
    ASSUME TypeOK, phase = "PUSH", NEW batch, NEW answer, BatchOutcome(batch, answer),
           NEW h \in HW, h \in Range(batch)
    PROVE  \/ /\ Len(answer) # Len(batch)
              /\ write'[h] = WriteOf("PUSH", "TRANSIENT", NoEvent)
           \/ /\ Len(answer) = Len(batch)
              /\ \E i \in DOMAIN batch :
                    batch[i] = h /\ write'[h] = WriteOf("PUSH", "OK", answer[i])
<1>1. write'[h] = Paired(h, batch, answer)
  BY DEF BatchOutcome
<1> QED BY <1>1, PairedCases

LEMMA PushSteps ==
    ASSUME TypeOK, PushStep
    PROVE  /\ phase = "PUSH" /\ phase \in Phases
           /\ UNCHANGED <<dbVars, requestVars, phase, snap, toUnbind, keyState>>
           /\ \E batch, answer : /\ Range(batch) \subseteq HW /\ JobAt(Range(batch))
                                 /\ BatchOutcome(batch, answer)
<1>1. ASSUME NEW u \in Users, NEW batch \in Batches(HomeworksOf(u)), PushesBatch(u, batch)
      PROVE  /\ batch \in Batches(Bundle(u) \ Rejected)
             /\ UNCHANGED <<dbVars, requestVars, phase, snap, toUnbind, keyState>>
             /\ BatchOutcome(batch, FreshEvents(batch))
  BY <1>1 DEF PushesBatch, MeetCreate
<1>2. ASSUME NEW u \in Users, NEW batch \in Batches(HomeworksOf(u)), PushFails(u, batch)
      PROVE  /\ batch \in Batches(Bundle(u))
             /\ UNCHANGED <<dbVars, requestVars, phase, snap, toUnbind, keyState>>
             /\ \E answer : BatchOutcome(batch, answer)
  BY <1>2 DEF PushFails, MeetCreate
<1>3. PICK u \in Users : \E batch \in Batches(HomeworksOf(u)) :
        PushesBatch(u, batch) \/ PushFails(u, batch)
  BY DEF PushStep
<1> PICK batch \in Batches(HomeworksOf(u)) :
        PushesBatch(u, batch) \/ PushFails(u, batch)
  BY <1>3
<1>4. /\ batch \in Batches(Bundle(u)) \cup Batches(Bundle(u) \ Rejected)
      /\ UNCHANGED <<dbVars, requestVars, phase, snap, toUnbind, keyState>>
  BY <1>1, <1>2
<1>5. PICK answer : BatchOutcome(batch, answer)
  BY <1>1, <1>2
<1>6. phase = "PUSH" /\ phase \in Phases /\ Range(batch) \subseteq todo /\ Range(batch) \subseteq HW
  <2>1. phase = "PUSH" /\ phase \in Phases /\ Range(batch) \subseteq Bundle(u)
    BY <1>4, BundleBatch
  <2>2. Bundle(u) \subseteq todo /\ Bundle(u) \subseteq HW
    BY DEF Bundle, HomeworksOf, Calls
  <2> QED BY <2>1, <2>2
<1>7. JobAt(Range(batch))
  BY <1>4, <1>5, <1>6 DEF JobAt, BatchOutcome, TypeOK, JobTypeOK
<1> QED BY <1>4, <1>5, <1>6, <1>7

LEMMA EntrySteps ==
    ASSUME TypeOK, NEW h \in HW, ProcessEntry(h) \/ Fails(h)
    PROVE  JobAtEntry(h)
<1> USE DEF JobAtEntry, JobAt, TypeOK, JobTypeOK
<1>1. CASE GivesUpUser(h)
  BY <1>1 DEF GivesUpUser, Calls, HomeworksOf
<1>2. CASE CleansUp(h) \/ MarksDangling(h) \/ PassesOver(h)
  BY <1>2 DEF CleansUp, MarksDangling, PassesOver
<1>3. CASE SettlesLocally(h) \/ PushRefused(h) \/ Updates(h) \/ Deletes(h) \/ Pulls(h) \/ Fails(h)
  BY <1>3 DEF SettlesLocally, PushRefused, Updates, Deletes, Pulls, Fails, Calls, Outcome
<1> QED BY <1>1, <1>2, <1>3 DEF ProcessEntry

LEMMA WorkRound ==
    ASSUME TypeOK, RoundInv, NEW hs \in SUBSET HW, JobAt(hs), phase # "idle"
    PROVE  RoundInv'
<1>1. phase \in Phases /\ \A h \in hs : h \in Partition(snap.entry, phase)
  BY DEF JobAt, RoundInv, TodoOfPhase, TypeOK, JobTypeOK
<1>2. \A h \in hs : snap.entry[h].status = SourceStatus(phase)
  BY <1>1 DEF Partition
<1>3. \A h \in hs, p \in Phases : h \in Partition(snap.entry, p) => p = phase
  BY <1>1, <1>2, Ranks DEF Partition
<1>4. WritesSettled'
  BY <1>1, <1>2, <1>3, Ranks DEF JobAt, RoundInv, WritesSettled, Partition
<1> QED
  BY <1>1, <1>4, Ranks
  DEF JobAt, RoundInv, IdsOwned, IdleClean, TodoOfPhase, AbsentBare, EntriesKept,
      Partition, dbVars, requestVars

LEMMA JobStepRound ==
    ASSUME TypeOK, Undisturbed, RoundInv, JobStep \/ PushStep \/ \E h \in HW : Fails(h)
    PROVE  RoundInv'
<1> USE DEF dbVars, requestVars
<1>1. ASSUME NEW h \in HW, ProcessEntry(h) \/ Fails(h)
      PROVE  RoundInv'
  <2>1. phase # "idle"
    BY <1>1, EntrySteps DEF JobAtEntry, RoundInv, IdleClean
  <2> QED BY <1>1, <2>1, EntrySteps, WorkRound DEF JobAtEntry
<1>2. CASE StartJob
  <2>1. phase' \in Phases /\ phase' # "idle" /\ todo' = Partition(entry, phase')
    BY <1>2, Ranks DEF StartJob
  <2>2. \A h \in HW : write'[h] = NoWrite
    BY <1>2 DEF StartJob, RoundInv, WritesSettled
  <2>3. snap'.entry = entry /\ toUnbind' = {}
    BY <1>2 DEF StartJob, RoundInv, IdleClean
  <2> QED
    BY <1>2, <2>1, <2>2, <2>3
    DEF StartJob, RoundInv, IdsOwned, IdleClean, TodoOfPhase, WritesSettled, AbsentBare,
        EntriesKept
<1>3. CASE NextPhase
  <2>1. PICK p \in Phases : /\ IsNextPhase(snap.entry, phase, p) /\ phase' = p
                            /\ todo' \subseteq Partition(snap.entry, p)
    BY <1>3 DEF NextPhase, Partition
  <2>2. phase \in Phases /\ Rank(p) > Rank(phase)
    BY <1>3, <2>1 DEF NextPhase, IsNextPhase, Upcoming, TypeOK, JobTypeOK
  <2>3. WritesSettled'
    BY <1>3, <2>1, <2>2, Ranks DEF NextPhase, RoundInv, WritesSettled, Partition
  <2> QED
    BY <1>3, <2>1, <2>3, Ranks
    DEF NextPhase, RoundInv, IdsOwned, IdleClean, TodoOfPhase, AbsentBare, EntriesKept,
        Partition
<1>4. CASE JobRollsBack \/ JobCommits
  <2>1. EndOfJob /\ UNCHANGED requestVars
    BY <1>4 DEF JobRollsBack, JobCommits
  <2>2. \A h \in HW : entry'[h].status = "ABSENT" => entry'[h].event = NoEvent
    <3>1. CASE JobRollsBack
      BY <3>1 DEF JobRollsBack, RoundInv, AbsentBare
    <3>2. CASE JobCommits
      <4> SUFFICES ASSUME NEW h \in HW, entry'[h].status = "ABSENT", entry'[h] # Absent
                   PROVE  entry'[h].event = NoEvent
        BY DEF Absent
      <4>1. entry'[h] = Written(write[h], entry[h]) /\ write[h] \in Writes
        BY <3>2 DEF JobCommits, TypeOK, JobTypeOK
      <4>2. ~write[h].delete /\ write[h].status = "keep" /\ entry[h].status = "ABSENT"
        BY <4>1 DEF Written, Writes, Statuses
      <4>3. ~IsUpdate(write[h])
        BY <3>2, <4>2 DEF JobCommits, EntryGone
      <4> QED BY <4>1, <4>2, <4>3 DEF Written, IsUpdate, RoundInv, AbsentBare
    <3> QED BY <1>4, <3>1, <3>2
  <2>3. snap' = NoSnapshot /\ phase' = "idle" /\ \A h \in HW : write'[h] = NoWrite
    BY <2>1 DEF EndOfJob
  <2>4. AbsentBare(snap.entry)'
    BY <2>3 DEF NoSnapshot, Absent, AbsentBare
  <2>5. IdleClean' /\ TodoOfPhase' /\ WritesSettled' /\ EntriesKept'
    BY <2>1, <2>3 DEF EndOfJob, IdleClean, TodoOfPhase, WritesSettled, EntriesKept
  <2> QED BY <2>1, <2>2, <2>4, <2>5 DEF RoundInv, IdsOwned, AbsentBare
<1>5. CASE PushStep
  BY <1>5, PushSteps, WorkRound, Ranks
<1> QED BY <1>1, <1>2, <1>3, <1>4, <1>5, JobSteps

LEMMA RequestRound ==
    ASSUME TypeOK, Undisturbed, RoundInv, RequestStep
    PROVE  RoundInv'
<1>1. OutsideTheJob
  BY RequestsOutside DEF RoundInv
<1>2. IdsOwned'
  <2> USE DEF RoundInv, IdsOwned, TypeOK, RequestTypeOK, requestVars
  <2>1. ASSUME NEW u \in Users, UnbindRemote(u) \/ UnbindRemoteFails(u) \/ UnbindLocal(u)
                                \/ UnbindLocalTimesOut(u)
        PROVE  IdsOwned'
    BY <2>1 DEF UnbindRemote, UnbindRemoteFails, UnbindLocal, UnbindLocalTimesOut
  <2>2. CASE UNCHANGED unbindIds
    BY <2>2
  <2> QED
    BY <2>1, <2>2
    DEF RequestStep, HookDoneIdle, HookDoneMarks, HookDoneTimesOut, Complete, BindBackfill,
        LeaveStarts, LeaveCommits, LeaveTimesOut, UserDropsSchedule, BindConfig,
        HookNewHomeworks, RefreshFinds, RemoveHomeworks, UserEditsMeet, UserDeletesEvent,
        UserRevokesKey
<1>3. UNCHANGED jobVars /\ \A h \in HW : EntryMoves(h)
  BY <1>1 DEF OutsideTheJob
<1>4. AbsentBare(entry)'
  BY <1>3 DEF RoundInv, AbsentBare, EntryMoves, NewEntry, Absent
<1>5. EntriesKept'
  BY <1>3 DEF RoundInv, AbsentBare, EntriesKept, EntryMoves, NewEntry, Absent, jobVars
<1> QED
  BY <1>2, <1>3, <1>4, <1>5
  DEF RoundInv, IdleClean, TodoOfPhase, WritesSettled, AbsentBare, Partition, jobVars

LEMMA CrashRound ==
    ASSUME RoundInv, Crash
    PROVE  RoundInv'
<1>1. EndOfJob /\ entry' = entry /\ unbindIds' = [u \in Users |-> {}]
  BY DEF Crash, dbVars
<1>2. snap' = NoSnapshot /\ phase' = "idle" /\ \A h \in HW : write'[h] = NoWrite
  BY <1>1 DEF EndOfJob
<1>3. AbsentBare(snap.entry)' /\ AbsentBare(entry)'
  BY <1>1, <1>2 DEF NoSnapshot, Absent, AbsentBare, RoundInv
<1>4. IdleClean' /\ TodoOfPhase' /\ WritesSettled' /\ EntriesKept'
  BY <1>1, <1>2 DEF EndOfJob, IdleClean, TodoOfPhase, WritesSettled, EntriesKept
<1> QED BY <1>1, <1>3, <1>4 DEF RoundInv, IdsOwned

LEMMA InitRound == Init => RoundInv
<1> SUFFICES ASSUME Init PROVE RoundInv
  OBVIOUS
<1>1. snap = NoSnapshot /\ phase = "idle" /\ \A h \in HW : write[h] = NoWrite
  BY DEF Init
<1>2. AbsentBare(snap.entry) /\ AbsentBare(entry)
  BY <1>1 DEF Init, NoSnapshot, Absent, AbsentBare
<1> QED
  BY <1>1, <1>2
  DEF Init, RoundInv, IdsOwned, IdleClean, TodoOfPhase, WritesSettled, EntriesKept

\* A step that changes nothing keeps what a round relies on.
LEMMA StutterRound ==
    ASSUME RoundInv, UNCHANGED vars
    PROVE  RoundInv'
BY DEF RoundInv, IdsOwned, IdleClean, TodoOfPhase, WritesSettled, AbsentBare, EntriesKept,
       Partition, vars, dbVars, requestVars, jobVars

LEMMA StepRound ==
    ASSUME TypeOK, Undisturbed, RoundInv, [Next]_vars
    PROVE  TypeOK' /\ RoundInv'
<1>1. TypeOK'
  BY ServiceType, EnvironmentType, UnchangedType DEF Next, vars, TypeOK
<1>2. RoundInv'
  BY StepKinds, JobStepRound, RequestRound, CrashRound, StutterRound
<1> QED BY <1>1, <1>2

\* A round that no unbinding and no deletion overlaps works on entries that are all
\* still there when it commits, whatever hooks, bindings, removed homeworks, lost
\* answers and crashes do meanwhile: no flush of such a round fails on an entry
\* (StaleDataError), and every event id it has read is the one of the table.
THEOREM RoundsKeepEntries == Spec /\ []Undisturbed => [](EntriesKept /\ ~EntryGone)
<1>1. Init => TypeOK /\ RoundInv
  BY InitType, InitRound
<1>2. Undisturbed /\ TypeOK /\ RoundInv /\ [Next]_vars => (TypeOK /\ RoundInv)'
  BY StepRound
<1>3. RoundInv => EntriesKept /\ ~EntryGone
  BY NoEntryGone DEF RoundInv
<1> QED BY <1>1, <1>2, <1>3, PTL DEF Spec

-------------------------------------------------------------------------------
(* Automatic unbinding.                                                    *)

\* The job is going to unbind a user only when Meet refuses the key that the round
\* has read for that user.
UnbindInv ==
    /\ toUnbind # {} => phase # "idle"
    /\ \A u \in toUnbind : snap.config[u] # NoKey /\ keyState[snap.config[u]] # "ok"

LEMMA GivesUpRefused ==
    ASSUME TypeOK, NEW h \in HW, GivesUpUser(h)
    PROVE  /\ Owner[h] \in Users /\ phase # "idle"
           /\ snap.config[Owner[h]] # NoKey /\ keyState[snap.config[Owner[h]]] # "ok"
BY OwnerAssumption DEF GivesUpUser, Calls, Refuses, KeyOf

\* No key that Meet refuses is accepted again.
LEMMA KeysStayRefused ==
    ASSUME TypeOK, [Next]_vars, NEW k \in Keys, keyState[k] # "ok"
    PROVE  keyState'[k] # "ok"
<1> USE DEF meetVars, MeetUpdate, MeetDelete
<1>1. ASSUME NEW h \in HW, ProcessEntry(h) \/ Fails(h) PROVE UNCHANGED keyState
  BY <1>1 DEF ProcessEntry, CleansUp, SettlesLocally, MarksDangling, PassesOver, GivesUpUser,
              PushRefused, Updates, Deletes, Pulls, Fails, HiddenEffect
<1>2. CASE StartJob \/ NextPhase \/ JobRollsBack \/ JobCommits \/ Crash
  BY <1>2 DEF StartJob, NextPhase, JobRollsBack, JobCommits, Crash
<1>3. ASSUME NEW u \in Users, UserDropsSchedule(u) PROVE keyState'[k] # "ok"
  BY <1>3 DEF UserDropsSchedule, TypeOK, MeetTypeOK
<1>4. ASSUME NEW r \in Keys, UserRevokesKey(r) PROVE keyState'[k] # "ok"
  BY <1>4 DEF UserRevokesKey, TypeOK, MeetTypeOK
<1>5. CASE UNCHANGED keyState
  BY <1>5
<1>6. CASE PushStep
  BY <1>6, PushSteps
<1> QED
  BY <1>1, <1>2, <1>3, <1>4, <1>5, <1>6, StepKinds, JobSteps
  DEF vars, RequestStep, HookDoneIdle, HookDoneMarks, HookDoneTimesOut, Complete,
      BindBackfill, UnbindRemote, UnbindRemoteFails, UnbindLocal, UnbindLocalTimesOut,
      LeaveStarts, LeaveCommits, LeaveTimesOut, BindConfig, HookNewHomeworks, RefreshFinds,
      RemoveHomeworks, UserEditsMeet, UserDeletesEvent

LEMMA RequestsKeepJob ==
    ASSUME RequestStep
    PROVE  UNCHANGED jobVars
BY DEF RequestStep, HookDoneIdle, HookDoneMarks, HookDoneTimesOut, Complete, BindBackfill,
       UnbindRemote, UnbindRemoteFails, UnbindLocal, UnbindLocalTimesOut, LeaveStarts,
       LeaveCommits, LeaveTimesOut, BindConfig, HookNewHomeworks, RefreshFinds,
       RemoveHomeworks, UserEditsMeet, UserDeletesEvent, UserDropsSchedule, UserRevokesKey

\* What a step may do to the set of users to unbind.
LEMMA ToUnbindSteps ==
    ASSUME TypeOK, UnbindInv, [Next]_vars
    PROVE  \/ toUnbind' = {}
           \/ /\ UNCHANGED snap /\ (phase # "idle" => phase' # "idle")
              /\ \/ UNCHANGED toUnbind
                 \/ \E h \in HW : GivesUpUser(h) /\ toUnbind' = toUnbind \cup {Owner[h]}
<1> USE DEF jobVars, vars
<1>1. ASSUME NEW h \in HW, ProcessEntry(h) \/ Fails(h)
      PROVE  UNCHANGED <<snap, phase>>
             /\ (UNCHANGED toUnbind
                 \/ (GivesUpUser(h) /\ toUnbind' = toUnbind \cup {Owner[h]}))
  BY <1>1 DEF ProcessEntry, CleansUp, SettlesLocally, MarksDangling, PassesOver, GivesUpUser,
              PushRefused, Updates, Deletes, Pulls, Fails
<1>2. CASE StartJob
  BY <1>2 DEF StartJob, UnbindInv
<1>3. CASE NextPhase
  BY <1>3, Ranks DEF NextPhase
<1>4. CASE JobRollsBack \/ JobCommits \/ Crash
  BY <1>4 DEF JobRollsBack, JobCommits, Crash, EndOfJob
<1>5. CASE UNCHANGED jobVars
  BY <1>5
<1>6. CASE PushStep
  BY <1>6, PushSteps
<1> QED
  BY <1>1, <1>2, <1>3, <1>4, <1>5, <1>6, StepKinds, JobSteps, RequestsKeepJob

LEMMA StepUnbind ==
    ASSUME TypeOK, UnbindInv, [Next]_vars
    PROVE  UnbindInv'
<1>1. ASSUME NEW u \in toUnbind, UNCHANGED snap
      PROVE  snap'.config[u] # NoKey /\ keyState'[snap'.config[u]] # "ok"
  BY <1>1, KeysStayRefused DEF UnbindInv, TypeOK, JobTypeOK, Snapshots
<1>2. ASSUME NEW h \in HW, GivesUpUser(h), UNCHANGED snap
      PROVE  snap'.config[Owner[h]] # NoKey /\ keyState'[snap'.config[Owner[h]]] # "ok"
  BY <1>2, GivesUpRefused, KeysStayRefused DEF TypeOK, JobTypeOK, Snapshots
<1> QED BY <1>1, <1>2, ToUnbindSteps, GivesUpRefused DEF UnbindInv

\* The users a round is going to unbind are those whose key, as the round has read it,
\* Meet refuses: no failed call, lost answer or deleted event adds a user, whatever
\* else happens meanwhile.
THEOREM OnlyRefusedGivenUp == Spec => []UnbindInv
<1>1. Init => TypeOK /\ UnbindInv
  BY InitType DEF Init, UnbindInv
<1>2. TypeOK /\ UnbindInv /\ [Next]_vars => (TypeOK /\ UnbindInv)'
  <2>1. TypeOK /\ [Next]_vars => TypeOK'
    BY ServiceType, EnvironmentType, UnchangedType DEF Next, vars, TypeOK
  <2> QED BY <2>1, StepUnbind
<1> QED BY <1>1, <1>2, PTL DEF Spec

\* The bindings a round has read are still the ones of the table.
KeysKept == phase # "idle" => \A u \in Users : snap.config[u] # NoKey => config[u] = snap.config[u]

LEMMA StepKeys ==
    ASSUME TypeOK, Undisturbed, RoundInv, KeysKept, [Next]_vars
    PROVE  KeysKept'
<1>1. CASE RequestStep
  BY <1>1, RequestsOutside DEF RoundInv, OutsideTheJob, KeysKept, jobVars
<1>2. ASSUME NEW h \in HW, ProcessEntry(h) \/ Fails(h)
      PROVE  KeysKept'
  BY <1>2, EntrySteps DEF JobAtEntry, JobAt, KeysKept, dbVars
<1>3. CASE StartJob \/ NextPhase
  BY <1>3 DEF StartJob, NextPhase, KeysKept, dbVars
<1>4. CASE JobRollsBack \/ JobCommits \/ Crash
  BY <1>4 DEF JobRollsBack, JobCommits, Crash, EndOfJob, KeysKept
<1>5. CASE UNCHANGED vars
  BY <1>5 DEF vars, dbVars, jobVars, KeysKept
<1>6. CASE PushStep
  BY <1>6, PushSteps DEF KeysKept, dbVars
<1> QED BY <1>1, <1>2, <1>3, <1>4, <1>5, <1>6, StepKinds, JobSteps

\* A step that undoes a binding nobody is undoing is the commit of a round that has
\* given up the user.
LEMMA WhoUnbinds ==
    ASSUME TypeOK, NEW u \in Users, [Next]_vars, config[u] # NoKey, config'[u] = NoKey,
           u \notin unbinding \cup leaving
    PROVE  u \in toUnbind
<1> USE DEF dbVars, TypeOK, DbTypeOK
<1>1. ASSUME NEW h \in HW, ProcessEntry(h) \/ Fails(h) PROVE UNCHANGED config
  BY <1>1, EntrySteps DEF JobAtEntry, JobAt
<1>2. CASE StartJob \/ NextPhase \/ JobRollsBack \/ Crash \/ UNCHANGED vars
  BY <1>2 DEF StartJob, NextPhase, JobRollsBack, Crash, vars
<1>3. CASE JobCommits
  BY <1>3 DEF JobCommits
<1>4. ASSUME NEW v \in Users,
             UnbindLocal(v) \/ UnbindLocalTimesOut(v) \/ LeaveCommits(v)
             \/ \E k \in Keys : BindConfig(v, k)
      PROVE  FALSE
  BY <1>4, NoValuesAssumption DEF UnbindLocal, UnbindLocalTimesOut, LeaveCommits, BindConfig
<1>5. CASE PushStep
  BY <1>5, PushSteps
<1> QED
  BY <1>1, <1>2, <1>3, <1>4, <1>5, StepKinds, JobSteps
  DEF RequestStep, HookDoneIdle, HookDoneMarks, HookDoneTimesOut, Complete,
      BindBackfill, UnbindRemote, UnbindRemoteFails, LeaveStarts, LeaveTimesOut,
      HookNewHomeworks, RefreshFinds, RemoveHomeworks, UserEditsMeet, UserDeletesEvent,
      UserDropsSchedule, UserRevokesKey

\* NoSpuriousUnbind, as long as no unbinding and no deletion overlaps a round: the
\* binding that the job deletes is the very one that Meet has refused.  (An unbinding
\* that overlaps may be followed by a new binding before the round commits, and the
\* round then deletes the new one.)
THEOREM WorkingBindingsStay == Spec /\ []Undisturbed => NoSpuriousUnbind
<1> DEFINE Kept == \A u \in Users :
               config[u] # NoKey /\ config'[u] = NoKey /\ u \notin unbinding \cup leaving
                   => keyState[config[u]] # "ok"
<1>1. Init => TypeOK /\ RoundInv /\ UnbindInv /\ KeysKept
  BY InitType, InitRound DEF Init, UnbindInv, KeysKept
<1>2. Undisturbed /\ TypeOK /\ RoundInv /\ UnbindInv /\ KeysKept /\ [Next]_vars
          => (TypeOK /\ RoundInv /\ UnbindInv /\ KeysKept)'
  BY StepRound, StepUnbind, StepKeys
<1>3. TypeOK /\ UnbindInv /\ KeysKept /\ [Next]_vars => [Kept]_vars
  BY WhoUnbinds DEF UnbindInv, KeysKept
<1>4. NoSpuriousUnbind <=> [][Kept]_vars
  BY DEF NoSpuriousUnbind
<1> QED BY <1>1, <1>2, <1>3, <1>4, PTL DEF Spec

-------------------------------------------------------------------------------
(* No homework is left untracked.  AllTracked fails when a hook or a       *)
(* backfill meets an entry that is there already (neither inserts          *)
(* anything then), and when a crash takes one with it.  Without these, the *)
(* invariant says which entries the job may drop: those of homeworks that  *)
(* are gone or cannot be mirrored, or of users without a binding, and what *)
(* a round has read of these two stays true until it commits.              *)

Orderly ==
    /\ Undisturbed
    /\ used["crash"] = 0
    /\ \A u \in binding :
          /\ HomeworksOf(u) \cap Tracked(entry) = {}
          /\ \A new \in found : new \cap HomeworksOf(u) = {}
    /\ \A new \in found : new \cap Tracked(entry) = {}

\* What a round has read as gone is gone.
GoneStaysGone ==
    phase # "idle" => \A h \in Tracked(snap.entry) :
        /\ snap.config[Owner[h]] = NoKey => config[Owner[h]] = NoKey
        /\ h \notin snap.rows => h \notin rows
        /\ snap.entry[h].status = "PENDING_DELETE" => h \notin rows

\* What a round is going to delete, or to have deleted, nobody misses.
Dispensable(h) == h \notin rows \ (Undated \cup Rejected) \/ config[Owner[h]] = NoKey

DropsJustified ==
    \A h \in HW :
        /\ write[h].delete => Dispensable(h)
        /\ write[h].status = "PENDING_DELETE" => h \notin rows
        /\ entry[h].status = "PENDING_DELETE" => h \notin rows

TrackInv == GoneStaysGone /\ DropsJustified /\ AllTracked

\* A homework that comes back and a user who binds again find no entry: what is
\* dispensable, or gone, stays so as long as there is an entry.
LEMMA TrackedStaysGone ==
    ASSUME TypeOK, Undisturbed, IdsOwned, Orderly', RequestStep, NEW h \in HW,
           h \in Tracked(entry)'
    PROVE  /\ h \notin rows => h \notin rows'
           /\ config[Owner[h]] = NoKey => config'[Owner[h]] = NoKey
<1> USE DEF dbVars, TypeOK, DbTypeOK
<1>1. ASSUME NEW u \in Users, NEW hs \in SUBSET HomeworksOf(u), RefreshFinds(u, hs)
      PROVE  h \notin hs /\ rows' = rows \cup hs /\ config' = config
  BY <1>1 DEF RefreshFinds, Orderly
<1>2. ASSUME NEW u \in Users, NEW k \in Keys, BindConfig(u, k)
      PROVE  Owner[h] # u /\ rows' = rows /\ config' = [config EXCEPT ![u] = k]
  BY <1>2 DEF BindConfig, Orderly, HomeworksOf
<1>3. ASSUME NEW u \in Users,
             UnbindLocal(u) \/ UnbindLocalTimesOut(u) \/ LeaveCommits(u)
             \/ \E hs \in SUBSET HomeworksOf(u) : RemoveHomeworks(u, hs)
      PROVE  rows' \subseteq rows /\ \A v \in Users : config'[v] \in {config[v], NoKey}
  BY <1>3 DEF UnbindLocal, UnbindLocalTimesOut, LeaveCommits, RemoveHomeworks
<1>4. CASE UNCHANGED <<rows, config>>
  BY <1>4
<1> QED
  BY <1>1, <1>2, <1>3, <1>4, OwnerAssumption
  DEF RequestStep, HookDoneIdle, HookDoneMarks, HookDoneTimesOut, Complete, BindBackfill,
      UnbindRemote, UnbindRemoteFails, LeaveStarts, LeaveTimesOut, HookNewHomeworks,
      UserEditsMeet, UserDeletesEvent, UserDropsSchedule, UserRevokesKey

LEMMA RequestKeepsDrops ==
    ASSUME TypeOK, Undisturbed, RoundInv, GoneStaysGone, DropsJustified, Orderly', RequestStep
    PROVE  GoneStaysGone' /\ DropsJustified'
<1>1. OutsideTheJob
  BY RequestsOutside DEF RoundInv
<1>2. UNCHANGED jobVars /\ \A h \in HW : EntryMoves(h)
  BY <1>1 DEF OutsideTheJob
<1>3. phase # "idle" => \A h \in Tracked(snap.entry) : h \in HW /\ h \in Tracked(entry)'
  BY <1>2 DEF RoundInv, EntriesKept, Tracked, EntryMoves, NewEntry
<1>4. GoneStaysGone'
  BY <1>2, <1>3, TrackedStaysGone DEF RoundInv, GoneStaysGone, jobVars
<1>5. \A h \in HW : write[h] # NoWrite => phase # "idle" /\ h \in Tracked(snap.entry)
  BY DEF RoundInv, WritesSettled, Tracked
<1>6. \A h \in HW : write[h].delete => Dispensable(h)'
  BY <1>3, <1>5, TrackedStaysGone, NoWriteMeans DEF RoundInv, DropsJustified, Dispensable
<1>7. \A h \in HW : write[h].status = "PENDING_DELETE" => h \notin rows'
  BY <1>3, <1>5, TrackedStaysGone, NoWriteMeans DEF RoundInv, DropsJustified
<1>8. \A h \in HW : entry'[h].status = "PENDING_DELETE" => h \notin rows'
  BY <1>2, TrackedStaysGone
  DEF RoundInv, DropsJustified, EntryMoves, NewEntry, Absent, Tracked
<1> QED BY <1>2, <1>4, <1>6, <1>7, <1>8 DEF DropsJustified, jobVars

\* The requests and hooks leave no homework of a bound user behind.
LEMMA RequestTracks ==
    ASSUME TypeOK, Undisturbed, RoundInv, AllTracked, Orderly, Orderly', RequestStep
    PROVE  AllTracked'
<1> USE OwnerAssumption DEF AllTracked, TypeOK, DbTypeOK, dbVars, requestVars
<1>1. \A h \in HW : EntryMoves(h)
  BY RequestsOutside DEF RoundInv, OutsideTheJob
<1>2. \A h \in HW : entry[h].status # "ABSENT" =>
          entry'[h].status # "ABSENT" \/ config'[Owner[h]] = NoKey
  BY <1>1 DEF EntryMoves, NewEntry
<1>3. CASE rows' \subseteq rows /\ UNCHANGED <<config, binding, found>> /\ unbinding \subseteq unbinding'
  BY <1>2, <1>3
<1>4. ASSUME NEW u \in Users, BindBackfill(u)
      PROVE  AllTracked'
  <2>1. entry' = [h \in HW |-> IF h \in rows \cap HomeworksOf(u) THEN NewEntry ELSE entry[h]]
    BY <1>4 DEF BindBackfill, Orderly
  <2>2. \A h \in rows : Owner[h] = u => entry'[h].status # "ABSENT"
    BY <2>1 DEF HomeworksOf, NewEntry
  <2> QED BY <1>2, <1>4, <2>2 DEF BindBackfill
<1>5. ASSUME NEW u \in Users, UnbindLocal(u) \/ UnbindLocalTimesOut(u) \/ LeaveCommits(u)
      PROVE  AllTracked'
  <2>1. config' = [config EXCEPT ![u] = NoKey] /\ rows' \subseteq rows
    BY <1>5 DEF UnbindLocal, UnbindLocalTimesOut, LeaveCommits
  <2>2. UNCHANGED <<binding, found>> /\ unbinding \ {u} \subseteq unbinding'
    BY <1>5 DEF UnbindLocal, UnbindLocalTimesOut, LeaveCommits
  <2> QED BY <1>2, <2>1, <2>2
<1>6. ASSUME NEW u \in Users, NEW k \in Keys, BindConfig(u, k)
      PROVE  AllTracked'
  BY <1>2, <1>6 DEF BindConfig
<1>7. ASSUME NEW u \in Users, NEW new \in SUBSET HomeworksOf(u), HookNewHomeworks(u, new)
      PROVE  AllTracked'
  <2>1. new \cap Tracked(entry) = {}
    BY <1>7 DEF HookNewHomeworks, Orderly
  <2>2. \A h \in new : h \in HW /\ Owner[h] = u
    BY DEF HomeworksOf
  <2>3. \A h \in new : config'[Owner[h]] = NoKey \/ entry'[h].status # "ABSENT"
    BY <1>7, <2>1, <2>2 DEF HookNewHomeworks, NewEntry
  <2>4. rows' = rows /\ found' = found \ {new} /\ UNCHANGED <<config, binding, unbinding>>
    BY <1>7 DEF HookNewHomeworks
  <2> QED BY <1>2, <2>3, <2>4
<1>8. ASSUME NEW u \in Users, NEW hs \in SUBSET HomeworksOf(u), RefreshFinds(u, hs)
      PROVE  AllTracked'
  <2>1. rows' = rows \cup hs /\ found' = found \cup {hs} /\ UNCHANGED <<config, binding, unbinding>>
    BY <1>8 DEF RefreshFinds
  <2> QED BY <1>2, <2>1
<1> QED
  BY <1>3, <1>4, <1>5, <1>6, <1>7, <1>8
  DEF RequestStep, HookDoneIdle, HookDoneMarks, HookDoneTimesOut, Complete, UnbindRemote,
      UnbindRemoteFails, LeaveStarts, LeaveTimesOut, RemoveHomeworks, UserEditsMeet,
      UserDeletesEvent, UserDropsSchedule, UserRevokesKey

\* What an outcome may do, by phase and result.
LEMMA OutcomeDrops ==
    ASSUME NEW ev
    PROVE  /\ \A p \in Phases, r \in Results : WriteOf(p, r, ev).status # "PENDING_DELETE"
           /\ \A p \in Phases : ~WriteOf(p, "TRANSIENT", ev).delete
           /\ \A p \in {"PUSH", "UPDATE", "PULL"} : ~WriteOf(p, "OK", ev).delete
           /\ \A p \in {"UPDATE", "PULL"} : ~WriteOf(p, "MISSING", ev).delete
<1> USE DEF WriteOf, Transition, PushTransition, UpdateTransition, DeleteTransition,
            PullTransition, MoveTo, DropTracking, KeepAndRetry, SourceStatus
<1>1. ASSUME NEW p \in Phases, NEW r \in Results
      PROVE  Transition(p, r).status # "PENDING_DELETE"
  BY DEF Phases, Results
<1>2. ASSUME NEW p \in Phases
      PROVE  ~Transition(p, "TRANSIENT").delete
  BY DEF Phases
<1> QED BY <1>1, <1>2

\* A step of the job keeps TrackInv when what it writes is justified.
LEMMA WorkTracks ==
    ASSUME TypeOK, TrackInv, NEW hs, JobAt(hs),
           \A h \in hs : write'[h].delete => Dispensable(h),
           \A h \in hs : write'[h].status = "PENDING_DELETE" => h \notin rows
    PROVE  TrackInv'
<1> USE DEF JobAt, dbVars, requestVars
<1>1. GoneStaysGone'
  BY DEF TrackInv, GoneStaysGone, Tracked
<1>2. DropsJustified'
  BY NoWriteMeans DEF TrackInv, DropsJustified, Dispensable
<1>3. AllTracked'
  BY DEF TrackInv, AllTracked
<1> QED BY <1>1, <1>2, <1>3 DEF TrackInv

LEMMA EntryStepTracks ==
    ASSUME TypeOK, TrackInv, NEW h \in HW, JobAtEntry(h),
           write'[h].delete => Dispensable(h),
           write'[h].status = "PENDING_DELETE" => h \notin rows
    PROVE  TrackInv'
BY WorkTracks DEF JobAtEntry

\* Nothing a batch leaves to write deletes an entry.
LEMMA PushTracks ==
    ASSUME TypeOK, TrackInv, PushStep
    PROVE  TrackInv'
<1>1. PICK batch, answer : /\ Range(batch) \subseteq HW /\ JobAt(Range(batch))
                           /\ BatchOutcome(batch, answer)
  BY PushSteps
<1>2. phase = "PUSH" /\ "PUSH" \in Phases /\ "OK" \in Results /\ "TRANSIENT" \in Results
  BY PushSteps DEF Results
<1>3. ASSUME NEW h \in Range(batch)
      PROVE  ~write'[h].delete /\ write'[h].status # "PENDING_DELETE"
  <2>1. \A ev : /\ ~WriteOf("PUSH", "TRANSIENT", ev).delete /\ ~WriteOf("PUSH", "OK", ev).delete
                /\ WriteOf("PUSH", "TRANSIENT", ev).status # "PENDING_DELETE"
                /\ WriteOf("PUSH", "OK", ev).status # "PENDING_DELETE"
    BY <1>2, OutcomeDrops
  <2>2. h \in HW
    BY <1>1
  <2>3. \E ev : write'[h] \in {WriteOf("PUSH", "TRANSIENT", ev), WriteOf("PUSH", "OK", ev)}
    BY <1>1, <1>2, <2>2, BatchWrites
  <2> QED BY <2>1, <2>3
<1> QED BY <1>1, <1>3, WorkTracks

LEMMA ProcessTracks ==
    ASSUME TypeOK, RoundInv, TrackInv, NEW h \in HW, ProcessEntry(h) \/ Fails(h)
    PROVE  TrackInv'
<1>1. JobAtEntry(h)
  BY EntrySteps
<1>2. h \in todo /\ phase \in Phases /\ phase # "idle" /\ snap.entry[h].status = SourceStatus(phase)
  BY <1>1 DEF JobAtEntry, RoundInv, IdleClean, TodoOfPhase, Partition, TypeOK, JobTypeOK
<1>3. /\ snap.config[Owner[h]] = NoKey => config[Owner[h]] = NoKey
      /\ h \notin snap.rows => h \notin rows
      /\ phase = "DELETE" => h \notin rows
  BY <1>2, Ranks DEF TrackInv, GoneStaysGone, Tracked, SourceStatus
<1>4. write[h] = NoWrite
  BY <1>2 DEF RoundInv, WritesSettled
<1>5. ASSUME NEW r \in Results, NEW ev, NEW mark, Outcome(h, r, ev, mark),
             WriteOf(phase, r, ev).delete => Dispensable(h)
      PROVE  TrackInv'
  <2>1. write'[h] = WriteOf(phase, r, ev)
    BY <1>5 DEF Outcome, TypeOK, JobTypeOK
  <2> QED BY <1>1, <1>2, <1>5, <2>1, OutcomeDrops, EntryStepTracks
<1>6. CASE CleansUp(h)
  <2>1. write'[h] = DeleteRow /\ Dispensable(h)
    BY <1>3, <1>6 DEF CleansUp, KeyOf, Dispensable, TypeOK, JobTypeOK
  <2> QED BY <1>1, <2>1, EntryStepTracks DEF DeleteRow, NoWrite
<1>7. CASE SettlesLocally(h)
  <2>1. LocalResult(h) \in Results /\ Outcome(h, LocalResult(h), NoEvent, "keep")
    BY <1>2, <1>7 DEF SettlesLocally, LocalResult, Phases, Results
  <2>2. CASE LocalResult(h) = "PERMANENT"
    BY <1>2, <1>3, <1>5, <2>1, <2>2 DEF LocalResult, Phases, Dispensable
  <2>3. CASE LocalResult(h) = "MISSING"
    <3>1. phase = "UPDATE"
      BY <1>2, <2>3 DEF LocalResult, Phases
    <3> QED BY <1>5, <2>1, <2>3, <3>1, OutcomeDrops
  <2>4. CASE LocalResult(h) = "OK"
    BY <1>2, <1>3, <1>5, <2>1, <2>4 DEF LocalResult, Phases, Dispensable
  <2> QED BY <1>2, <1>7, <2>1, <2>2, <2>3, <2>4 DEF SettlesLocally, LocalResult, Phases
<1>8. CASE MarksDangling(h)
  <2>1. write'[h] = SetStatus("PENDING_DELETE") /\ h \notin rows
    BY <1>3, <1>8 DEF MarksDangling, TypeOK, JobTypeOK
  <2> QED BY <1>1, <2>1, EntryStepTracks DEF SetStatus, NoWrite
<1>9. CASE PassesOver(h) \/ GivesUpUser(h)
  <2>1. write'[h] = NoWrite
    BY <1>4, <1>9 DEF PassesOver, GivesUpUser
  <2> QED BY <1>1, <2>1, EntryStepTracks, NoWriteMeans
<1>10. CASE PushRefused(h)
  BY <1>5, <1>10 DEF PushRefused, Results, Dispensable
<1>11. CASE Updates(h) \/ Pulls(h)
  BY <1>5, <1>11, OutcomeDrops DEF Updates, Pulls, Results
<1>12. CASE Deletes(h)
  BY <1>3, <1>5, <1>12 DEF Deletes, Results, Dispensable
<1>13. CASE Fails(h)
  BY <1>2, <1>5, <1>13, OutcomeDrops DEF Fails, Results
<1> QED
  BY <1>6, <1>7, <1>8, <1>9, <1>10, <1>11, <1>12, <1>13 DEF ProcessEntry

LEMMA CommitTracks ==
    ASSUME TypeOK, RoundInv, TrackInv, JobCommits
    PROVE  TrackInv'
<1>1. EndOfJob /\ UNCHANGED <<rows, requestVars>>
  BY DEF JobCommits
<1>2. phase' = "idle" /\ \A h \in HW : write'[h] = NoWrite
  BY <1>1 DEF EndOfJob
<1>3. \A u \in Users : config[u] = NoKey \/ u \in toUnbind => config'[u] = NoKey
  BY DEF JobCommits
<1>4. ASSUME NEW h \in HW
      PROVE  /\ entry'[h].status = "PENDING_DELETE" => h \notin rows
             /\ entry[h].status # "ABSENT" /\ entry'[h].status = "ABSENT"
                    => h \notin rows \ (Undated \cup Rejected) \/ config'[Owner[h]] = NoKey
  <2>1. write[h] \in Writes /\ Owner[h] \in Users
    BY OwnerAssumption DEF TypeOK, JobTypeOK
  <2>2. CASE Owner[h] \in toUnbind /\ h \in Tracked(snap.entry)
    BY <1>3, <2>1, <2>2 DEF JobCommits, Absent
  <2>3. CASE entry'[h] = Written(write[h], entry[h]) /\ write[h].delete
    BY <1>3, <2>1, <2>3 DEF TrackInv, DropsJustified, Dispensable, Written, Absent
  <2>4. CASE entry'[h] = Written(write[h], entry[h]) /\ ~write[h].delete
    <3>1. entry'[h].status = IF write[h].status = "keep" THEN entry[h].status ELSE write[h].status
      BY <2>4 DEF Written
    <3> QED BY <2>1, <3>1 DEF TrackInv, DropsJustified, Writes, Statuses
  <2> QED BY <2>2, <2>3, <2>4 DEF JobCommits
<1>5. GoneStaysGone' /\ DropsJustified'
  BY <1>1, <1>2, <1>4, NoWriteMeans DEF GoneStaysGone, DropsJustified
<1>6. AllTracked'
  BY <1>1, <1>3, <1>4, OwnerAssumption
  DEF TrackInv, AllTracked, requestVars, TypeOK, DbTypeOK
<1> QED BY <1>5, <1>6 DEF TrackInv

LEMMA JobTracks ==
    ASSUME TypeOK, RoundInv, TrackInv, JobStep \/ PushStep \/ \E h \in HW : Fails(h)
    PROVE  TrackInv'
<1> USE DEF dbVars, requestVars
<1>1. ASSUME NEW h \in HW, ProcessEntry(h) \/ Fails(h)
      PROVE  TrackInv'
  BY <1>1, ProcessTracks
<1>2. CASE StartJob
  <2>1. \A h \in HW : write'[h] = NoWrite
    BY <1>2 DEF StartJob, RoundInv, WritesSettled
  <2>2. snap'.rows = rows /\ snap'.entry = entry /\ snap'.config = config
    BY <1>2 DEF StartJob
  <2>3. GoneStaysGone'
    BY <1>2, <2>2 DEF StartJob, TrackInv, GoneStaysGone, DropsJustified, Tracked
  <2> QED
    BY <1>2, <2>1, <2>3, NoWriteMeans
    DEF StartJob, TrackInv, DropsJustified, AllTracked
<1>3. CASE NextPhase
  BY <1>3 DEF NextPhase, TrackInv, GoneStaysGone, DropsJustified, Dispensable, AllTracked, Tracked
<1>4. CASE JobRollsBack
  <2>1. phase' = "idle" /\ \A h \in HW : write'[h] = NoWrite
    BY <1>4 DEF JobRollsBack, EndOfJob
  <2> QED
    BY <1>4, <2>1, NoWriteMeans DEF JobRollsBack, TrackInv, GoneStaysGone, DropsJustified, AllTracked
<1>5. CASE JobCommits
  BY <1>5, CommitTracks
<1>6. CASE PushStep
  BY <1>6, PushTracks
<1> QED BY <1>1, <1>2, <1>3, <1>4, <1>5, <1>6, JobSteps

\* AllTracked for every instance, as long as the requests are orderly: the homeworks
\* of a bound user that can be mirrored are all tracked, through failed calls, refused
\* keys, automatic unbindings, homeworks that are removed, and hooks, new bindings and
\* removals in the middle of a round.
THEOREM HomeworksTracked == Spec /\ []Orderly => []AllTracked
<1>1. Init => TypeOK /\ RoundInv /\ TrackInv
  <2> SUFFICES ASSUME Init PROVE TrackInv
    BY InitType, InitRound
  <2> QED
    BY OwnerAssumption, NoWriteMeans
    DEF Init, TrackInv, GoneStaysGone, DropsJustified, AllTracked, Absent
<1>2. /\ Orderly /\ Orderly' /\ TypeOK /\ RoundInv /\ TrackInv /\ [Next]_vars
      => (TypeOK /\ RoundInv /\ TrackInv)'
  <2> SUFFICES ASSUME Orderly, Orderly', TypeOK, RoundInv, TrackInv, [Next]_vars
               PROVE  TrackInv'
    BY StepRound DEF Orderly
  <2>1. Undisturbed
    BY DEF Orderly
  <2>2. CASE RequestStep
    BY <2>1, <2>2, RequestKeepsDrops, RequestTracks DEF TrackInv
  <2>3. CASE JobStep \/ PushStep \/ \E h \in HW : Fails(h)
    BY <2>3, JobTracks
  <2>4. CASE Crash
    BY <2>4 DEF Crash, Spend, Orderly, TypeOK, Kinds
  <2>5. CASE UNCHANGED vars
    BY <2>5 DEF vars, dbVars, requestVars, jobVars, TrackInv, GoneStaysGone, DropsJustified,
                Dispensable, AllTracked, Tracked
  <2> QED BY <2>2, <2>3, <2>4, <2>5, StepKinds
<1>3. TrackInv => AllTracked
  BY DEF TrackInv
<1> QED BY <1>1, <1>2, <1>3, PTL DEF Spec

-------------------------------------------------------------------------------
(* No event is forgotten in Meet.  An event is claimed when its homework   *)
(* is known, and its owner bound and not about to be unbound.  A round     *)
(* that rolls back forgets the events it has created: no lost answer and   *)
(* no crash, no unbinding over a round, and no homework removed while the  *)
(* round has a mark for it (Quiet).  And what was not claimed does not     *)
(* become claimed: a homework that comes back and a user who binds again   *)
(* have no event of before left in Meet (Tidy).                            *)

Quiet == Undisturbed /\ ~HomeworkGone /\ used["fault"] + used["crash"] = 0

Tidy ==
    /\ \A h \in rows' \ rows : \A ev \in live : evHw[ev] # h
    /\ \A u \in Users : config[u] = NoKey /\ config'[u] # NoKey
           => \A ev \in live : evHw[ev] \notin HomeworksOf(u)

Claimed(ev) ==
    evHw[ev] \in rows /\ config[Owner[evHw[ev]]] # NoKey /\ Owner[evHw[ev]] \notin toUnbind

LiveHaveHomework == \A ev \in live : evHw[ev] \in HW

\* The event of a claimed homework is named by its entry or by what the round writes.
ClaimedNamed ==
    \A ev \in live : Claimed(ev) =>
        entry[evHw[ev]].event = ev \/ write[evHw[ev]].event = ev

\* An entry that waits for its event to be created has none that is still alive, in
\* the table, in the snapshot and in what the round writes.
PendingDead ==
    \A h \in HW :
        /\ entry[h].status = "PENDING" => entry[h].event \notin live
        /\ snap.entry[h].status = "PENDING" => snap.entry[h].event \notin live
        /\ write[h].status = "PENDING" => snap.entry[h].event \notin live
        /\ write[h].event # NoEvent =>
              write[h].status = "SUCCESS" /\ snap.entry[h].event \notin live

\* A round deletes no entry of a claimed event.
DropsUnclaimed ==
    \A ev \in live : Claimed(ev) => ~write[evHw[ev]].delete

\* What a round has read as gone is gone, of the homeworks that have an event.
UnclaimedStays ==
    phase # "idle" => \A ev \in live :
        /\ evHw[ev] \notin snap.rows => evHw[ev] \notin rows
        /\ snap.config[Owner[evHw[ev]]] = NoKey => config[Owner[evHw[ev]]] = NoKey

StrayInv ==
    LiveHaveHomework /\ ClaimedNamed /\ PendingDead /\ DropsUnclaimed /\ UnclaimedStays

\* The steps outside the job create no event and make no event claimed.
LEMMA RequestStray ==
    ASSUME TypeOK, Undisturbed, RoundInv, StrayInv, Tidy, RequestStep
    PROVE  StrayInv'
<1>1. OutsideTheJob
  BY RequestsOutside DEF RoundInv
<1>2. UNCHANGED jobVars /\ live' \subseteq live /\ evHw' = evHw /\ \A h \in HW : EntryMoves(h)
  BY <1>1 DEF OutsideTheJob
<1>3. live \subseteq Events /\ NoEvent \notin live
  BY NoEventAssumption DEF TypeOK, MeetTypeOK
<1>4. \A ev \in live' : /\ evHw[ev] \in HW /\ Owner[evHw[ev]] \in Users
                        /\ evHw[ev] \in rows' => evHw[ev] \in rows
                        /\ config[Owner[evHw[ev]]] = NoKey => config'[Owner[evHw[ev]]] = NoKey
  BY <1>2, OwnerAssumption DEF StrayInv, LiveHaveHomework, Tidy, HomeworksOf
<1>5. \A ev \in live' : Claimed(ev)' => Claimed(ev)
  BY <1>2, <1>4 DEF Claimed, jobVars
<1>6. ClaimedNamed'
  <2> SUFFICES ASSUME NEW ev \in live', Claimed(ev)', entry[evHw[ev]].event = ev
               PROVE  entry'[evHw[ev]].event = ev
    BY <1>2, <1>5 DEF StrayInv, ClaimedNamed, jobVars
  <2>1. evHw[ev] \in HW /\ config'[Owner[evHw[ev]]] # NoKey /\ ev # NoEvent
    BY <1>2, <1>3, <1>4 DEF Claimed
  <2> QED BY <1>2, <2>1 DEF EntryMoves, RoundInv, AbsentBare
<1>7. PendingDead'
  <2>1. \A h \in HW : entry'[h].status = "PENDING" => entry'[h].event \notin live
    BY <1>2, <1>3 DEF StrayInv, PendingDead, EntryMoves, NewEntry, Absent
  <2> QED BY <1>2, <2>1 DEF StrayInv, PendingDead, jobVars
<1>8. DropsUnclaimed'
  BY <1>2, <1>5 DEF StrayInv, DropsUnclaimed, jobVars
<1>9. UnclaimedStays'
  BY <1>2, <1>4 DEF StrayInv, UnclaimedStays, jobVars
<1>10. LiveHaveHomework'
  BY <1>2 DEF StrayInv, LiveHaveHomework
<1> QED BY <1>6, <1>7, <1>8, <1>9, <1>10 DEF StrayInv

\* A step of the job at one entry that creates no event: what it writes must not
\* break what is said of pending and of claimed events.
LEMMA EntryStepStray ==
    ASSUME TypeOK, RoundInv, StrayInv, NEW h \in HW, JobAtEntry(h), UNCHANGED toUnbind,
           live' \subseteq live, evHw' = evHw,
           \A x \in HW \ {h} : write'[x] = write[x],
           write'[h].event = NoEvent,
           write'[h].status = "PENDING" => snap.entry[h].event \notin live',
           write'[h].delete => \A ev \in live' : evHw[ev] = h => ~Claimed(ev)
    PROVE  StrayInv'
<1> USE DEF JobAtEntry, JobAt, dbVars, requestVars
<1>1. \A ev : Claimed(ev)' <=> Claimed(ev)
  BY DEF Claimed
<1>2. NoEvent \notin live
  BY NoEventAssumption DEF TypeOK, MeetTypeOK
<1>3. write[h] = NoWrite
  BY DEF RoundInv, WritesSettled
<1>4. ClaimedNamed'
  BY <1>1, <1>2, <1>3, NoWriteMeans DEF StrayInv, LiveHaveHomework, ClaimedNamed
<1>5. PendingDead'
  BY DEF StrayInv, PendingDead
<1>6. DropsUnclaimed'
  BY <1>1 DEF StrayInv, LiveHaveHomework, DropsUnclaimed
<1>7. UnclaimedStays' /\ LiveHaveHomework'
  BY DEF StrayInv, UnclaimedStays, LiveHaveHomework
<1> QED BY <1>4, <1>5, <1>6, <1>7 DEF StrayInv

\* The outcomes that give an entry no event, and no status of PENDING.
LEMMA OutcomeEvents ==
    ASSUME NEW ev
    PROVE  /\ \A p \in Phases, r \in Results : WriteOf(p, r, NoEvent).event = NoEvent
           /\ \A p \in Phases : WriteOf(p, "OK", ev).status # "PENDING"
           /\ \A p \in Phases : WriteOf(p, "PERMANENT", ev).status # "PENDING"
<1> USE DEF WriteOf, Transition, PushTransition, UpdateTransition, DeleteTransition,
            PullTransition, MoveTo, DropTracking, KeepAndRetry, SourceStatus
<1>1. \A p \in Phases, r \in Results : WriteOf(p, r, NoEvent).event = NoEvent
  BY DEF WriteOf
<1>2. \A p \in Phases : WriteOf(p, "OK", ev).status # "PENDING"
  BY DEF Phases
<1>3. \A p \in Phases : WriteOf(p, "PERMANENT", ev).status # "PENDING"
  BY DEF Phases
<1> QED BY <1>1, <1>2, <1>3

\* An outcome of a round that creates no event.
LEMMA OutcomeStray ==
    ASSUME TypeOK, RoundInv, StrayInv, NEW h \in HW, JobAtEntry(h), UNCHANGED toUnbind,
           live' \subseteq live, evHw' = evHw, phase \in Phases,
           NEW r \in Results, NEW mark, Outcome(h, r, NoEvent, mark),
           r \in {"MISSING", "TRANSIENT"} => snap.entry[h].event \notin live',
           WriteOf(phase, r, NoEvent).delete =>
               \A ev \in live' : evHw[ev] = h => ~Claimed(ev)
    PROVE  StrayInv'
<1>1. /\ write'[h] = WriteOf(phase, r, NoEvent)
      /\ \A x \in HW \ {h} : write'[x] = write[x]
  BY DEF Outcome, TypeOK, JobTypeOK
<1>2. r \in {"MISSING", "TRANSIENT"} \/ WriteOf(phase, r, NoEvent).status # "PENDING"
  BY OutcomeEvents DEF Results
<1> QED BY <1>1, <1>2, OutcomeEvents, EntryStepStray

\* Before an entry is processed, the only claimed event its homework can have is the
\* one of the snapshot.
LEMMA EventOfSnapshot ==
    ASSUME TypeOK, RoundInv, StrayInv, NEW h \in todo, NEW ev \in live,
           evHw[ev] = h, Claimed(ev)
    PROVE  snap.entry[h].event = ev
<1>1. h \in HW /\ phase # "idle" /\ write[h] = NoWrite
  BY DEF TypeOK, JobTypeOK, RoundInv, IdleClean, WritesSettled
<1>2. ev # NoEvent
  BY NoEventAssumption DEF TypeOK, MeetTypeOK
<1> QED
  BY <1>1, <1>2, NoWriteMeans DEF StrayInv, ClaimedNamed, RoundInv, EntriesKept

\* The round that gives up a user drops what it was to write of that user, whose
\* events are not claimed any more.
LEMMA GivesUpStray ==
    ASSUME TypeOK, RoundInv, StrayInv, NEW h \in HW, GivesUpUser(h)
    PROVE  StrayInv'
<1>1. /\ UNCHANGED <<dbVars, meetVars, phase, snap>>
      /\ toUnbind' = toUnbind \cup {Owner[h]}
      /\ \A x \in HW : write'[x] = write[x] \/ (write'[x] = NoWrite /\ Owner[x] = Owner[h])
  BY DEF GivesUpUser, Partition
<1>2. \A ev \in live : Claimed(ev)' => Claimed(ev) /\ evHw[ev] \in HW /\ Owner[evHw[ev]] # Owner[h]
  BY <1>1 DEF Claimed, dbVars, meetVars, StrayInv, LiveHaveHomework
<1>3. ClaimedNamed' /\ DropsUnclaimed'
  BY <1>1, <1>2 DEF StrayInv, ClaimedNamed, DropsUnclaimed, dbVars, meetVars
<1>4. PendingDead'
  BY <1>1, NoWriteMeans DEF StrayInv, PendingDead, dbVars, meetVars
<1>5. UnclaimedStays' /\ LiveHaveHomework'
  BY <1>1 DEF StrayInv, UnclaimedStays, LiveHaveHomework, dbVars, meetVars
<1> QED BY <1>3, <1>4, <1>5 DEF StrayInv

LEMMA CreatedWrite ==
    ASSUME NEW ev
    PROVE  WriteOf("PUSH", "OK", ev) = [delete |-> FALSE, status |-> "SUCCESS", event |-> ev]
BY DEF WriteOf, Transition, PushTransition, MoveTo, KeepAndRetry, SourceStatus

\* What a batch that is accepted does: each of its homeworks is to be given an event
\* of its own, created for it and never held before.
LEMMA CreationWrites ==
    ASSUME TypeOK, NEW u, NEW batch, PushesBatch(u, batch)
    PROVE  /\ Range(batch) \subseteq HW
           /\ \A h \in Range(batch) :
                 /\ h \in todo /\ h \in snap.rows /\ snap.config[Owner[h]] # NoKey
                 /\ write'[h].event \in Range(FreshEvents(batch))
                 /\ write'[h].status = "SUCCESS" /\ ~write'[h].delete
           /\ \A ev \in Range(FreshEvents(batch)) :
                 evHw'[ev] \in Range(batch) /\ write'[evHw'[ev]].event = ev
           /\ \A x \in HW \ Range(batch) : write'[x] = write[x]
<1> DEFINE ids == FreshEvents(batch)
<1>1. /\ batch \in Batches(Bundle(u) \ Rejected) /\ MeetCreate(batch, snap.done)
      /\ BatchOutcome(batch, ids)
  BY DEF PushesBatch
<1>2. /\ phase = "PUSH" /\ phase \in Phases /\ batch \in Batches(HW)
      /\ Range(batch) \subseteq Bundle(u) /\ Range(batch) \subseteq HW
  BY <1>1, BundleBatch, BatchType
<1>3. /\ DOMAIN batch = 1..Len(batch) /\ Len(batch) \in Nat /\ IsInjective(batch)
      /\ \A i \in DOMAIN batch : batch[i] \in Range(batch)
  BY <1>2, BatchType DEF Range
<1>4. Len(ids) = Len(batch) /\ DOMAIN ids = DOMAIN batch
  <2>1. DOMAIN ids = 1..Len(batch) /\ ids \in [1..Len(batch) -> Events]
    BY <1>1, <1>3, FreshEventsFunction
  <2> QED BY <1>3, <2>1
<1>5. \A i \in DOMAIN batch : evHw'[ids[i]] = batch[i] /\ ids[i] \in Range(ids)
  BY <1>1, <1>2, <1>4, MeetCreateOrigin DEF TypeOK, Range
<1>6. ASSUME NEW i \in DOMAIN batch
      PROVE  write'[batch[i]] = [delete |-> FALSE, status |-> "SUCCESS", event |-> ids[i]]
  <2>1. PICK j \in DOMAIN batch :
          batch[j] = batch[i] /\ write'[batch[i]] = WriteOf("PUSH", "OK", ids[j])
    BY <1>1, <1>2, <1>3, <1>4, BatchWrites
  <2>2. j = i
    BY <1>3, <2>1 DEF IsInjective
  <2> QED BY <2>1, <2>2, CreatedWrite
<1>7. \A h \in Range(batch) : h \in todo /\ h \in snap.rows /\ snap.config[Owner[h]] # NoKey
  BY <1>2 DEF Bundle, Calls, LocalResult, KeyOf
<1>8. ASSUME NEW h \in Range(batch)
      PROVE  /\ write'[h].event \in Range(ids)
             /\ write'[h].status = "SUCCESS" /\ ~write'[h].delete
  <2>1. PICK i \in DOMAIN batch : batch[i] = h
    BY DEF Range
  <2>2. write'[h] = [delete |-> FALSE, status |-> "SUCCESS", event |-> ids[i]]
    BY <1>6, <2>1
  <2>3. ids[i] \in Range(ids)
    BY <1>5, <2>1
  <2> QED BY <2>2, <2>3
<1>9. ASSUME NEW ev \in Range(ids)
      PROVE  evHw'[ev] \in Range(batch) /\ write'[evHw'[ev]].event = ev
  <2>1. PICK i \in DOMAIN batch : ids[i] = ev
    BY <1>4 DEF Range
  <2>2. evHw'[ev] = batch[i] /\ batch[i] \in Range(batch)
    BY <1>3, <1>5, <2>1
  <2>3. write'[batch[i]] = [delete |-> FALSE, status |-> "SUCCESS", event |-> ids[i]]
    BY <1>6, <2>1
  <2> QED BY <2>1, <2>2, <2>3
<1>10. \A x \in HW \ Range(batch) : write'[x] = write[x]
  BY <1>1 DEF BatchOutcome
<1> QED BY <1>2, <1>7, <1>8, <1>9, <1>10

\* The created events are claimed by the entries they were created for, and nothing
\* else holds their ids.
LEMMA CreationStray ==
    ASSUME TypeOK, EventBelongs, RoundInv, StrayInv, NEW u, NEW batch, PushesBatch(u, batch)
    PROVE  StrayInv'
<1> DEFINE new == Range(FreshEvents(batch))
<1>1. /\ batch \in Batches(Bundle(u) \ Rejected) /\ MeetCreate(batch, snap.done)
      /\ UNCHANGED <<dbVars, phase, snap, toUnbind>>
  BY DEF PushesBatch
<1>2. phase = "PUSH" /\ batch \in Batches(HW)
  BY <1>1, BundleBatch
<1>3. /\ new \subseteq Events /\ \A ev \in new : evHw[ev] = NoHW
      /\ live' = live \cup new /\ NoEvent \notin new
      /\ \A ev \in Events \ new : evHw'[ev] = evHw[ev]
  BY <1>1, <1>2, FreshEventsType, MeetCreateOrigin, NoEventAssumption DEF MeetCreate, TypeOK
<1>4. \A ev \in live : ev \notin new /\ ev \in Events /\ evHw'[ev] = evHw[ev] /\ evHw[ev] \in HW
  BY <1>3, NoValuesAssumption DEF TypeOK, MeetTypeOK, StrayInv, LiveHaveHomework
<1>5. \A x \in HW : entry[x].event \notin new /\ snap.entry[x].event \notin new
  BY <1>3, NoValuesAssumption DEF EventBelongs, Held
<1>6. /\ Range(batch) \subseteq HW
      /\ \A h \in Range(batch) :
            /\ h \in todo /\ h \in snap.rows /\ snap.config[Owner[h]] # NoKey
            /\ write'[h].event \in new
            /\ write'[h].status = "SUCCESS" /\ ~write'[h].delete
      /\ \A ev \in new : evHw'[ev] \in Range(batch) /\ write'[evHw'[ev]].event = ev
      /\ \A x \in HW \ Range(batch) : write'[x] = write[x]
  BY CreationWrites
<1>7. \A h \in Range(batch) :
          snap.entry[h].status = "PENDING" /\ snap.entry[h].event \notin live
  BY <1>2, <1>6 DEF RoundInv, TodoOfPhase, Partition, SourceStatus, StrayInv, PendingDead
<1>8. \A ev \in live : Claimed(ev)' => Claimed(ev) /\ evHw[ev] \notin Range(batch)
  BY <1>1, <1>4, <1>6, <1>7, EventOfSnapshot DEF Claimed, dbVars
<1>9. ClaimedNamed'
  BY <1>1, <1>3, <1>4, <1>6, <1>8 DEF StrayInv, ClaimedNamed, dbVars
<1>10. PendingDead'
  <2>1. \A x \in HW : /\ entry'[x] = entry[x] /\ snap'.entry[x] = snap.entry[x]
                      /\ entry[x].event \notin live' \ live
                      /\ snap.entry[x].event \notin live' \ live
    BY <1>1, <1>3, <1>5 DEF dbVars
  <2>2. \A x \in Range(batch) : /\ write'[x].status = "SUCCESS"
                                /\ snap.entry[x].event \notin live'
    BY <1>6, <1>7, <2>1
  <2> QED BY <1>6, <2>1, <2>2 DEF StrayInv, PendingDead
<1>11. DropsUnclaimed'
  BY <1>3, <1>4, <1>6, <1>8 DEF StrayInv, DropsUnclaimed
<1>12. UnclaimedStays' /\ LiveHaveHomework'
  BY <1>1, <1>3, <1>4, <1>6 DEF StrayInv, UnclaimedStays, LiveHaveHomework, dbVars
<1> QED BY <1>9, <1>10, <1>11, <1>12 DEF StrayInv

LEMMA ProcessStray ==
    ASSUME TypeOK, EventBelongs, RoundInv, StrayInv, NEW h \in HW, ProcessEntry(h)
    PROVE  StrayInv'
<1>1. JobAtEntry(h) /\ h \in todo
  BY EntrySteps DEF JobAtEntry
<1>2. phase \in Phases /\ phase # "idle" /\ snap.entry[h].status = SourceStatus(phase)
  BY <1>1 DEF RoundInv, IdleClean, TodoOfPhase, Partition, TypeOK, JobTypeOK
<1>3. NoEvent \notin live
  BY NoEventAssumption DEF TypeOK, MeetTypeOK
<1>4. write[h] = NoWrite
  BY <1>1 DEF RoundInv, WritesSettled
<1>5. snap.entry[h].event \notin live => \A ev \in live : evHw[ev] = h => ~Claimed(ev)
  BY <1>1, EventOfSnapshot
<1>6. CASE CleansUp(h)
  <2>1. /\ write'[h] = DeleteRow /\ \A x \in HW \ {h} : write'[x] = write[x]
        /\ UNCHANGED <<meetVars, toUnbind>>
    BY <1>6 DEF CleansUp, TypeOK, JobTypeOK
  <2>2. \A ev \in live : evHw[ev] = h => ~Claimed(ev)
    BY <1>2, <1>6 DEF CleansUp, KeyOf, StrayInv, UnclaimedStays, Claimed
  <2> QED BY <1>1, <2>1, <2>2, EntryStepStray DEF DeleteRow, NoWrite, meetVars
<1>7. CASE SettlesLocally(h)
  <2>1. /\ LocalResult(h) \in Results /\ Outcome(h, LocalResult(h), NoEvent, "keep")
        /\ live' = live /\ evHw' = evHw /\ UNCHANGED toUnbind
    BY <1>2, <1>7 DEF SettlesLocally, LocalResult, Phases, Results, meetVars
  <2>2. CASE phase = "PUSH" \/ EventOf(h) = NoEvent
    <3>1. snap.entry[h].event \notin live
      BY <1>1, <1>2, <1>3, <2>2 DEF EventOf, StrayInv, PendingDead, SourceStatus
    <3> QED BY <1>1, <1>2, <1>5, <2>1, <3>1, OutcomeStray
  <2>3. CASE phase = "UPDATE" /\ h \notin snap.rows
    <3>1. LocalResult(h) = "PERMANENT"
      BY <2>3 DEF LocalResult
    <3>2. \A ev \in live : evHw[ev] = h => ~Claimed(ev)
      BY <1>2, <2>3 DEF StrayInv, UnclaimedStays, Claimed
    <3> QED BY <1>1, <1>2, <2>1, <3>1, <3>2, OutcomeStray
  <2> QED BY <1>2, <1>7, <2>2, <2>3 DEF SettlesLocally, LocalResult, Phases
<1>8. CASE MarksDangling(h)
  <2>1. /\ write'[h] = SetStatus("PENDING_DELETE") /\ \A x \in HW \ {h} : write'[x] = write[x]
        /\ UNCHANGED <<meetVars, toUnbind>>
    BY <1>8 DEF MarksDangling, TypeOK, JobTypeOK
  <2> QED BY <1>1, <2>1, EntryStepStray DEF SetStatus, NoWrite, meetVars
<1>9. CASE PassesOver(h)
  <2>1. write' = write /\ UNCHANGED <<meetVars, toUnbind>>
    BY <1>9 DEF PassesOver
  <2> QED BY <1>1, <1>4, <2>1, EntryStepStray, NoWriteMeans DEF meetVars
<1>10. CASE GivesUpUser(h)
  BY <1>10, GivesUpStray
<1>11. CASE PushRefused(h)
  <2>1. /\ Outcome(h, "PERMANENT", NoEvent, "keep") /\ UNCHANGED <<meetVars, toUnbind>>
        /\ phase = "PUSH"
    BY <1>11 DEF PushRefused
  <2>2. snap.entry[h].event \notin live
    BY <1>2, <2>1 DEF StrayInv, PendingDead, SourceStatus
  <2> QED BY <1>1, <1>2, <1>5, <2>1, <2>2, OutcomeStray DEF meetVars, Results
<1>12. CASE Updates(h)
  <2>1. phase = "UPDATE" /\ UNCHANGED toUnbind /\ live' = live /\ evHw' = evHw
    BY <1>12 DEF Updates, MeetUpdate, meetVars
  <2>2. \/ Outcome(h, "OK", NoEvent, "keep")
        \/ Outcome(h, "MISSING", NoEvent, "keep") /\ snap.entry[h].event \notin live
    BY <1>12 DEF Updates, EventOf
  <2> QED BY <1>1, <1>2, <2>1, <2>2, OutcomeStray, OutcomeDrops DEF Results
<1>13. CASE Deletes(h)
  <2>1. /\ UNCHANGED toUnbind /\ live' = live \ {snap.entry[h].event} /\ evHw' = evHw
        /\ Outcome(h, "OK", NoEvent, "keep")
    BY <1>13 DEF Deletes, MeetDelete, EventOf
  <2>2. \A ev \in live' : evHw[ev] = h => ~Claimed(ev)
    BY <1>1, <2>1, EventOfSnapshot
  <2> QED BY <1>1, <1>2, <2>1, <2>2, OutcomeStray DEF Results
<1>14. CASE Pulls(h)
  <2>1. phase = "PULL" /\ UNCHANGED toUnbind /\ live' = live /\ evHw' = evHw
    BY <1>14 DEF Pulls, meetVars
  <2>2. \/ \E mark : Outcome(h, "OK", NoEvent, mark)
        \/ Outcome(h, "MISSING", NoEvent, "keep") /\ snap.entry[h].event \notin live
    BY <1>14 DEF Pulls, EventOf
  <2> QED BY <1>1, <1>2, <2>1, <2>2, OutcomeStray, OutcomeDrops DEF Results
<1> QED
  BY <1>6, <1>7, <1>8, <1>9, <1>10, <1>11, <1>12, <1>13, <1>14 DEF ProcessEntry

\* A commit writes to an entry either a new event, when the one it has is gone, or
\* none: a claimed event keeps its name.
LEMMA CommitStray ==
    ASSUME TypeOK, RoundInv, StrayInv, JobCommits
    PROVE  StrayInv'
<1>1. EndOfJob /\ UNCHANGED <<rows, meetVars>> /\ phase # "idle"
  BY DEF JobCommits
<1>2. /\ phase' = "idle" /\ toUnbind' = {} /\ snap' = NoSnapshot
      /\ \A h \in HW : write'[h] = NoWrite
  BY <1>1 DEF EndOfJob
<1>3. \A ev \in live : Claimed(ev)' => Claimed(ev) /\ evHw[ev] \in HW
  BY <1>1, OwnerAssumption DEF JobCommits, Claimed, meetVars, StrayInv, LiveHaveHomework
<1>4. NoEvent \notin live
  BY NoEventAssumption DEF TypeOK, MeetTypeOK
<1>5. \A h \in HW : write[h] # NoWrite => entry[h].event = snap.entry[h].event
  BY DEF RoundInv, WritesSettled, EntriesKept
<1>6. \A h \in HW : write[h] \in Writes /\ entry[h] \in Entries
  BY DEF TypeOK, JobTypeOK, DbTypeOK
<1>7. ASSUME NEW ev \in live, Claimed(ev)'
      PROVE  entry'[evHw[ev]].event = ev
  <2> DEFINE h == evHw[ev]
  <2>1. h \in HW /\ ~write[h].delete /\ Owner[h] \notin toUnbind
        /\ (entry[h].event = ev \/ write[h].event = ev)
    BY <1>3, <1>7 DEF StrayInv, ClaimedNamed, DropsUnclaimed, Claimed
  <2>2. entry'[h].event = IF write[h].event = NoEvent THEN entry[h].event ELSE write[h].event
    BY <2>1 DEF JobCommits, Written
  <2>3. write[h].event # NoEvent => entry[h].event \notin live
    BY <1>5, <2>1, NoWriteMeans DEF StrayInv, PendingDead
  <2> QED BY <1>4, <2>1, <2>2, <2>3
<1>8. ASSUME NEW h \in HW, entry'[h].status = "PENDING"
      PROVE  entry'[h].event \notin live
  <2>1. CASE entry'[h] = Absent
    BY <1>8, <2>1 DEF Absent
  <2>2. CASE entry'[h] = Written(write[h], entry[h]) /\ ~write[h].delete
    <3>1. /\ entry'[h].status =
                IF write[h].status = "keep" THEN entry[h].status ELSE write[h].status
          /\ entry'[h].event =
                IF write[h].event = NoEvent THEN entry[h].event ELSE write[h].event
      BY <2>2 DEF Written
    <3>2. write[h].event = NoEvent
      BY <1>8, <3>1 DEF StrayInv, PendingDead
    <3> QED BY <1>5, <1>8, <3>1, <3>2, NoWriteMeans DEF StrayInv, PendingDead
  <2> QED BY <2>1, <2>2 DEF JobCommits, Written
<1>9. snap'.entry = [h \in HW |-> Absent]
  BY <1>2 DEF NoSnapshot
<1>10. PendingDead'
  BY <1>1, <1>2, <1>8, <1>9, NoWriteMeans DEF PendingDead, Absent, meetVars
<1>11. ClaimedNamed'
  BY <1>1, <1>7 DEF ClaimedNamed, meetVars
<1>12. DropsUnclaimed' /\ UnclaimedStays' /\ LiveHaveHomework'
  BY <1>1, <1>2, <1>3, NoWriteMeans
  DEF StrayInv, DropsUnclaimed, UnclaimedStays, LiveHaveHomework, meetVars
<1> QED BY <1>10, <1>11, <1>12 DEF StrayInv

LEMMA JobStray ==
    ASSUME TypeOK, EventBelongs, RoundInv, StrayInv, ~HomeworkGone, JobStep
    PROVE  StrayInv'
<1> USE DEF dbVars, meetVars
<1>1. ASSUME NEW h \in HW, ProcessEntry(h) PROVE StrayInv'
  BY <1>1, ProcessStray
<1>2. CASE StartJob
  <2>1. \A h \in HW : write'[h] = NoWrite /\ write[h] = NoWrite
    BY <1>2 DEF StartJob, RoundInv, WritesSettled
  <2>2. /\ snap'.rows = rows /\ snap'.entry = entry /\ snap'.config = config
        /\ UNCHANGED <<dbVars, meetVars, toUnbind, write>>
    BY <1>2 DEF StartJob
  <2>3. ClaimedNamed' /\ DropsUnclaimed'
    BY <2>2 DEF StrayInv, ClaimedNamed, DropsUnclaimed, Claimed
  <2>4. PendingDead'
    BY <2>1, <2>2, NoWriteMeans DEF StrayInv, PendingDead
  <2>5. UnclaimedStays' /\ LiveHaveHomework'
    BY <2>2 DEF StrayInv, UnclaimedStays, LiveHaveHomework
  <2> QED BY <2>3, <2>4, <2>5 DEF StrayInv
<1>3. CASE NextPhase
  BY <1>3
  DEF NextPhase, StrayInv, ClaimedNamed, DropsUnclaimed, Claimed, PendingDead, UnclaimedStays,
      LiveHaveHomework
<1>4. CASE JobRollsBack
  BY <1>4, NoEntryGone DEF JobRollsBack
<1>5. CASE JobCommits
  BY <1>5, CommitStray
<1>6. ASSUME NEW u \in Users, NEW batch \in Batches(HomeworksOf(u)), PushesBatch(u, batch)
      PROVE  StrayInv'
  BY <1>6, CreationStray
<1> QED BY <1>1, <1>2, <1>3, <1>4, <1>5, <1>6 DEF JobStep

LEMMA InitStray == Init => StrayInv
<1> SUFFICES ASSUME Init PROVE StrayInv
  OBVIOUS
<1>1. live = {} /\ phase = "idle" /\ \A h \in HW : write[h] = NoWrite
  BY DEF Init
<1> QED
  BY <1>1, NoWriteMeans
  DEF StrayInv, ClaimedNamed, DropsUnclaimed, PendingDead, UnclaimedStays, LiveHaveHomework

\* NoStrayEvent for every instance: as long as no answer is lost and nothing dies, no
\* unbinding or deletion overlaps a round, no homework is removed while a round has a
\* mark for it, and what comes back has no event of before, every event of a bound
\* user's homework is the one its entry names, or will name when the round commits:
\* whatever the user does in Meet, and however hooks, bindings, unbindings, removals
\* and refused keys fall between the steps of the job.
THEOREM EventsNotForgotten == Spec /\ []Quiet /\ [][Tidy]_vars => []NoStrayEvent
<1>1. Init => TypeOK /\ RoundInv /\ StrayInv
  BY InitType, InitRound, InitStray
<1>2. /\ Quiet /\ Quiet' /\ EventBelongs /\ TypeOK /\ RoundInv /\ StrayInv
      /\ [Next]_vars /\ [Tidy]_vars
      => (TypeOK /\ RoundInv /\ StrayInv)'
  <2> SUFFICES ASSUME Quiet, Quiet', EventBelongs, TypeOK, RoundInv, StrayInv,
                      [Next]_vars, [Tidy]_vars
               PROVE  StrayInv'
    BY StepRound DEF Quiet
  <2>1. Undisturbed /\ ~HomeworkGone
    BY DEF Quiet
  <2>2. used'["fault"] \in Nat /\ used'["crash"] \in Nat /\ used'["fault"] + used'["crash"] = 0
    BY ServiceType, EnvironmentType, UnchangedType DEF Next, vars, TypeOK, Kinds, Quiet
  <2>3. CASE UNCHANGED vars
    BY <2>3
    DEF vars, dbVars, meetVars, jobVars, StrayInv, ClaimedNamed, DropsUnclaimed, Claimed,
        PendingDead, UnclaimedStays, LiveHaveHomework
  <2>4. CASE RequestStep /\ Tidy
    BY <2>1, <2>4, RequestStray
  <2>5. CASE JobStep
    BY <2>1, <2>5, JobStray
  <2>6. CASE Crash \/ \E h \in HW : Fails(h)
    BY <2>2, <2>6 DEF Crash, Fails, Spend, TypeOK, Kinds
  <2>7. ASSUME NEW u, NEW batch, PushFails(u, batch) PROVE FALSE
    BY <2>2, <2>7 DEF PushFails, Spend, TypeOK, Kinds
  <2> QED BY <2>3, <2>4, <2>5, <2>6, <2>7, StepKinds DEF PushStep, JobStep
<1>3. StrayInv => NoStrayEvent
  BY DEF StrayInv, ClaimedNamed, Claimed, NoStrayEvent
<1>4. Spec => []EventBelongs
  BY EventsBelong
<1> QED BY <1>1, <1>2, <1>3, <1>4, PTL DEF Spec

===============================================================================
