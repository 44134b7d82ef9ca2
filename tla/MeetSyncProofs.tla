---------------------------- MODULE MeetSyncProofs ----------------------------
(***************************************************************************)
(* Proofs about MeetSync, for every set of users, homeworks, keys and      *)
(* events and every Limit: type correctness, that no homework ever holds   *)
(* the event of another one, and that what counts as mirrored has one.     *)
(***************************************************************************)
EXTENDS MeetSync, TLAPS

-------------------------------------------------------------------------------
(* The transition table.                                                   *)

LEMMA LocalOpType ==
    /\ KeepAndRetry \in LocalOps /\ DropTracking \in LocalOps
    /\ \A s \in Statuses : MoveTo(s) \in LocalOps
    /\ [MoveTo("SUCCESS") EXCEPT !.storeEvent = TRUE] \in LocalOps
    /\ [MoveTo("SUCCESS") EXCEPT !.patchDone = TRUE] \in LocalOps
BY DEF KeepAndRetry, DropTracking, MoveTo, LocalOps, Statuses

\* The table is total and answers with a LocalOp (what the table-driven test of
\* _transition checks case by case).
LEMMA TransitionType ==
    ASSUME NEW p \in Phases, NEW r \in Results
    PROVE  Transition(p, r) \in LocalOps
<1> USE LocalOpType
<1>1. PushTransition(r) \in LocalOps
  BY DEF PushTransition
<1>2. UpdateTransition(r) \in LocalOps
  BY DEF UpdateTransition, Statuses
<1>3. DeleteTransition(r) \in LocalOps
  BY DEF DeleteTransition
<1>4. PullTransition(r) \in LocalOps
  BY DEF PullTransition, Statuses
<1> QED BY <1>1, <1>2, <1>3, <1>4 DEF Transition, Phases

\* An outcome writes at most the event id it came with.
LEMMA WriteOfType ==
    ASSUME NEW p \in Phases, NEW r \in Results, NEW ev \in Events \cup {NoEvent}
    PROVE  WriteOf(p, r, ev) \in Writes /\ WriteOf(p, r, ev).event \in {ev, NoEvent}
BY TransitionType DEF WriteOf, Writes, LocalOps

LEMMA NoWriteType ==
    /\ NoWrite \in Writes /\ DeleteRow \in Writes
    /\ SetStatus("PENDING_DELETE") \in Writes
    /\ NoWrite.event = NoEvent /\ DeleteRow.event = NoEvent
    /\ SetStatus("PENDING_DELETE").event = NoEvent
BY DEF NoWrite, DeleteRow, SetStatus, Writes, Statuses

LEMMA WrittenType ==
    ASSUME NEW w \in Writes, NEW e \in Entries
    PROVE  /\ Written(w, e) \in Entries
           /\ Written(w, e).event \in {w.event, e.event, NoEvent}
BY DEF Written, Writes, Entries, Absent

LEMMA EntriesType ==
    /\ Absent \in Entries /\ NewEntry \in Entries
    /\ Absent.event = NoEvent /\ NewEntry.event = NoEvent
BY DEF Absent, NewEntry, Entries, Statuses

LEMMA SpendType ==
    ASSUME NEW kind \in Kinds, used \in [Kinds -> Nat], Spend(kind)
    PROVE  used' \in [Kinds -> Nat]
BY DEF Spend

LEMMA NoSnapshotType == NoSnapshot \in Snapshots
BY EntriesType DEF NoSnapshot, Snapshots, Marks

LEMMA PartitionType ==
    ASSUME NEW ent, NEW p
    PROVE  Partition(ent, p) \subseteq HW
BY DEF Partition

-------------------------------------------------------------------------------
(* Type correctness.                                                       *)

LEMMA InitType == Init => TypeOK
<1> SUFFICES ASSUME Init PROVE TypeOK
  OBVIOUS
<1> QED
  BY EntriesType, NoSnapshotType, NoWriteType, NoValuesAssumption
  DEF Init, TypeOK, DbTypeOK, MeetTypeOK, RequestTypeOK, JobTypeOK, Marks, KeyStates

\* What goes to Meet in one call: different homeworks, one after the other.
LEMMA BatchType ==
    ASSUME NEW hs, NEW made \in Batches(hs) \cup {<<>>}
    PROVE  /\ DOMAIN made = 1..Len(made) /\ Len(made) \in Nat
           /\ \A i \in DOMAIN made : made[i] \in hs
           /\ IsInjective(made) /\ Range(made) \subseteq hs
<1>1. CASE made = <<>>
  BY <1>1 DEF IsInjective, Range
<1>2. CASE made \in Batches(hs)
  <2>1. PICK n \in 1..BatchSize : made \in Injection(1..n, hs)
    BY <1>2 DEF Batches
  <2>2. n \in Nat /\ made \in [1..n -> hs] /\ IsInjective(made)
    BY <2>1, BatchSizeAssumption DEF Injection
  <2>3. Len(made) = n /\ DOMAIN made = 1..n
    BY <2>2
  <2> QED BY <2>2, <2>3 DEF Range
<1> QED BY <1>1, <1>2

\* A homework of a batch has one place in it.
LEMMA PlaceInBatch ==
    ASSUME NEW f, NEW x \in Range(f)
    PROVE  AntiFunction(f)[x] \in DOMAIN f /\ f[AntiFunction(f)[x]] = x
BY DEF AntiFunction, Inverse, Range

\* Meet's answer to a creation: as many ids as requests, all new and different.
LEMMA FreshEventsType ==
    ASSUME NEW made, NEW marks, MeetCreate(made, marks)
    PROVE  /\ DOMAIN FreshEvents(made) = DOMAIN made
           /\ \A i \in DOMAIN made : FreshEvents(made)[i] \in Events
           /\ IsInjective(FreshEvents(made))
           /\ Range(FreshEvents(made)) \subseteq {ev \in Events : evHw[ev] = NoHW}
<1> DEFINE free == {ev \in Events : evHw[ev] = NoHW}
<1>1. Injection(DOMAIN made, free) # {}
  BY DEF MeetCreate, ExistsInjection
<1>2. FreshEvents(made) \in Injection(DOMAIN made, free)
  BY <1>1 DEF FreshEvents
<1> QED BY <1>2 DEF Injection, Range

LEMMA FreshEventsFunction ==
    ASSUME NEW made, NEW marks, MeetCreate(made, marks)
    PROVE  FreshEvents(made) \in [DOMAIN made -> Events]
<1> DEFINE free == {ev \in Events : evHw[ev] = NoHW}
<1>1. Injection(DOMAIN made, free) # {}
  BY DEF MeetCreate, ExistsInjection
<1>2. FreshEvents(made) \in Injection(DOMAIN made, free)
  BY <1>1 DEF FreshEvents
<1> QED BY <1>2 DEF Injection

\* The new events are their homeworks', place by place, and no other changes hands.
LEMMA MeetCreateOrigin ==
    ASSUME MeetTypeOK, NEW made \in Batches(HW) \cup {<<>>}, NEW marks,
           MeetCreate(made, marks)
    PROVE  /\ \A i \in DOMAIN made : evHw'[FreshEvents(made)[i]] = made[i]
           /\ \A ev \in Events \ Range(FreshEvents(made)) : evHw'[ev] = evHw[ev]
           /\ \A ev \in Range(FreshEvents(made)) : evHw'[ev] \in Range(made)
<1> DEFINE ids == FreshEvents(made)
<1>1. /\ DOMAIN ids = DOMAIN made /\ IsInjective(ids) /\ Range(ids) \subseteq Events
      /\ \A i \in DOMAIN made : ids[i] \in Events /\ ids[i] \in Range(ids)
  BY FreshEventsType DEF Range
<1>2. \A ev \in Range(ids) : AntiFunction(ids)[ev] \in DOMAIN made
                             /\ ids[AntiFunction(ids)[ev]] = ev
  BY <1>1, PlaceInBatch
<1>3. \A ev \in Events :
         evHw'[ev] = IF ev \in Range(ids) THEN made[AntiFunction(ids)[ev]] ELSE evHw[ev]
  BY DEF MeetCreate
<1>4. \A i \in DOMAIN made : AntiFunction(ids)[ids[i]] = i
  BY <1>1, <1>2 DEF IsInjective
<1>5. \A i \in DOMAIN made : evHw'[ids[i]] = made[i]
  BY <1>1, <1>3, <1>4
<1>6. \A ev \in Range(ids) : evHw'[ev] \in Range(made)
  BY <1>1, <1>2, <1>3 DEF Range
<1> QED BY <1>3, <1>5, <1>6

LEMMA MeetCreateType ==
    ASSUME MeetTypeOK, NEW made \in Batches(HW) \cup {<<>>}, NEW marks \in [HW -> Marks],
           MeetCreate(made, marks)
    PROVE  MeetTypeOK'
<1> DEFINE ids == FreshEvents(made)
<1>1. Range(ids) \subseteq Events /\ Range(made) \subseteq HW
  BY FreshEventsType, BatchType
<1>2. \A ev \in Range(ids) : AntiFunction(ids)[ev] \in DOMAIN made
  BY FreshEventsType, PlaceInBatch
<1>3. \A i \in DOMAIN made : made[i] \in HW
  BY BatchType
<1>4. evHw' \in [Events -> HW \cup {NoHW}]
  BY <1>1, <1>2, <1>3 DEF MeetTypeOK, MeetCreate
<1>5. evDone' \in [Events -> Marks]
  BY <1>1, <1>2, <1>3 DEF MeetTypeOK, MeetCreate
<1> QED BY <1>1, <1>4, <1>5 DEF MeetTypeOK, MeetCreate

\* The outcome of a homework in a batch: the event in its own place of an answer that
\* is as long as the batch, or another try.
LEMMA PairedCases ==
    ASSUME NEW batch, NEW h \in Range(batch), NEW answer
    PROVE  \/ /\ Len(answer) # Len(batch)
              /\ Paired(h, batch, answer) = WriteOf(phase, "TRANSIENT", NoEvent)
           \/ /\ Len(answer) = Len(batch)
              /\ \E i \in DOMAIN batch :
                    batch[i] = h /\ Paired(h, batch, answer) = WriteOf(phase, "OK", answer[i])
BY PlaceInBatch DEF Paired

LEMMA PairedType ==
    ASSUME phase \in Phases, NEW batch, NEW h \in Range(batch), NEW answer,
           Len(answer) = Len(batch) => \A i \in DOMAIN batch : answer[i] \in Events
    PROVE  /\ Paired(h, batch, answer) \in Writes
           /\ \/ Paired(h, batch, answer).event = NoEvent
              \/ /\ Len(answer) = Len(batch)
                 /\ \E i \in DOMAIN batch :
                      batch[i] = h /\ Paired(h, batch, answer).event = answer[i]
BY PairedCases, WriteOfType DEF Results

\* The answer of PushFails is not believed, that of PushesBatch is.
LEMMA BatchOutcomeType ==
    ASSUME JobTypeOK, phase \in Phases, NEW batch, NEW answer, BatchOutcome(batch, answer),
           Len(answer) = Len(batch) => \A i \in DOMAIN batch : answer[i] \in Events,
           UNCHANGED <<phase, snap, locked>>, toUnbind' = toUnbind
    PROVE  JobTypeOK'
<1>1. \A h \in Range(batch) : Paired(h, batch, answer) \in Writes
  BY PairedType
<1> QED BY <1>1 DEF BatchOutcome, JobTypeOK

LEMMA MeetUpdateType ==
    ASSUME MeetTypeOK, NEW ev, NEW mark \in Marks, MeetUpdate(ev, mark)
    PROVE  MeetTypeOK'
BY DEF MeetTypeOK, MeetUpdate

LEMMA MeetDeleteType ==
    ASSUME MeetTypeOK, NEW evs, MeetDelete(evs)
    PROVE  MeetTypeOK'
BY DEF MeetTypeOK, MeetDelete, Marks

LEMMA OutcomeType ==
    ASSUME JobTypeOK, phase \in Phases, NEW h \in HW, NEW r \in Results,
           NEW ev \in Events \cup {NoEvent}, NEW mark \in Marks \cup {"keep"},
           Outcome(h, r, ev, mark),
           UNCHANGED <<phase, snap, locked>>, toUnbind' = toUnbind
    PROVE  JobTypeOK'
<1>1. WriteOf(phase, r, ev) \in Writes
  BY WriteOfType
<1> QED BY <1>1 DEF Outcome, JobTypeOK

LEMMA EndOfJobType ==
    ASSUME EndOfJob
    PROVE  JobTypeOK'
BY NoSnapshotType, NoWriteType DEF EndOfJob, JobTypeOK

\* A part of the state that a step leaves alone keeps its type.
LEMMA UnchangedType ==
    ASSUME TypeOK
    PROVE  /\ UNCHANGED dbVars => DbTypeOK'
           /\ UNCHANGED meetVars => MeetTypeOK'
           /\ UNCHANGED requestVars => RequestTypeOK'
           /\ UNCHANGED jobVars => JobTypeOK'
BY DEF TypeOK, DbTypeOK, MeetTypeOK, RequestTypeOK, JobTypeOK,
       dbVars, meetVars, requestVars, jobVars

\* A batch is a part of one user's bundle, and the bundle is sent in one phase.
LEMMA BundleBatch ==
    ASSUME NEW u, NEW batch \in Batches(Bundle(u)) \cup Batches(Bundle(u) \ Rejected)
    PROVE  /\ phase = "PUSH" /\ phase \in Phases
           /\ batch \in Batches(HW) /\ Range(batch) \subseteq Bundle(u)
           /\ Batches(Range(batch) \ Rejected) \subseteq Batches(HW)
           /\ Bundle(u) \subseteq HomeworksOf(u)
<1>1. ASSUME NEW hs, NEW gs, hs \subseteq gs PROVE Batches(hs) \subseteq Batches(gs)
  BY <1>1 DEF Batches, Injection
<1>2. Bundle(u) \subseteq HW /\ Bundle(u) \subseteq HomeworksOf(u)
  BY DEF Bundle, HomeworksOf
<1>3. batch \in Batches(Bundle(u))
  BY <1>1
<1>4. Range(batch) \subseteq Bundle(u)
  BY <1>3, BatchType
<1>5. Range(batch) # {}
  <2>1. PICK n \in 1..BatchSize : batch \in [1..n -> Bundle(u)]
    BY <1>3 DEF Batches, Injection
  <2>2. 1 \in DOMAIN batch
    BY <2>1, BatchSizeAssumption
  <2> QED BY <2>2 DEF Range
<1>6. phase = "PUSH"
  BY <1>4, <1>5 DEF Bundle
<1> QED BY <1>1, <1>2, <1>3, <1>4, <1>6 DEF Phases

LEMMA EnvironmentType ==
    ASSUME TypeOK, EnvironmentStep
    PROVE  TypeOK'
<1> USE UnchangedType
<1>1. CASE Crash
  BY <1>1, EndOfJobType DEF Crash, Spend, Kinds, TypeOK, RequestTypeOK
<1>2. ASSUME NEW h \in HW, HookDoneTimesOut(h) PROVE TypeOK'
  BY <1>2 DEF HookDoneTimesOut, Spend, Kinds, TypeOK, RequestTypeOK
<1>3. ASSUME NEW h \in HW, Fails(h) PROVE TypeOK'
  <2>1. phase \in Phases /\ h \in HW
    BY <1>3 DEF Fails, Calls, TypeOK, JobTypeOK
  <2>2. JobTypeOK'
    BY <1>3, <2>1, OutcomeType DEF Fails, TypeOK, Results
  <2>3. MeetTypeOK'
    <3>1. snap.done[h] \in Marks
      BY DEF TypeOK, JobTypeOK, Snapshots
    <3>2. CASE HiddenEffect(h)
      BY <3>1, <3>2, MeetUpdateType, MeetDeleteType DEF HiddenEffect, TypeOK
    <3> QED BY <1>3, <3>2 DEF Fails
  <2> QED BY <1>3, <2>2, <2>3 DEF Fails, Spend, Kinds, TypeOK
<1>4. ASSUME NEW h \in HW, NEW m \in Marks, Complete(h, m) PROVE TypeOK'
  BY <1>4 DEF Complete, Spend, Kinds, TypeOK, DbTypeOK, RequestTypeOK
<1>5. ASSUME NEW u \in Users, UnbindRemote(u) PROVE TypeOK'
  BY <1>5, MeetDeleteType DEF UnbindRemote, Spend, Kinds, TypeOK, RequestTypeOK, HomeworksOf
<1>6. ASSUME NEW u \in Users, UnbindRemoteFails(u) PROVE TypeOK'
  BY <1>6, MeetDeleteType DEF UnbindRemoteFails, Spend, Kinds, TypeOK, RequestTypeOK
<1>7. ASSUME NEW u \in Users, UnbindLocalTimesOut(u) PROVE TypeOK'
  BY <1>7 DEF UnbindLocalTimesOut, Spend, Kinds, TypeOK, DbTypeOK, RequestTypeOK
<1>8. ASSUME NEW u \in Users, UserDropsSchedule(u) PROVE TypeOK'
  <2>1. live' \subseteq Events /\ evHw' = evHw
    BY <1>8 DEF UserDropsSchedule, TypeOK, MeetTypeOK
  <2>2. evDone' \in [Events -> Marks]
    BY <1>8 DEF UserDropsSchedule, TypeOK, MeetTypeOK, Marks
  <2>3. keyState' \in [Keys -> KeyStates]
    BY <1>8 DEF UserDropsSchedule, TypeOK, MeetTypeOK, KeyStates
  <2>4. MeetTypeOK'
    BY <2>1, <2>2, <2>3 DEF TypeOK, MeetTypeOK
  <2> QED BY <1>8, <2>4 DEF UserDropsSchedule, Spend, Kinds, TypeOK
<1>9. ASSUME NEW u \in Users, NEW k \in Keys, BindConfig(u, k) PROVE TypeOK'
  BY <1>9 DEF BindConfig, Spend, Kinds, TypeOK, DbTypeOK, RequestTypeOK
<1>10. ASSUME NEW u \in Users, NEW hs \in SUBSET HomeworksOf(u), RefreshFinds(u, hs)
       PROVE  TypeOK'
  BY <1>10 DEF RefreshFinds, Spend, Kinds, TypeOK, DbTypeOK, RequestTypeOK, HomeworksOf
<1>11. ASSUME NEW u \in Users, NEW hs \in SUBSET HomeworksOf(u), RemoveHomeworks(u, hs)
       PROVE  TypeOK'
  BY <1>11 DEF RemoveHomeworks, Spend, Kinds, TypeOK, DbTypeOK, Marks
<1>12. ASSUME NEW ev \in Events, UserEditsMeet(ev) PROVE TypeOK'
  BY <1>12 DEF UserEditsMeet, Spend, Kinds, TypeOK, MeetTypeOK, Marks
<1>13. ASSUME NEW ev \in Events, UserDeletesEvent(ev) PROVE TypeOK'
  BY <1>13, MeetDeleteType DEF UserDeletesEvent, Spend, Kinds, TypeOK
<1>14. ASSUME NEW k \in Keys, UserRevokesKey(k) PROVE TypeOK'
  BY <1>14 DEF UserRevokesKey, Spend, Kinds, TypeOK, MeetTypeOK, KeyStates
<1>15. ASSUME NEW u \in Users, LeaveStarts(u) PROVE TypeOK'
  BY <1>15, MeetDeleteType DEF LeaveStarts, Spend, Kinds, TypeOK, RequestTypeOK, meetVars
<1>16. ASSUME NEW u \in Users, LeaveTimesOut(u) PROVE TypeOK'
  BY <1>16 DEF LeaveTimesOut, Spend, Kinds, TypeOK, RequestTypeOK
<1>17. ASSUME NEW u \in Users, NEW batch \in Batches(HomeworksOf(u)), PushFails(u, batch)
       PROVE  TypeOK'
  <2>1. PICK made \in Batches(Range(batch) \ Rejected) \cup {<<>>} :
          /\ MeetCreate(made, snap.done)
          /\ \E answer : Len(answer) # Len(batch) /\ BatchOutcome(batch, answer)
    BY <1>17 DEF PushFails
  <2>2. phase \in Phases /\ snap.done \in [HW -> Marks]
    BY <1>17, BundleBatch DEF PushFails, TypeOK, JobTypeOK, Snapshots
  <2>3. MeetTypeOK'
    BY <1>17, <2>1, <2>2, BundleBatch, MeetCreateType DEF PushFails, TypeOK
  <2>4. JobTypeOK'
    BY <1>17, <2>1, <2>2, BatchOutcomeType DEF PushFails, TypeOK
  <2> QED BY <1>17, <2>3, <2>4 DEF PushFails, Spend, Kinds, TypeOK
<1> QED
  BY <1>1, <1>2, <1>3, <1>4, <1>5, <1>6, <1>7, <1>8, <1>9, <1>10, <1>11, <1>12,
     <1>13, <1>14, <1>15, <1>16, <1>17 DEF EnvironmentStep

LEMMA ServiceType ==
    ASSUME TypeOK, ServiceStep
    PROVE  TypeOK'
<1> USE UnchangedType
<1>1. CASE StartJob
  <2>1. [rows |-> rows, done |-> done, entry |-> entry, config |-> config] \in Snapshots
    BY DEF TypeOK, DbTypeOK, Snapshots
  <2>2. JobTypeOK'
    BY <1>1, <2>1, PartitionType DEF StartJob, TypeOK, JobTypeOK
  <2> QED BY <1>1, <2>2 DEF StartJob, TypeOK
<1>2. CASE NextPhase
  BY <1>2, PartitionType DEF NextPhase, TypeOK, JobTypeOK
<1>3. CASE JobRollsBack
  BY <1>3, EndOfJobType DEF JobRollsBack, TypeOK
<1>4. CASE JobCommits
  <2>1. entry' \in [HW -> Entries]
    BY <1>4, EntriesType, WrittenType DEF JobCommits, TypeOK, DbTypeOK, JobTypeOK
  <2>2. config' \in [Users -> Keys \cup {NoKey}]
    BY <1>4 DEF JobCommits, TypeOK, DbTypeOK
  <2>3. done' \in [HW -> Marks]
    BY <1>4 DEF JobCommits, TypeOK, DbTypeOK, JobTypeOK
  <2> QED BY <1>4, <2>1, <2>2, <2>3, EndOfJobType DEF JobCommits, TypeOK, DbTypeOK
<1>5. ASSUME NEW h \in HW, ProcessEntry(h) PROVE TypeOK'
  <2>1. CASE CleansUp(h)
    BY <2>1, NoWriteType DEF CleansUp, TypeOK, JobTypeOK
  <2>2. CASE SettlesLocally(h)
    <3>1. phase \in Phases /\ LocalResult(h) \in Results
      BY <2>2 DEF SettlesLocally, LocalResult, Phases, Results
    <3> QED BY <2>2, <3>1, OutcomeType DEF SettlesLocally, TypeOK
  <2>3. CASE MarksDangling(h)
    BY <2>3, NoWriteType DEF MarksDangling, TypeOK, JobTypeOK
  <2>4. CASE PassesOver(h)
    BY <2>4 DEF PassesOver, TypeOK, JobTypeOK
  <2>5. CASE GivesUpUser(h)
    <3>1. Owner[h] \in Users
      BY OwnerAssumption
    <3> QED BY <2>5, <3>1, NoWriteType DEF GivesUpUser, TypeOK, JobTypeOK
  <2>6. CASE PushRefused(h)
    BY <2>6, OutcomeType DEF PushRefused, TypeOK, Phases, Results
  <2>7. CASE Updates(h)
    <3>1. snap.done[h] \in Marks
      BY DEF TypeOK, JobTypeOK, Snapshots
    <3> QED BY <2>7, <3>1, OutcomeType, MeetUpdateType DEF Updates, TypeOK, Phases, Results
  <2>8. CASE Deletes(h)
    BY <2>8, OutcomeType, MeetDeleteType DEF Deletes, TypeOK, Phases, Results
  <2>9. CASE Pulls(h)
    <3>1. EventOf(h) \in live => evDone[EventOf(h)] \in Marks
      BY DEF TypeOK, MeetTypeOK
    <3> QED BY <2>9, <3>1, OutcomeType DEF Pulls, TypeOK, Phases, Results
  <2> QED
    BY <1>5, <2>1, <2>2, <2>3, <2>4, <2>5, <2>6, <2>7, <2>8, <2>9 DEF ProcessEntry
<1>6. ASSUME NEW h \in HW, HookDoneIdle(h) PROVE TypeOK'
  BY <1>6 DEF HookDoneIdle, TypeOK, RequestTypeOK
<1>7. ASSUME NEW h \in HW, HookDoneMarks(h) PROVE TypeOK'
  BY <1>7 DEF HookDoneMarks, TypeOK, DbTypeOK, RequestTypeOK, Entries, Statuses
<1>8. ASSUME NEW u \in Users, BindBackfill(u) PROVE TypeOK'
  BY <1>8, EntriesType DEF BindBackfill, TypeOK, DbTypeOK, RequestTypeOK
<1>9. ASSUME NEW u \in Users, UnbindLocal(u) PROVE TypeOK'
  BY <1>9, EntriesType DEF UnbindLocal, TypeOK, DbTypeOK, RequestTypeOK
<1>10. ASSUME NEW u \in Users, NEW new \in SUBSET HomeworksOf(u), HookNewHomeworks(u, new)
       PROVE  TypeOK'
  BY <1>10, EntriesType DEF HookNewHomeworks, TypeOK, DbTypeOK, RequestTypeOK
<1>11. ASSUME NEW u \in Users, LeaveCommits(u) PROVE TypeOK'
  BY <1>11, EntriesType DEF LeaveCommits, TypeOK, DbTypeOK, RequestTypeOK, Marks
<1>12. ASSUME NEW u \in Users, NEW batch \in Batches(HomeworksOf(u)), PushesBatch(u, batch)
       PROVE  TypeOK'
  <2>1. phase \in Phases /\ snap.done \in [HW -> Marks] /\ batch \in Batches(HW)
    BY <1>12, BundleBatch DEF PushesBatch, TypeOK, JobTypeOK, Snapshots
  <2>2. MeetTypeOK'
    BY <1>12, <2>1, MeetCreateType DEF PushesBatch, TypeOK
  <2>3. JobTypeOK'
    BY <1>12, <2>1, FreshEventsType, BatchOutcomeType DEF PushesBatch, TypeOK
  <2> QED BY <1>12, <2>2, <2>3 DEF PushesBatch, TypeOK
<1> QED
  BY <1>1, <1>2, <1>3, <1>4, <1>5, <1>6, <1>7, <1>8, <1>9, <1>10, <1>11, <1>12
  DEF ServiceStep, JobStep

\* TypeOK holds in every reachable state, whatever the sizes and the limits.
THEOREM TypeCorrect == Spec => []TypeOK
<1>1. Init => TypeOK
  BY InitType
<1>2. TypeOK /\ [Next]_vars => TypeOK'
  <2> SUFFICES ASSUME TypeOK, [Next]_vars PROVE TypeOK'
    OBVIOUS
  <2>1. CASE ServiceStep
    BY <2>1, ServiceType
  <2>2. CASE EnvironmentStep
    BY <2>2, EnvironmentType
  <2>3. CASE UNCHANGED vars
    BY <2>3, UnchangedType DEF vars, TypeOK
  <2> QED BY <2>1, <2>2, <2>3 DEF Next
<1> QED BY <1>1, <1>2, PTL DEF Spec

-------------------------------------------------------------------------------
(* Events and homeworks.  The invariant TypeOK /\ EventBelongs is          *)
(* inductive: a step that creates no event only moves ids between the      *)
(* entry, the snapshot and the pending change of one homework, and the id  *)
(* of a created event is one that nothing holds.                           *)

\* What an id was created for does not change: this is all a step has to respect
\* beside adding no id to what a homework holds.
LEMMA BelongsStep ==
    ASSUME TypeOK, EventBelongs,
           \A ev \in Events : evHw[ev] \in HW => evHw'[ev] = evHw[ev],
           \A h \in HW : Held(h)' \subseteq Held(h) \cup {NoEvent}
    PROVE  EventBelongs'
<1>1. \A h \in HW : Held(h) \subseteq Events \cup {NoEvent}
  BY DEF Held, TypeOK, DbTypeOK, JobTypeOK, Snapshots, Entries, Writes
<1> QED BY <1>1 DEF EventBelongs

\* No call to Meet but a creation touches evHw.
LEMMA MeetKeepsOrigin ==
    /\ \A ev, mark : MeetUpdate(ev, mark) => evHw' = evHw
    /\ \A evs : MeetDelete(evs) => evHw' = evHw
BY DEF MeetUpdate, MeetDelete

LEMMA CreateKeepsOrigin ==
    ASSUME TypeOK, NEW made \in Batches(HW) \cup {<<>>}, NEW marks, MeetCreate(made, marks)
    PROVE  \A ev \in Events : evHw[ev] \in HW => evHw'[ev] = evHw[ev]
BY FreshEventsType, MeetCreateOrigin, NoValuesAssumption DEF TypeOK

LEMMA EndOfJobHeld ==
    ASSUME EndOfJob, NEW h \in HW
    PROVE  snap'.entry[h].event = NoEvent /\ write'[h].event = NoEvent
BY EntriesType, NoWriteType DEF EndOfJob, NoSnapshot

\* An outcome gives its homework at most the event it came with.
LEMMA OutcomeHeld ==
    ASSUME TypeOK, phase \in Phases, NEW h \in HW, NEW r \in Results,
           NEW ev \in Events \cup {NoEvent}, NEW mark, Outcome(h, r, ev, mark),
           NEW x \in HW
    PROVE  write'[x].event \in {write[x].event, NoEvent} \cup (IF x = h THEN {ev} ELSE {})
<1>1. WriteOf(phase, r, ev).event \in {ev, NoEvent}
  BY WriteOfType
<1> QED BY <1>1 DEF Outcome, TypeOK, JobTypeOK

\* The outcomes of a batch give each of its homeworks at most the event in its place.
LEMMA BatchHeld ==
    ASSUME TypeOK, phase \in Phases, NEW batch, NEW answer, BatchOutcome(batch, answer),
           Len(answer) = Len(batch) => \A i \in DOMAIN batch : answer[i] \in Events,
           NEW x \in HW
    PROVE  \/ write'[x].event \in {write[x].event, NoEvent}
           \/ /\ Len(answer) = Len(batch)
              /\ \E i \in DOMAIN batch : batch[i] = x /\ write'[x].event = answer[i]
<1>1. write'[x] = IF x \in Range(batch) THEN Paired(x, batch, answer) ELSE write[x]
  BY DEF BatchOutcome
<1> QED BY <1>1, PairedType

LEMMA EnvironmentBelongs ==
    ASSUME TypeOK, EventBelongs, EnvironmentStep
    PROVE  EventBelongs'
<1>1. CASE Crash
  BY <1>1, BelongsStep, EndOfJobHeld DEF Crash, Held, dbVars, meetVars
<1>2. ASSUME NEW h \in HW, HookDoneTimesOut(h) PROVE EventBelongs'
  BY <1>2, BelongsStep DEF HookDoneTimesOut, Held, dbVars, meetVars, jobVars
<1>3. ASSUME NEW h \in HW, Fails(h) PROVE EventBelongs'
  <2>1. phase \in Phases
    BY <1>3 DEF Fails, Calls, TypeOK, JobTypeOK
  <2>2. \A x \in HW : write'[x].event \in {write[x].event, NoEvent}
    BY <1>3, <2>1, OutcomeHeld DEF Fails, Results
  <2>3. \A ev \in Events : evHw[ev] \in HW => evHw'[ev] = evHw[ev]
    <3>1. CASE HiddenEffect(h)
      BY <3>1, MeetKeepsOrigin DEF HiddenEffect
    <3> QED BY <1>3, <3>1 DEF Fails, meetVars
  <2> QED BY <1>3, <2>2, <2>3, BelongsStep DEF Fails, Held, dbVars
<1>4. ASSUME NEW h \in HW, NEW m \in Marks, Complete(h, m) PROVE EventBelongs'
  BY <1>4, BelongsStep DEF Complete, Held, meetVars, jobVars
<1>5. ASSUME NEW u \in Users, UnbindRemote(u) PROVE EventBelongs'
  BY <1>5, BelongsStep, MeetKeepsOrigin DEF UnbindRemote, Held, dbVars, jobVars
<1>6. ASSUME NEW u \in Users, UnbindRemoteFails(u) PROVE EventBelongs'
  BY <1>6, BelongsStep, MeetKeepsOrigin
  DEF UnbindRemoteFails, Held, dbVars, jobVars, meetVars
<1>7. ASSUME NEW u \in Users, UnbindLocalTimesOut(u) PROVE EventBelongs'
  BY <1>7, BelongsStep DEF UnbindLocalTimesOut, Held, meetVars, jobVars
<1>8. ASSUME NEW u \in Users, UserDropsSchedule(u) PROVE EventBelongs'
  BY <1>8, BelongsStep DEF UserDropsSchedule, Held, dbVars, jobVars
<1>9. ASSUME NEW u \in Users, NEW k \in Keys, BindConfig(u, k) PROVE EventBelongs'
  BY <1>9, BelongsStep DEF BindConfig, Held, meetVars, jobVars
<1>10. ASSUME NEW u \in Users, NEW hs \in SUBSET HomeworksOf(u), RefreshFinds(u, hs)
       PROVE  EventBelongs'
  BY <1>10, BelongsStep DEF RefreshFinds, Held, meetVars, jobVars
<1>11. ASSUME NEW u \in Users, NEW hs \in SUBSET HomeworksOf(u), RemoveHomeworks(u, hs)
       PROVE  EventBelongs'
  BY <1>11, BelongsStep DEF RemoveHomeworks, Held, meetVars, jobVars
<1>12. ASSUME NEW ev \in Events, UserEditsMeet(ev) PROVE EventBelongs'
  BY <1>12, BelongsStep DEF UserEditsMeet, Held, dbVars, jobVars
<1>13. ASSUME NEW ev \in Events, UserDeletesEvent(ev) PROVE EventBelongs'
  BY <1>13, BelongsStep, MeetKeepsOrigin DEF UserDeletesEvent, Held, dbVars, jobVars
<1>14. ASSUME NEW k \in Keys, UserRevokesKey(k) PROVE EventBelongs'
  BY <1>14, BelongsStep DEF UserRevokesKey, Held, dbVars, jobVars
<1>15. ASSUME NEW u \in Users, LeaveStarts(u) PROVE EventBelongs'
  BY <1>15, BelongsStep, MeetKeepsOrigin DEF LeaveStarts, Held, dbVars, jobVars, meetVars
<1>16. ASSUME NEW u \in Users, LeaveTimesOut(u) PROVE EventBelongs'
  BY <1>16, BelongsStep DEF LeaveTimesOut, Held, dbVars, meetVars, jobVars
<1>17. ASSUME NEW u \in Users, NEW batch \in Batches(HomeworksOf(u)), PushFails(u, batch)
       PROVE  EventBelongs'
  <2>1. PICK made \in Batches(HW) \cup {<<>>} :
          /\ MeetCreate(made, snap.done)
          /\ \E answer : Len(answer) # Len(batch) /\ BatchOutcome(batch, answer)
    BY <1>17, BundleBatch DEF PushFails
  <2>2. phase \in Phases
    BY <1>17, BundleBatch DEF PushFails
  <2>3. \A x \in HW : write'[x].event \in {write[x].event, NoEvent}
    BY <2>1, <2>2, BatchHeld
  <2> QED BY <1>17, <2>1, <2>3, CreateKeepsOrigin, BelongsStep DEF PushFails, Held, dbVars
<1> QED
  BY <1>1, <1>2, <1>3, <1>4, <1>5, <1>6, <1>7, <1>8, <1>9, <1>10, <1>11, <1>12,
     <1>13, <1>14, <1>15, <1>16, <1>17 DEF EnvironmentStep

LEMMA ServiceBelongs ==
    ASSUME TypeOK, EventBelongs, ServiceStep
    PROVE  EventBelongs'
<1>1. CASE StartJob
  BY <1>1, BelongsStep DEF StartJob, Held, dbVars, meetVars
<1>2. CASE NextPhase
  BY <1>2, BelongsStep DEF NextPhase, Held, dbVars, meetVars
<1>3. CASE JobRollsBack
  BY <1>3, BelongsStep, EndOfJobHeld DEF JobRollsBack, Held, dbVars, meetVars
<1>4. CASE JobCommits
  <2>1. \A h \in HW : entry'[h].event \in {write[h].event, entry[h].event, NoEvent}
    BY <1>4, EntriesType, WrittenType DEF JobCommits, TypeOK, DbTypeOK, JobTypeOK
  <2> QED BY <1>4, <2>1, BelongsStep, EndOfJobHeld DEF JobCommits, Held, meetVars
<1>5. ASSUME NEW h \in HW, ProcessEntry(h) PROVE EventBelongs'
  <2>1. CASE CleansUp(h)
    BY <2>1, BelongsStep, NoWriteType
    DEF CleansUp, Held, dbVars, meetVars, TypeOK, JobTypeOK
  <2>2. CASE SettlesLocally(h)
    <3>1. phase \in Phases /\ LocalResult(h) \in Results
      BY <2>2 DEF SettlesLocally, LocalResult, Phases, Results
    <3> QED BY <2>2, <3>1, BelongsStep, OutcomeHeld
            DEF SettlesLocally, Held, dbVars, meetVars
  <2>3. CASE MarksDangling(h)
    BY <2>3, BelongsStep, NoWriteType
    DEF MarksDangling, Held, dbVars, meetVars, TypeOK, JobTypeOK
  <2>4. CASE PassesOver(h)
    BY <2>4, BelongsStep DEF PassesOver, Held, dbVars, meetVars
  <2>5. CASE GivesUpUser(h)
    BY <2>5, BelongsStep, NoWriteType
    DEF GivesUpUser, Held, dbVars, meetVars, TypeOK, JobTypeOK
  <2>6. CASE PushRefused(h)
    BY <2>6, BelongsStep, OutcomeHeld
    DEF PushRefused, Held, dbVars, meetVars, Phases, Results
  <2>7. CASE Updates(h)
    BY <2>7, BelongsStep, OutcomeHeld, MeetKeepsOrigin
    DEF Updates, Held, dbVars, meetVars, Phases, Results
  <2>8. CASE Deletes(h)
    BY <2>8, BelongsStep, OutcomeHeld, MeetKeepsOrigin
    DEF Deletes, Held, dbVars, meetVars, Phases, Results
  <2>9. CASE Pulls(h)
    BY <2>9, BelongsStep, OutcomeHeld DEF Pulls, Held, dbVars, meetVars, Phases, Results
  <2> QED
    BY <1>5, <2>1, <2>2, <2>3, <2>4, <2>5, <2>6, <2>7, <2>8, <2>9 DEF ProcessEntry
<1>6. ASSUME NEW h \in HW, HookDoneIdle(h) PROVE EventBelongs'
  BY <1>6, BelongsStep DEF HookDoneIdle, Held, dbVars, meetVars, jobVars
<1>7. ASSUME NEW h \in HW, HookDoneMarks(h) PROVE EventBelongs'
  BY <1>7, BelongsStep DEF HookDoneMarks, Held, meetVars, jobVars, TypeOK, DbTypeOK, Entries
<1>8. ASSUME NEW u \in Users, BindBackfill(u) PROVE EventBelongs'
  BY <1>8, BelongsStep, EntriesType DEF BindBackfill, Held, meetVars, jobVars
<1>9. ASSUME NEW u \in Users, UnbindLocal(u) PROVE EventBelongs'
  BY <1>9, BelongsStep, EntriesType DEF UnbindLocal, Held, meetVars, jobVars
<1>10. ASSUME NEW u \in Users, NEW new \in SUBSET HomeworksOf(u), HookNewHomeworks(u, new)
       PROVE  EventBelongs'
  BY <1>10, BelongsStep, EntriesType DEF HookNewHomeworks, Held, meetVars, jobVars
<1>11. ASSUME NEW u \in Users, LeaveCommits(u) PROVE EventBelongs'
  BY <1>11, BelongsStep, EntriesType DEF LeaveCommits, Held, meetVars, jobVars
<1>12. ASSUME NEW u \in Users, NEW batch \in Batches(HomeworksOf(u)), PushesBatch(u, batch)
       PROVE  EventBelongs'
  <2> DEFINE answer == FreshEvents(batch)
  <2>1. /\ phase \in Phases /\ batch \in Batches(HW)
        /\ MeetCreate(batch, snap.done) /\ BatchOutcome(batch, answer)
        /\ UNCHANGED <<entry, snap>>
    BY <1>12, BundleBatch DEF PushesBatch, dbVars
  <2>2. \A i \in DOMAIN batch : answer[i] \in Events /\ evHw'[answer[i]] = batch[i]
    BY <2>1, FreshEventsType, MeetCreateOrigin DEF TypeOK
  <2>3. \A x \in HW : Held(x) \subseteq Events \cup {NoEvent}
    BY DEF Held, TypeOK, DbTypeOK, JobTypeOK, Snapshots, Entries, Writes
  <2>4. \A x \in HW : \A ev \in Held(x) \ {NoEvent} : evHw'[ev] = x
    BY <2>1, <2>3, CreateKeepsOrigin DEF EventBelongs
  <2>5. ASSUME NEW x \in HW, NEW ev \in Held(x)' \ {NoEvent}
        PROVE  evHw'[ev] = x
    <3>1. \/ write'[x].event \in {write[x].event, NoEvent}
          \/ \E i \in DOMAIN batch : batch[i] = x /\ write'[x].event = answer[i]
      BY <2>1, <2>2, BatchHeld
    <3>2. ev \in Held(x) \/ \E i \in DOMAIN batch : batch[i] = x /\ ev = answer[i]
      BY <2>1, <2>5, <3>1 DEF Held
    <3> QED BY <2>2, <2>4, <2>5, <3>2
  <2> QED BY <2>5 DEF EventBelongs
<1> QED
  BY <1>1, <1>2, <1>3, <1>4, <1>5, <1>6, <1>7, <1>8, <1>9, <1>10, <1>11, <1>12
  DEF ServiceStep, JobStep

\* EventBelongs for every instance and every size of a batch: however many events of
\* a batch an answer leaves out, through rolled-back rounds, crashes, unbinding and
\* binding again, an id that is stored for a homework was given by Meet for that
\* homework.  (So two homeworks never share an id, which meet_event_id's unique
\* constraint asks for.)
THEOREM EventsBelong == Spec => []EventBelongs
<1>1. Init => TypeOK /\ EventBelongs
  <2> SUFFICES ASSUME Init PROVE EventBelongs
    BY InitType
  <2>1. \A h \in HW : Held(h) = {NoEvent}
    BY EntriesType, NoWriteType DEF Init, Held, NoSnapshot
  <2> QED BY <2>1 DEF EventBelongs
<1>2. TypeOK /\ EventBelongs /\ [Next]_vars => (TypeOK /\ EventBelongs)'
  <2> SUFFICES ASSUME TypeOK, EventBelongs, [Next]_vars
               PROVE  TypeOK' /\ EventBelongs'
    OBVIOUS
  <2>1. CASE ServiceStep
    BY <2>1, ServiceType, ServiceBelongs
  <2>2. CASE EnvironmentStep
    BY <2>2, EnvironmentType, EnvironmentBelongs
  <2>3. CASE UNCHANGED vars
    BY <2>3, BelongsStep, UnchangedType DEF vars, TypeOK, Held, dbVars, meetVars, jobVars
  <2> QED BY <2>1, <2>2, <2>3 DEF Next
<1> QED BY <1>1, <1>2, PTL DEF Spec

-------------------------------------------------------------------------------
(* Bare entries.  An entry that is SUCCESS without an event can only come  *)
(* of an entry that was deleted under a round and made again: by an        *)
(* unbinding or the deletion of an account that overlaps the round.        *)
(* Without these the invariant is that what the snapshot holds is still    *)
(* there, and that a status of SUCCESS or PENDING_DELETE is only written   *)
(* to an entry that has, or gets, an event.                                *)

Bare == {"SUCCESS", "PENDING_DELETE"}

\* No unbinding and no deletion of an account is under way during a round.
Undisturbed == phase # "idle" => unbinding = {} /\ leaving = {}

SnapOfRound == phase = "idle" => snap = NoSnapshot

Rows(ent) ==
    \A h \in HW :
        /\ ent[h].status \in Bare => ent[h].event # NoEvent
        /\ ent[h].event # NoEvent => ent[h].status # "ABSENT"

SnapshotKept ==
    \A h \in HW : snap.entry[h].event # NoEvent =>
        entry[h].status # "ABSENT" /\ entry[h].event = snap.entry[h].event

TodoOfPhase == phase # "idle" => todo \subseteq Partition(snap.entry, phase)

WritesSound ==
    \A h \in HW : write[h].status \in Bare =>
        write[h].event # NoEvent \/ snap.entry[h].event # NoEvent

EventInv ==
    /\ SnapOfRound /\ Rows(entry) /\ Rows(snap.entry)
    /\ SnapshotKept /\ TodoOfPhase /\ WritesSound

\* What an outcome leaves to write is sound when its own write is.
LEMMA OutcomeSound ==
    ASSUME TypeOK, EventInv, phase \in Phases, NEW h \in todo, NEW r, NEW ev, NEW mark,
           Outcome(h, r, ev, mark), UNCHANGED <<phase, snap, entry>>,
           WriteOf(phase, r, ev).status \in Bare =>
               WriteOf(phase, r, ev).event # NoEvent \/ snap.entry[h].event # NoEvent
    PROVE  EventInv'
BY DEF EventInv, SnapOfRound, Rows, SnapshotKept, TodoOfPhase, WritesSound, Outcome,
       Partition, TypeOK, JobTypeOK

\* The outcomes that write no such status.
LEMMA HarmlessOutcomes ==
    ASSUME NEW ev
    PROVE  /\ \A p \in Phases : WriteOf(p, "TRANSIENT", ev).status \notin Bare
           /\ \A p \in {"PUSH", "UPDATE"} : WriteOf(p, "PERMANENT", ev).status \notin Bare
           /\ \A p \in {"UPDATE", "PULL"} : WriteOf(p, "MISSING", ev).status \notin Bare
           /\ \A p \in {"DELETE", "PULL"} : WriteOf(p, "OK", ev).status \notin Bare
BY DEF WriteOf, Transition, PushTransition, UpdateTransition, DeleteTransition,
       PullTransition, MoveTo, DropTracking, KeepAndRetry, SourceStatus, Phases, Bare

\* The job has nothing any more, and the table is sound.
LEMMA EndOfJobSound ==
    ASSUME EndOfJob, Rows(entry)'
    PROVE  EventInv'
<1>1. SnapOfRound'
  BY DEF EndOfJob, SnapOfRound
<1>2. Rows(snap.entry)' /\ SnapshotKept' /\ TodoOfPhase' /\ WritesSound'
  BY EntriesType, NoWriteType
  DEF EndOfJob, NoSnapshot, Rows, SnapshotKept, TodoOfPhase, WritesSound, Absent, NoWrite, Bare
<1> QED BY <1>1, <1>2 DEF EventInv

\* Steps that leave the job, the table and the undoing requests alone.
LEMMA EventInvStable ==
    ASSUME EventInv, UNCHANGED <<entry, jobVars>>
    PROVE  EventInv'
BY DEF EventInv, SnapOfRound, Rows, SnapshotKept, TodoOfPhase, WritesSound, jobVars, Partition

\* Entries that are made where there is none.
LEMMA NewEntriesSound ==
    ASSUME EventInv, UNCHANGED jobVars, NEW new,
           new \cap Tracked(entry) = {},
           entry' = [h \in HW |-> IF h \in new THEN NewEntry ELSE entry[h]]
    PROVE  EventInv'
<1>1. \A h \in HW : entry'[h] = entry[h] \/ (entry'[h] = NewEntry /\ entry[h].status = "ABSENT")
  BY DEF Tracked
<1> QED
  BY <1>1 DEF EventInv, SnapOfRound, Rows, SnapshotKept, TodoOfPhase, WritesSound, jobVars,
              Partition, NewEntry, Bare

\* The outcomes of a batch: a status of SUCCESS comes with an event.
LEMMA BatchSound ==
    ASSUME TypeOK, EventInv, phase = "PUSH", NEW batch, Range(batch) \subseteq HW,
           NEW answer, BatchOutcome(batch, answer),
           Len(answer) = Len(batch) => \A i \in DOMAIN batch : answer[i] \in Events,
           UNCHANGED <<phase, snap, entry>>
    PROVE  EventInv'
<1>1. ASSUME NEW h \in HW, write'[h].status \in Bare
      PROVE  write'[h].event # NoEvent \/ snap.entry[h].event # NoEvent
  <2>1. CASE h \notin Range(batch)
    BY <1>1, <2>1 DEF BatchOutcome, EventInv, WritesSound
  <2>2. CASE h \in Range(batch)
    <3>1. write'[h] = Paired(h, batch, answer) /\ phase \in Phases
      BY <2>2 DEF BatchOutcome, Phases
    <3>2. \A ev \in Events : WriteOf(phase, "OK", ev).event = ev
      BY DEF WriteOf, Transition, PushTransition, MoveTo, KeepAndRetry
    <3>3. write'[h] # WriteOf(phase, "TRANSIENT", NoEvent)
      BY <1>1, <3>1, HarmlessOutcomes
    <3>4. \E i \in DOMAIN batch : answer[i] \in Events /\ write'[h] = WriteOf(phase, "OK", answer[i])
      BY <2>2, <3>1, <3>3, PairedCases
    <3> QED BY <3>2, <3>4, NoEventAssumption
  <2> QED BY <2>1, <2>2
<1> QED BY <1>1 DEF BatchOutcome, EventInv, SnapOfRound, Rows, SnapshotKept, TodoOfPhase,
                    WritesSound, Partition

LEMMA EntryStepSound ==
    ASSUME TypeOK, EventInv, NEW h \in HW, ProcessEntry(h)
    PROVE  EventInv'
<1> USE DEF dbVars, requestVars
<1>1. CASE CleansUp(h)
  BY <1>1 DEF CleansUp, EventInv, SnapOfRound, Rows, SnapshotKept, TodoOfPhase, WritesSound,
              Partition, TypeOK, JobTypeOK, DeleteRow, NoWrite, Bare
<1>2. CASE SettlesLocally(h)
  <2>1. phase \in Phases /\ h \in todo
    BY <1>2 DEF SettlesLocally, LocalResult, Phases
  <2>2. WriteOf(phase, LocalResult(h), NoEvent).status \notin Bare
    BY <1>2, HarmlessOutcomes DEF SettlesLocally, LocalResult, Phases
  <2> QED BY <1>2, <2>1, <2>2, OutcomeSound DEF SettlesLocally
<1>3. CASE MarksDangling(h)
  <2>1. snap.entry[h].event # NoEvent
    BY <1>3 DEF MarksDangling, EventInv, TodoOfPhase, Partition, SourceStatus, Rows, Bare
  <2> QED
    BY <1>3, <2>1
    DEF MarksDangling, EventInv, SnapOfRound, Rows, SnapshotKept, TodoOfPhase, WritesSound,
        Partition, TypeOK, JobTypeOK
<1>4. CASE PassesOver(h)
  BY <1>4 DEF PassesOver, EventInv, SnapOfRound, Rows, SnapshotKept, TodoOfPhase, WritesSound,
              Partition
<1>5. CASE GivesUpUser(h)
  <2>1. todo' \subseteq todo /\ UNCHANGED <<phase, snap, entry>>
    BY <1>5 DEF GivesUpUser
  <2>2. \A x \in HW : write'[x] \in {write[x], NoWrite}
    BY <1>5 DEF GivesUpUser
  <2> QED
    BY <2>1, <2>2 DEF EventInv, SnapOfRound, Rows, SnapshotKept, TodoOfPhase, WritesSound,
                      Partition, NoWrite, Bare
<1>6. CASE PushRefused(h)
  <2>1. h \in todo /\ phase = "PUSH" /\ phase \in Phases
    BY <1>6 DEF PushRefused, Calls, Phases
  <2> QED BY <1>6, <2>1, OutcomeSound, HarmlessOutcomes DEF PushRefused
<1>7. CASE Updates(h)
  <2>1. h \in todo /\ phase = "UPDATE" /\ phase \in Phases
    BY <1>7 DEF Updates, Calls, Phases
  <2>2. snap.entry[h].event # NoEvent
    BY <1>7, <2>1 DEF Updates, Calls, LocalResult, EventOf
  <2> QED BY <1>7, <2>1, <2>2, OutcomeSound DEF Updates
<1>8. CASE Deletes(h)
  <2>1. h \in todo /\ phase = "DELETE" /\ phase \in Phases
    BY <1>8 DEF Deletes, Calls, Phases
  <2> QED BY <1>8, <2>1, OutcomeSound, HarmlessOutcomes DEF Deletes
<1>9. CASE Pulls(h)
  <2>1. h \in todo /\ phase = "PULL" /\ phase \in Phases
    BY <1>9 DEF Pulls, Calls, Phases
  <2> QED BY <1>9, <2>1, OutcomeSound, HarmlessOutcomes DEF Pulls
<1> QED
  BY <1>1, <1>2, <1>3, <1>4, <1>5, <1>6, <1>7, <1>8, <1>9 DEF ProcessEntry

\* A commit: what is written to a row that is still there keeps, or gets, an event.
LEMMA CommitSound ==
    ASSUME TypeOK, EventInv, JobCommits
    PROVE  EventInv'
<1>1. ASSUME NEW h \in HW
      PROVE  /\ entry'[h].status \in Bare => entry'[h].event # NoEvent
             /\ entry'[h].event # NoEvent => entry'[h].status # "ABSENT"
  <2>1. entry'[h] = Absent \/ entry'[h] = Written(write[h], entry[h])
    BY DEF JobCommits
  <2>2. CASE entry'[h] = Absent
    BY <2>2 DEF Absent, Bare
  <2>3. CASE entry'[h] = Written(write[h], entry[h]) /\ ~write[h].delete
    <3>1. write[h] \in Writes /\ entry[h] \in Entries
      BY DEF TypeOK, JobTypeOK, DbTypeOK
    <3>2. IsUpdate(write[h]) => entry[h].status # "ABSENT"
      BY DEF JobCommits, EntryGone
    <3>3. /\ entry[h].status \in Bare => entry[h].event # NoEvent
          /\ entry[h].event # NoEvent => entry[h].status # "ABSENT"
          /\ snap.entry[h].event # NoEvent => entry[h].event = snap.entry[h].event
          /\ write[h].status \in Bare =>
                write[h].event # NoEvent \/ snap.entry[h].event # NoEvent
      BY DEF EventInv, Rows, SnapshotKept, WritesSound
    <3>4. /\ entry'[h].status =
                IF write[h].status = "keep" THEN entry[h].status ELSE write[h].status
          /\ entry'[h].event =
                IF write[h].event = NoEvent THEN entry[h].event ELSE write[h].event
      BY <2>3 DEF Written
    <3> QED BY <2>3, <3>1, <3>2, <3>3, <3>4 DEF IsUpdate, Writes, Statuses
  <2>4. CASE entry'[h] = Written(write[h], entry[h]) /\ write[h].delete
    BY <2>4 DEF Written, Absent, Bare
  <2> QED BY <2>1, <2>2, <2>3, <2>4
<1>2. Rows(entry)' /\ EndOfJob
  BY <1>1 DEF Rows, JobCommits
<1> QED BY <1>2, EndOfJobSound

LEMMA ServiceSound ==
    ASSUME TypeOK, Undisturbed, EventInv, ServiceStep
    PROVE  EventInv'
<1> USE DEF dbVars, requestVars
<1>1. CASE StartJob
  BY <1>1 DEF StartJob, Phases, EventInv, SnapOfRound, Rows, SnapshotKept, TodoOfPhase, WritesSound,
              Partition, TypeOK, JobTypeOK
<1>2. CASE NextPhase
  BY <1>2 DEF NextPhase, Phases, EventInv, SnapOfRound, Rows, SnapshotKept, TodoOfPhase, WritesSound,
              Partition
<1>3. CASE JobRollsBack
  BY <1>3, EndOfJobSound DEF JobRollsBack, EventInv, SnapOfRound, Rows
<1>4. CASE JobCommits
  BY <1>4, CommitSound
<1>5. ASSUME NEW h \in HW, ProcessEntry(h) PROVE EventInv'
  BY <1>5, EntryStepSound
<1>6. ASSUME NEW h \in HW, HookDoneIdle(h) PROVE EventInv'
  BY <1>6, EventInvStable DEF HookDoneIdle
<1>7. ASSUME NEW h \in HW, HookDoneMarks(h) PROVE EventInv'
  <2>1. \A x \in HW : /\ entry'[x].event = entry[x].event
                      /\ entry'[x].status \in {entry[x].status, "PENDING_UPDATE"}
    BY <1>7 DEF HookDoneMarks, TypeOK, DbTypeOK, Entries
  <2> QED
    BY <1>7, <2>1 DEF HookDoneMarks, EventInv, SnapOfRound, Rows, SnapshotKept, TodoOfPhase,
                      WritesSound, jobVars, Partition, Bare
<1>8. ASSUME NEW u \in Users, BindBackfill(u) PROVE EventInv'
  BY <1>8, EventInvStable, NewEntriesSound DEF BindBackfill
<1>9. ASSUME NEW u \in Users, UnbindLocal(u) \/ LeaveCommits(u) PROVE EventInv'
  <2>1. phase = "idle" /\ snap = NoSnapshot
    BY <1>9 DEF UnbindLocal, LeaveCommits, Undisturbed, EventInv, SnapOfRound
  <2>2. UNCHANGED jobVars /\ \A h \in HW : entry'[h] \in {entry[h], Absent}
    BY <1>9 DEF UnbindLocal, LeaveCommits
  <2> QED
    BY <2>1, <2>2 DEF EventInv, SnapOfRound, Rows, SnapshotKept, TodoOfPhase, WritesSound,
                      jobVars, NoSnapshot, Absent, Bare
<1>10. ASSUME NEW u \in Users, NEW new \in SUBSET HomeworksOf(u), HookNewHomeworks(u, new)
       PROVE  EventInv'
  BY <1>10, EventInvStable, NewEntriesSound DEF HookNewHomeworks
<1>11. ASSUME NEW u \in Users, NEW batch \in Batches(HomeworksOf(u)), PushesBatch(u, batch)
       PROVE  EventInv'
  <2>1. phase = "PUSH" /\ Range(batch) \subseteq HW
    BY <1>11, BundleBatch, BatchType DEF PushesBatch
  <2>2. \A i \in DOMAIN batch : FreshEvents(batch)[i] \in Events
    BY <1>11, FreshEventsType DEF PushesBatch
  <2> QED BY <1>11, <2>1, <2>2, BatchSound DEF PushesBatch
<1> QED
  BY <1>1, <1>2, <1>3, <1>4, <1>5, <1>6, <1>7, <1>8, <1>9, <1>10, <1>11
  DEF ServiceStep, JobStep

LEMMA EnvironmentSound ==
    ASSUME TypeOK, EventInv, EnvironmentStep
    PROVE  EventInv'
<1> USE DEF dbVars, requestVars
<1>1. CASE Crash
  BY <1>1, EndOfJobSound DEF Crash, EventInv, SnapOfRound, Rows
<1>2. ASSUME NEW h \in HW, Fails(h) PROVE EventInv'
  <2>1. phase \in Phases /\ h \in todo
    BY <1>2 DEF Fails, Calls, TypeOK, JobTypeOK
  <2> QED BY <1>2, <2>1, OutcomeSound, HarmlessOutcomes DEF Fails
<1>3. ASSUME NEW h \in HW, HookDoneTimesOut(h) \/ \E m \in Marks : Complete(h, m)
      PROVE  EventInv'
  BY <1>3, EventInvStable DEF HookDoneTimesOut, Complete
<1>4. ASSUME NEW u \in Users, UnbindRemote(u) \/ UnbindRemoteFails(u) \/ LeaveStarts(u)
      PROVE  EventInv'
  BY <1>4, EventInvStable DEF UnbindRemote, UnbindRemoteFails, LeaveStarts
<1>5. ASSUME NEW u \in Users, UnbindLocalTimesOut(u) \/ LeaveTimesOut(u) PROVE EventInv'
  BY <1>5, EventInvStable DEF UnbindLocalTimesOut, LeaveTimesOut
<1>6. ASSUME NEW u \in Users, UserDropsSchedule(u) \/ \E k \in Keys : BindConfig(u, k)
      PROVE  EventInv'
  BY <1>6, EventInvStable DEF UserDropsSchedule, BindConfig
<1>7. ASSUME NEW u \in Users, NEW hs \in SUBSET HomeworksOf(u),
             RefreshFinds(u, hs) \/ RemoveHomeworks(u, hs)
      PROVE  EventInv'
  BY <1>7, EventInvStable DEF RefreshFinds, RemoveHomeworks
<1>8. ASSUME NEW ev \in Events, UserEditsMeet(ev) \/ UserDeletesEvent(ev) PROVE EventInv'
  BY <1>8, EventInvStable DEF UserEditsMeet, UserDeletesEvent
<1>9. ASSUME NEW k \in Keys, UserRevokesKey(k) PROVE EventInv'
  BY <1>9, EventInvStable DEF UserRevokesKey
<1>10. ASSUME NEW u \in Users, NEW batch \in Batches(HomeworksOf(u)), PushFails(u, batch)
       PROVE  EventInv'
  <2>1. phase = "PUSH" /\ Range(batch) \subseteq HW
    BY <1>10, BundleBatch, BatchType DEF PushFails
  <2> QED BY <1>10, <2>1, BatchSound DEF PushFails
<1> QED
  BY <1>1, <1>2, <1>3, <1>4, <1>5, <1>6, <1>7, <1>8, <1>9, <1>10 DEF EnvironmentStep

\* SuccessHasEvent as long as no unbinding and no deletion of an account overlaps a
\* round of the job: no lost answer, crash, removed homework, overlapping hook or
\* binding makes an entry that counts as mirrored without the event.
THEOREM SuccessKeepsEvent == Spec /\ []Undisturbed => []SuccessHasEvent
<1>1. Init => TypeOK /\ EventInv
  <2> SUFFICES ASSUME Init PROVE EventInv
    BY InitType
  <2> QED
    BY EntriesType, NoWriteType
    DEF Init, EventInv, SnapOfRound, Rows, SnapshotKept, TodoOfPhase, WritesSound, NoSnapshot,
        Absent, NoWrite, Bare
<1>2. Undisturbed /\ TypeOK /\ EventInv /\ [Next]_vars => (TypeOK /\ EventInv)'
  <2> SUFFICES ASSUME Undisturbed, TypeOK, EventInv, [Next]_vars PROVE TypeOK' /\ EventInv'
    OBVIOUS
  <2>1. CASE ServiceStep
    BY <2>1, ServiceType, ServiceSound
  <2>2. CASE EnvironmentStep
    BY <2>2, EnvironmentType, EnvironmentSound
  <2>3. CASE UNCHANGED vars
    BY <2>3, EventInvStable, UnchangedType DEF vars, TypeOK, dbVars, requestVars
  <2> QED BY <2>1, <2>2, <2>3 DEF Next
<1>3. EventInv => SuccessHasEvent
  BY DEF EventInv, Rows, SuccessHasEvent, Bare
<1> QED BY <1>1, <1>2, <1>3, PTL DEF Spec

===============================================================================
