----------------------------- MODULE QQPushProofs -----------------------------
(***************************************************************************)
(* Theorems about QQPush, for any homeworks, channels, settings, number of *)
(* calls of _refresh_user and limits: type correctness, the account of the *)
(* scheduler's jobs, the buffer and the automatic unbinding.               *)
(***************************************************************************)
EXTENDS QQPush, TLAPS

USE StoredAssumption, NoChanAssumption, ScheduledAssumption, DailyJobAssumption,
    NoJobAssumption, CopiesAssumption, LimitAssumption

LEMMA SpendType ==
    ASSUME used \in [Kinds -> Nat], NEW kind \in Kinds, Spend(kind)
    PROVE  used' \in [Kinds -> Nat]
BY DEF Spend

LEMMA IdleRecords ==
    /\ NoConfig \in Configs /\ IdleSetup \in SetupRecords
    /\ IdleRequest \in RequestRecords /\ IdleSend \in SendRecords
    /\ Empty \in Buffers
<1>1. [Stored EXCEPT !.chan = NoChan] \in {c \in Configs : c.chan = NoChan}
  BY DEF Configs
<1>2. NoConfig \in Configs
  BY <1>1 DEF NoConfig
<1>3. Empty \in Buffers
  BY DEF Empty, Buffers
<1>4. IdleSetup \in SetupRecords /\ IdleRequest \in RequestRecords
  BY <1>2 DEF IdleSetup, SetupRecords, IdleRequest, RequestRecords
<1>5. IdleSend \in SendRecords
  BY <1>2, <1>3 DEF IdleSend, SendRecords
<1> QED BY <1>2, <1>3, <1>4, <1>5

LEMMA BootsType ==
    ASSUME config \in Configs
    PROVE  Boots \subseteq [Setups -> SetupRecords]
<1>1. [IdleSetup EXCEPT !.pc = "read", !.config = config] \in SetupRecords
  BY IdleRecords DEF SetupRecords
<1> QED BY <1>1, IdleRecords DEF Boots

LEMMA InitType == Init => TypeOK
<1> SUFFICES ASSUME Init PROVE TypeOK
  OBVIOUS
<1>1. /\ account \in {"there", "leaving", "gone"}
      /\ config \in Configs /\ request \in RequestRecords
  BY IdleRecords DEF Init
<1>2. open \subseteq HW /\ time \in [HW -> {"early", "due", "late"}] /\ known \subseteq Chans
  BY DEF Init
<1>3. jobs \in [JobIds -> Settings \cup {NoJob}] /\ recorded \subseteq HW
  BY DEF Init
<1>4. setup \in [Setups -> SetupRecords]
  BY <1>1, BootsType DEF Init
<1>5. waiting \subseteq HW /\ buffer \in Buffers /\ send \in [Senders -> SendRecords]
  BY IdleRecords DEF Init
<1>6. used \in [Kinds -> Nat]
  BY DEF Init
<1> QED BY <1>1, <1>2, <1>3, <1>4, <1>5, <1>6 DEF TypeOK

\* A call of _refresh_user.
LEMMA SetupType ==
    ASSUME TypeOK, NEW t \in Setups, SetupStarts(t) \/ SetupGoesOn(t)
    PROVE  TypeOK'
<1>1. setup[t] \in SetupRecords
  BY DEF TypeOK
<1>2. Cleared \in [JobIds -> Settings \cup {NoJob}]
  BY DEF Cleared, TypeOK
<1>3. DailyJob \in JobIds /\ HW \subseteq JobIds
  BY DEF JobIds
<1>4. setup[t].config.setting \in Settings
  BY <1>1 DEF SetupRecords, Configs
<1>5. CASE SetupStarts(t)
  <2>1. [IdleSetup EXCEPT !.pc = "read", !.config = config] \in SetupRecords
    BY IdleRecords DEF TypeOK, SetupRecords
  <2>2. setup' \in [Setups -> SetupRecords]
    BY <1>5, <2>1 DEF TypeOK, SetupStarts
  <2> QED BY <1>5, <2>2 DEF TypeOK, SetupStarts, userVars, worldVars, reminderVars
<1>6. CASE DropsStrategy(t)
  <2>1. setup' \in [Setups -> SetupRecords]
    BY <1>6, IdleRecords DEF TypeOK, DropsStrategy
  <2> QED BY <1>6, <1>2, <2>1 DEF TypeOK, DropsStrategy, userVars, worldVars, reminderVars
<1>7. CASE SchedulesDaily(t)
  <2>1. setup' \in [Setups -> SetupRecords]
    BY <1>7, IdleRecords DEF TypeOK, SchedulesDaily
  <2>2. [Cleared EXCEPT ![DailyJob] = setup[t].config.setting]
           \in [JobIds -> Settings \cup {NoJob}]
    BY <1>2, <1>3, <1>4
  <2>3. /\ jobs' \in [JobIds -> Settings \cup {NoJob}]
        /\ recorded' = {DailyJob} \/ recorded' \subseteq HW
    BY <1>2, <1>7, <2>2 DEF SchedulesDaily
  <2> QED BY <1>7, <2>1, <2>3 DEF TypeOK, SchedulesDaily, userVars, worldVars, reminderVars
<1>8. CASE ClearsForRealtime(t)
  <2>1. [setup[t] EXCEPT !.pc = "cleared"] \in SetupRecords
    BY <1>1 DEF SetupRecords
  <2>2. setup' \in [Setups -> SetupRecords]
    BY <1>8, <2>1 DEF TypeOK, ClearsForRealtime
  <2> QED BY <1>8, <1>2, <2>2 DEF TypeOK, ClearsForRealtime, userVars, worldVars, reminderVars
<1>9. CASE ListsHomeworks(t)
  <2>1. [setup[t] EXCEPT !.pc = "listed", !.list = open] \in SetupRecords
    BY <1>1 DEF SetupRecords, TypeOK
  <2>2. setup' = [setup EXCEPT ![t] = [setup[t] EXCEPT !.pc = "listed", !.list = open]]
    BY <1>9 DEF ListsHomeworks, TypeOK
  <2>3. setup' \in [Setups -> SetupRecords]
    BY <2>1, <2>2 DEF TypeOK
  <2> QED BY <1>9, <2>3 DEF TypeOK, ListsHomeworks, userVars, worldVars, reminderVars
<1>10. CASE AddsReminders(t)
  <2>1. setup' \in [Setups -> SetupRecords]
    BY <1>10, IdleRecords DEF TypeOK, AddsReminders
  <2>2. setup[t].list \subseteq HW
    BY <1>1 DEF SetupRecords
  <2>3. \A ids : With(ids, setup[t].config.setting) \in [JobIds -> Settings \cup {NoJob}]
    BY <1>4 DEF With, TypeOK
  <2>4. jobs' \in [JobIds -> Settings \cup {NoJob}]
    BY <1>10, <2>3 DEF AddsReminders
  <2>5. recorded' = {DailyJob} \/ recorded' \subseteq HW
    BY <1>10, <2>2 DEF AddsReminders, TypeOK
  <2> QED BY <1>10, <2>1, <2>4, <2>5 DEF TypeOK, AddsReminders, userVars, worldVars, reminderVars
<1> QED BY <1>5, <1>6, <1>7, <1>8, <1>9, <1>10 DEF SetupGoesOn

\* A reminder, and the buffer it joins.
LEMMA ReminderType ==
    ASSUME TypeOK,
           \/ \E h \in HW : Fires(h) \/ IsMissed(h) \/ JoinsBuffer(h)
           \/ FlushStarts \/ MessageStarts
    PROVE  TypeOK'
<1>1. ASSUME NEW h \in HW, Fires(h) PROVE TypeOK'
  <2>1. jobs' \in [JobIds -> Settings \cup {NoJob}]
    BY <1>1 DEF TypeOK, Fires
  <2> QED BY <1>1, <2>1 DEF TypeOK, Fires, userVars, worldVars
<1>2. ASSUME NEW h \in HW, IsMissed(h) PROVE TypeOK'
  <2>1. jobs' \in [JobIds -> Settings \cup {NoJob}]
    BY <1>2 DEF TypeOK, IsMissed
  <2> QED BY <1>2, <2>1 DEF TypeOK, IsMissed, userVars, worldVars, reminderVars
<1>3. ASSUME NEW h \in HW, JoinsBuffer(h) PROVE TypeOK'
  <2>1. buffer[h] + 1 \in 0 .. Copies
    BY <1>3 DEF TypeOK, JoinsBuffer, Buffers
  <2>2. buffer' \in Buffers
    BY <1>3, <2>1 DEF TypeOK, JoinsBuffer, Buffers
  <2> QED BY <1>3, <2>2 DEF TypeOK, JoinsBuffer, userVars, worldVars, jobVars
<1>4. CASE FlushStarts
  <2>1. [IdleSend EXCEPT !.pc = "sending", !.copy = config, !.carried = buffer] \in SendRecords
    BY IdleRecords DEF TypeOK, SendRecords
  <2>2. send' \in [Senders -> SendRecords] /\ buffer' \in Buffers
    BY <1>4, <2>1, IdleRecords DEF TypeOK, FlushStarts
  <2> QED BY <1>4, <2>2 DEF TypeOK, FlushStarts, userVars, worldVars, jobVars
<1>5. CASE MessageStarts
  <2>1. [IdleSend EXCEPT !.pc = "sending", !.copy = config] \in SendRecords
    BY IdleRecords DEF TypeOK, SendRecords
  <2>2. send' \in [Senders -> SendRecords]
    BY <1>5, <2>1 DEF TypeOK, MessageStarts
  <2> QED BY <1>5, <2>2 DEF TypeOK, MessageStarts, userVars, worldVars, jobVars, reminderVars
<1> QED BY <1>1, <1>2, <1>3, <1>4, <1>5

LEMMA EndsType ==
    ASSUME TypeOK, NEW p \in Senders, Ends(p)
    PROVE  send' \in [Senders -> SendRecords] /\ buffer' \in Buffers
BY IdleRecords DEF TypeOK, Ends

LEMMA UpdatedType ==
    ASSUME NEW row \in Configs, NEW loaded \in Configs, NEW new \in Configs
    PROVE  Updated(row, loaded, new) \in Configs
BY DEF Updated, Configs

\* A message on its way.
LEMMA SendType ==
    ASSUME TypeOK, NEW p \in Senders, SendGoesOn(p) \/ Fails(p)
    PROVE  TypeOK'
<1>1. send[p] \in SendRecords
  BY DEF TypeOK
<1>2. CASE IsSent(p)
  BY <1>2, EndsType DEF TypeOK, IsSent, userVars, worldVars, jobVars
<1>3. CASE IsRefused(p)
  <2>1. [send[p] EXCEPT !.pc = "merging", !.loaded = config] \in SendRecords
    BY <1>1 DEF TypeOK, SendRecords
  <2>2. send' = [send EXCEPT ![p] = [send[p] EXCEPT !.pc = "merging", !.loaded = config]]
    BY <1>3 DEF TypeOK, IsRefused
  <2>3. send' \in [Senders -> SendRecords]
    BY <2>1, <2>2 DEF TypeOK
  <2> QED BY <1>3, <2>3 DEF TypeOK, IsRefused, userVars, worldVars, jobVars, reminderVars
<1>4. CASE MergeCommits(p)
  <2>1. [send[p].copy EXCEPT !.chan = NoChan] \in Configs
    BY <1>1 DEF SendRecords, Configs
  <2>2. config' \in Configs
    BY <1>1, <1>4, <2>1, UpdatedType DEF TypeOK, MergeCommits, SendRecords
  <2> QED BY <1>4, <2>2, EndsType DEF TypeOK, MergeCommits, worldVars, jobVars
<1>5. CASE Fails(p)
  <2>1. used' \in [Kinds -> Nat]
    BY <1>5, SpendType DEF TypeOK, Fails, Kinds
  <2> QED BY <1>5, <2>1, EndsType DEF TypeOK, Fails, userVars, worldVars, jobVars
<1> QED BY <1>2, <1>3, <1>4, <1>5 DEF SendGoesOn

\* The deletion of the account.
LEMMA LeaveType ==
    ASSUME TypeOK, LeaveTriggers \/ LeaveCommits \/ LeaveFails
    PROVE  TypeOK'
<1>1. CASE LeaveTriggers
  <2>1. used' \in [Kinds -> Nat]
    BY <1>1, SpendType DEF TypeOK, LeaveTriggers, Kinds
  <2>2. jobs' \in [JobIds -> Settings \cup {NoJob}] /\ recorded' \subseteq HW
    BY <1>1 DEF TypeOK, LeaveTriggers, Cleared
  <2> QED BY <1>1, <2>1, <2>2 DEF TypeOK, LeaveTriggers, worldVars, reminderVars
<1>2. CASE LeaveCommits
  <2>1. config' \in Configs
    BY <1>2 DEF TypeOK, LeaveCommits, Configs
  <2> QED BY <1>2, <2>1 DEF TypeOK, LeaveCommits, jobVars, reminderVars
<1>3. CASE LeaveFails
  BY <1>3 DEF TypeOK, LeaveFails, worldVars, jobVars, reminderVars
<1> QED BY <1>1, <1>2, <1>3

\* A request, and the rest of the world.
LEMMA WorldType ==
    ASSUME TypeOK,
           \/ \E wanted \in Configs : ConfigureStarts(wanted)
           \/ ConfigureFails \/ ConfigureCommits
           \/ \E h \in HW : HomeworkChanges(h) \/ Passes(h)
           \/ \E c \in Chans : RobotForgets(c)
           \/ Restarts
    PROVE  TypeOK'
<1>1. ASSUME NEW wanted \in Configs, ConfigureStarts(wanted) PROVE TypeOK'
  <2>1. request' \in RequestRecords
    BY <1>1 DEF TypeOK, ConfigureStarts, RequestRecords
  <2>2. used' \in [Kinds -> Nat]
    BY <1>1, SpendType DEF TypeOK, ConfigureStarts, Kinds
  <2> QED BY <1>1, <2>1, <2>2 DEF TypeOK, ConfigureStarts, worldVars, jobVars, reminderVars
<1>2. CASE ConfigureFails
  <2>1. used' \in [Kinds -> Nat]
    BY <1>2, SpendType DEF TypeOK, ConfigureFails, Kinds
  <2> QED BY <1>2, <2>1, IdleRecords DEF TypeOK, ConfigureFails, worldVars, jobVars, reminderVars
<1>3. CASE ConfigureCommits
  <2>1. config' \in Configs
    BY <1>3, UpdatedType DEF TypeOK, ConfigureCommits, RequestRecords
  <2>2. used' \in [Kinds -> Nat]
    BY <1>3, SpendType DEF TypeOK, ConfigureCommits, Kinds
  <2> QED BY <1>3, <2>1, <2>2, IdleRecords
          DEF TypeOK, ConfigureCommits, worldVars, jobVars, reminderVars
<1>4. ASSUME NEW h \in HW, HomeworkChanges(h) PROVE TypeOK'
  <2>1. used' \in [Kinds -> Nat] /\ open' \subseteq HW
    BY <1>4, SpendType DEF TypeOK, HomeworkChanges, Kinds
  <2> QED BY <1>4, <2>1 DEF TypeOK, HomeworkChanges, userVars, jobVars, reminderVars
<1>5. ASSUME NEW h \in HW, Passes(h) PROVE TypeOK'
  <2>1. time' \in [HW -> {"early", "due", "late"}]
    BY <1>5 DEF TypeOK, Passes
  <2> QED BY <1>5, <2>1 DEF TypeOK, Passes, userVars, jobVars, reminderVars
<1>6. ASSUME NEW c \in Chans, RobotForgets(c) PROVE TypeOK'
  <2>1. used' \in [Kinds -> Nat] /\ known' \subseteq Chans
    BY <1>6, SpendType DEF TypeOK, RobotForgets, Kinds
  <2> QED BY <1>6, <2>1 DEF TypeOK, RobotForgets, userVars, jobVars, reminderVars
<1>7. CASE Restarts
  <2>1. used' \in [Kinds -> Nat]
    BY <1>7, SpendType DEF TypeOK, Restarts, Kinds
  <2>2. setup' \in [Setups -> SetupRecords]
    BY <1>7, BootsType DEF TypeOK, Restarts
  <2>3. jobs' \in [JobIds -> Settings \cup {NoJob}] /\ recorded' \subseteq HW
    BY <1>7 DEF Restarts
  <2>4. /\ request' \in RequestRecords /\ waiting' \subseteq HW /\ buffer' \in Buffers
        /\ send' \in [Senders -> SendRecords]
    BY <1>7, IdleRecords DEF Restarts
  <2> QED BY <1>7, <2>1, <2>2, <2>3, <2>4 DEF TypeOK, Restarts, worldVars
<1> QED BY <1>1, <1>2, <1>3, <1>4, <1>5, <1>6, <1>7

LEMMA NextType == TypeOK /\ [Next]_vars => TypeOK'
<1> SUFFICES ASSUME TypeOK, [Next]_vars PROVE TypeOK'
  OBVIOUS
<1>1. CASE UNCHANGED vars
  BY <1>1 DEF TypeOK, vars, userVars, worldVars, jobVars, reminderVars
<1> QED BY <1>1, SetupType, ReminderType, SendType, LeaveType, WorldType DEF Next

\* Every variable keeps to its kind, however calls, messages and requests overlap:
\* a strategy has the daily job on its list, or reminders, and never both.
THEOREM PushTypeCorrect == Spec => []TypeOK
BY InitType, NextType, PTL DEF Spec

\* While calls of _refresh_user do not overlap: the jobs are those on the list, and
\* a call that has cleared them has left none.
JobsInv ==
    /\ Unrecorded = {}
    /\ \A t \in Setups : setup[t].pc \in {"cleared", "listed"} => recorded = {}

LEMMA ClearedAll ==
    ASSUME Unrecorded = {}, NEW j \in JobIds
    PROVE  Cleared[j] = NoJob
BY DEF Unrecorded, Cleared

\* A job that goes, or none that comes, leaves nothing off the list.
LEMMA FewerJobs ==
    ASSUME TypeOK, JobsInv, recorded' = recorded, setup' = setup,
           \A j \in JobIds : jobs'[j] \in {jobs[j], NoJob}
    PROVE  JobsInv'
BY DEF JobsInv, Unrecorded

LEMMA JobsInvInit == Init => JobsInv
<1> SUFFICES ASSUME Init PROVE JobsInv
  OBVIOUS
<1>1. Unrecorded = {} /\ recorded = {}
  BY DEF Init, Unrecorded
<1> QED BY <1>1 DEF JobsInv

LEMMA SetupKeepsJobs ==
    ASSUME TypeOK, Alone, JobsInv, NEW t \in Setups, SetupStarts(t) \/ SetupGoesOn(t)
    PROVE  JobsInv'
<1>1. setup[t] \in SetupRecords /\ setup \in [Setups -> SetupRecords]
  BY DEF TypeOK
<1>2. CASE SetupStarts(t)
  <2>1. \A s \in Setups : setup'[s].pc \in {"cleared", "listed"} => setup[s].pc = setup'[s].pc
    BY <1>1, <1>2 DEF SetupStarts, IdleSetup
  <2>2. jobs' = jobs /\ recorded' = recorded
    BY <1>2 DEF SetupStarts
  <2> QED BY <2>1, <2>2 DEF JobsInv, Unrecorded
<1>3. ASSUME setup[t].pc # "idle", NEW s \in Setups, s # t
      PROVE  setup[s].pc = "idle"
  BY <1>3 DEF Alone
<1>4. CASE DropsStrategy(t)
  <2>1. \A j \in JobIds : jobs'[j] = NoJob
    BY <1>4, ClearedAll DEF DropsStrategy, JobsInv
  <2>2. recorded' = {}
    BY <1>4 DEF DropsStrategy
  <2> QED BY <2>1, <2>2 DEF JobsInv, Unrecorded
<1>5. CASE SchedulesDaily(t)
  <2>1. Unrecorded' = {}
    <3>1. DailyJob \in JobIds
      BY DEF JobIds
    <3>2. /\ recorded' = {DailyJob}
          /\ jobs' = [Cleared EXCEPT ![DailyJob] = setup[t].config.setting]
      BY <1>5, <3>1, ClearedAll DEF SchedulesDaily, JobsInv
    <3>3. \A j \in JobIds : j # DailyJob => jobs'[j] = NoJob
      BY <3>2, ClearedAll DEF JobsInv, Cleared
    <3> QED BY <3>2, <3>3 DEF Unrecorded
  <2>2. \A s \in Setups : setup'[s].pc = "idle"
    BY <1>1, <1>3, <1>5 DEF SchedulesDaily, IdleSetup
  <2> QED BY <2>1, <2>2 DEF JobsInv
<1>6. CASE ClearsForRealtime(t)
  <2>1. \A j \in JobIds : jobs'[j] = NoJob
    BY <1>6, ClearedAll DEF ClearsForRealtime, JobsInv
  <2>2. recorded' = {}
    BY <1>6 DEF ClearsForRealtime
  <2> QED BY <2>1, <2>2 DEF JobsInv, Unrecorded
<1>7. CASE ListsHomeworks(t)
  <2>1. recorded = {} /\ recorded' = recorded /\ jobs' = jobs
    BY <1>7 DEF ListsHomeworks, JobsInv
  <2> QED BY <2>1 DEF JobsInv, Unrecorded
<1>8. CASE AddsReminders(t)
  <2>1. setup[t].list \subseteq JobIds /\ recorded = {}
    BY <1>1, <1>8 DEF AddsReminders, SetupRecords, JobIds, JobsInv
  <2>2. \A j \in JobIds : jobs[j] = NoJob
    BY <2>1 DEF JobsInv, Unrecorded
  <2>3. jobs' = With(setup[t].list, setup[t].config.setting) /\ recorded' = setup[t].list
    BY <1>8, <2>1, <2>2 DEF AddsReminders
  <2>4. Unrecorded' = {}
    BY <2>2, <2>3 DEF With, Unrecorded
  <2>5. \A s \in Setups : setup'[s].pc = "idle"
    BY <1>1, <1>3, <1>8 DEF AddsReminders, IdleSetup
  <2> QED BY <2>4, <2>5 DEF JobsInv
<1> QED BY <1>2, <1>4, <1>5, <1>6, <1>7, <1>8 DEF SetupGoesOn

LEMMA JobsInvNext == TypeOK /\ Alone /\ JobsInv /\ [Next]_vars => JobsInv'
<1> SUFFICES ASSUME TypeOK, Alone, JobsInv, [Next]_vars PROVE JobsInv'
  OBVIOUS
<1>1. CASE jobVars' = jobVars
  BY <1>1, FewerJobs DEF jobVars
<1>2. ASSUME NEW h \in HW, Fires(h) \/ IsMissed(h) PROVE JobsInv'
  <2>1. \A j \in JobIds : jobs'[j] \in {jobs[j], NoJob}
    BY <1>2 DEF TypeOK, Fires, IsMissed
  <2>2. recorded' = recorded /\ setup' = setup
    BY <1>2 DEF Fires, IsMissed
  <2> QED BY <2>1, <2>2, FewerJobs
<1>3. CASE Restarts
  <2>1. Unrecorded' = {} /\ recorded' = {}
    BY <1>3 DEF Restarts, Unrecorded
  <2> QED BY <2>1 DEF JobsInv
<1>5. CASE LeaveTriggers
  <2>1. \A j \in JobIds : jobs'[j] = NoJob
    BY <1>5, ClearedAll DEF LeaveTriggers, JobsInv
  <2>2. recorded' = {}
    BY <1>5 DEF LeaveTriggers
  <2> QED BY <2>1, <2>2 DEF JobsInv, Unrecorded
<1>4. \/ jobVars' = jobVars
      \/ LeaveTriggers
      \/ \E t \in Setups : SetupStarts(t) \/ SetupGoesOn(t)
      \/ \E h \in HW : Fires(h) \/ IsMissed(h)
      \/ Restarts
  <2>1. ASSUME NEW h \in HW, JoinsBuffer(h) \/ HomeworkChanges(h) \/ Passes(h)
        PROVE  jobVars' = jobVars
    BY <2>1 DEF JoinsBuffer, HomeworkChanges, Passes, jobVars
  <2>2. ASSUME NEW p \in Senders, SendGoesOn(p) \/ Fails(p) PROVE jobVars' = jobVars
    BY <2>2 DEF SendGoesOn, IsSent, IsRefused, MergeCommits, Fails, jobVars
  <2>3. ASSUME NEW wanted \in Configs, ConfigureStarts(wanted) PROVE jobVars' = jobVars
    BY <2>3 DEF ConfigureStarts, jobVars
  <2>4. CASE \/ FlushStarts \/ MessageStarts \/ ConfigureFails \/ ConfigureCommits
             \/ LeaveCommits \/ LeaveFails
    BY <2>4 DEF FlushStarts, MessageStarts, ConfigureFails, ConfigureCommits,
       LeaveCommits, LeaveFails, jobVars
  <2>5. ASSUME NEW c \in Chans, RobotForgets(c) PROVE jobVars' = jobVars
    BY <2>5 DEF RobotForgets, jobVars
  <2>6. CASE UNCHANGED vars
    BY <2>6 DEF vars, jobVars
  <2> QED BY <2>1, <2>2, <2>3, <2>4, <2>5, <2>6 DEF Next
<1> QED BY <1>1, <1>2, <1>3, <1>4, <1>5, SetupKeepsJobs

\* user_strategies has all the jobs of the user, however messages, requests,
\* restarts and the world interleave with calls of _refresh_user, as long as these
\* calls do not overlap.
THEOREM PushJobsRecorded == Spec => JobsRecorded
<1>1. JobsInv => Unrecorded = {}
  BY DEF JobsInv
<1> QED BY <1>1, JobsInvInit, JobsInvNext, PushTypeCorrect, PTL DEF Spec, JobsRecorded

-------------------------------------------------------------------------------
(* Messages: the buffer stays as it was carried, and a message that is being     *)
(* merged was to a channel the robot does not know.                              *)

SendInv ==
    /\ send["buffer"].pc # "idle" => send["buffer"].carried = buffer
    /\ \A p \in Senders : send[p].pc = "merging" => send[p].copy.chan \notin known

LEMMA SendInvInit == Init => SendInv
BY DEF Init, SendInv, Senders, IdleSend

LEMMA SendInvNext == TypeOK /\ SendInv /\ [Next]_vars => SendInv'
<1> SUFFICES ASSUME TypeOK, SendInv, [Next]_vars PROVE SendInv'
  OBVIOUS
<1>1. send \in [Senders -> SendRecords] /\ "buffer" \in Senders
  BY DEF TypeOK, Senders
<1>2. CASE UNCHANGED <<send, buffer>> /\ known' \subseteq known
  BY <1>2 DEF SendInv
<1>3. ASSUME NEW h \in HW, JoinsBuffer(h) PROVE SendInv'
  BY <1>3 DEF JoinsBuffer, Locked, SendInv, worldVars
<1>4. CASE FlushStarts
  <2>1. CASE config.chan = NoChan
    BY <1>4, <2>1 DEF FlushStarts, Locked, SendInv, worldVars
  <2>2. CASE config.chan # NoChan
    <3>1. send' = [send EXCEPT !["buffer"] =
             [pc |-> "sending", copy |-> config, loaded |-> NoConfig, carried |-> buffer]]
      BY <1>4, <2>2 DEF FlushStarts, IdleSend
    <3>2. buffer' = buffer /\ known' = known
      BY <1>4, <2>2 DEF FlushStarts, worldVars
    <3> QED BY <1>1, <3>1, <3>2 DEF SendInv
  <2> QED BY <2>1, <2>2
<1>5. CASE MessageStarts
  <2> DEFINE begun == [IdleSend EXCEPT !.pc = "sending", !.copy = config]
  <2>1. send' = [send EXCEPT !["message"] = begun]
    BY <1>5 DEF MessageStarts
  <2>2. begun.pc = "sending"
    BY DEF IdleSend
  <2> HIDE DEF begun
  <2>3. buffer' = buffer /\ known' = known
    BY <1>5 DEF MessageStarts, worldVars, reminderVars
  <2> QED BY <1>1, <2>1, <2>2, <2>3 DEF SendInv
<1>6. ASSUME NEW p \in Senders, Ends(p), known' = known PROVE SendInv'
  <2>1. send' = [send EXCEPT ![p] = IdleSend] /\ IdleSend.pc = "idle"
    BY <1>6 DEF Ends, IdleSend
  <2>2. p # "buffer" => buffer' = buffer
    BY <1>6 DEF Ends
  <2> QED BY <1>1, <1>6, <2>1, <2>2 DEF SendInv
<1>7. ASSUME NEW p \in Senders, SendGoesOn(p) \/ Fails(p) PROVE SendInv'
  <2>1. CASE IsRefused(p)
    <3> DEFINE merging == [send[p] EXCEPT !.pc = "merging", !.loaded = config]
    <3>1. send' = [send EXCEPT ![p] = merging]
      BY <1>1, <2>1 DEF IsRefused
    <3>2. send[p] \in SendRecords
      BY <1>1
    <3>3. merging.copy = send[p].copy /\ merging.carried = send[p].carried
      BY <3>2 DEF SendRecords
    <3> HIDE DEF merging
    <3>4. \A q \in Senders : send'[q].copy = send[q].copy /\ send'[q].carried = send[q].carried
      BY <1>1, <3>1, <3>3
    <3>5. send[p].pc # "idle" /\ send[p].copy.chan \notin known /\ buffer' = buffer /\ known' = known
      BY <2>1 DEF IsRefused, worldVars, reminderVars
    <3>6. \A q \in Senders : q # p => send'[q] = send[q]
      BY <1>1, <3>1
    <3> QED BY <1>1, <3>4, <3>5, <3>6 DEF SendInv
  <2>2. CASE IsSent(p)
    BY <1>6, <2>2 DEF IsSent, worldVars
  <2>3. CASE Fails(p)
    BY <1>6, <2>3 DEF Fails, worldVars
  <2>4. CASE MergeCommits(p)
    BY <1>6, <2>4 DEF MergeCommits, worldVars
  <2> QED BY <1>7, <2>1, <2>2, <2>3, <2>4 DEF SendGoesOn
<1>8. CASE Restarts
  BY <1>1, <1>8 DEF Restarts, SendInv, IdleSend
<1>9. ASSUME NEW t \in Setups, SetupStarts(t) \/ SetupGoesOn(t) PROVE SendInv'
  BY <1>2, <1>9 DEF SetupStarts, SetupGoesOn, DropsStrategy, SchedulesDaily,
     ClearsForRealtime, ListsHomeworks, AddsReminders, worldVars, reminderVars
<1>10. ASSUME NEW h \in HW, Fires(h) \/ IsMissed(h) \/ HomeworkChanges(h) \/ Passes(h)
       PROVE  SendInv'
  BY <1>2, <1>10 DEF Fires, IsMissed, HomeworkChanges, Passes, worldVars, reminderVars
<1>11. CASE \/ \E wanted \in Configs : ConfigureStarts(wanted)
            \/ ConfigureFails \/ ConfigureCommits
            \/ LeaveTriggers \/ LeaveCommits \/ LeaveFails
            \/ \E c \in Chans : RobotForgets(c)
  BY <1>2, <1>11 DEF ConfigureStarts, ConfigureFails, ConfigureCommits, RobotForgets,
     LeaveTriggers, LeaveCommits, LeaveFails, worldVars, reminderVars
<1>12. CASE UNCHANGED vars
  BY <1>2, <1>12 DEF vars, worldVars, reminderVars
<1> QED BY <1>3, <1>4, <1>5, <1>7, <1>8, <1>9, <1>10, <1>11, <1>12 DEF Next

\* A reminder that came in while a message was being sent is not cleared away with
\* what the message carried, whatever becomes of the message.
THEOREM PushBufferKept == Spec => BufferKept
<1>1. ASSUME TypeOK, SendInv, [Next]_vars, NEW h \in HW, buffer'[h] < buffer[h]
      PROVE  \/ send["buffer"].carried[h] = buffer[h]
             \/ config.chan = NoChan
             \/ used'["crash"] # used["crash"]
  <2>1. CASE UNCHANGED buffer
    BY <1>1, <2>1 DEF TypeOK, Buffers
  <2>2. ASSUME NEW g \in HW, JoinsBuffer(g) PROVE FALSE
    BY <1>1, <2>2 DEF TypeOK, Buffers, JoinsBuffer
  <2>3. ASSUME NEW p \in Senders, send[p].pc # "idle", Ends(p)
        PROVE  send["buffer"].carried[h] = buffer[h]
    BY <1>1, <2>1, <2>3 DEF Ends, SendInv, TypeOK, Buffers
  <2>4. CASE FlushStarts
    BY <1>1, <2>1, <2>4 DEF FlushStarts
  <2>5. CASE Restarts
    <3>1. used["crash"] \in Nat /\ used' = [used EXCEPT !["crash"] = used["crash"] + 1]
      BY <1>1, <2>5 DEF Restarts, Spend, TypeOK, Kinds
    <3> QED BY <1>1, <3>1 DEF TypeOK, Kinds
  <2>6. \/ UNCHANGED buffer
        \/ \E g \in HW : JoinsBuffer(g)
        \/ \E p \in Senders : send[p].pc # "idle" /\ Ends(p)
        \/ FlushStarts \/ Restarts
    <3>1. ASSUME NEW t \in Setups, SetupStarts(t) \/ SetupGoesOn(t) PROVE UNCHANGED buffer
      BY <3>1 DEF SetupStarts, SetupGoesOn, DropsStrategy, SchedulesDaily,
         ClearsForRealtime, ListsHomeworks, AddsReminders, reminderVars
    <3>2. ASSUME NEW g \in HW, Fires(g) \/ IsMissed(g) \/ HomeworkChanges(g) \/ Passes(g)
          PROVE  UNCHANGED buffer
      BY <3>2 DEF Fires, IsMissed, HomeworkChanges, Passes, reminderVars
    <3>3. ASSUME NEW p \in Senders, SendGoesOn(p) \/ Fails(p)
          PROVE  UNCHANGED buffer \/ (send[p].pc # "idle" /\ Ends(p))
      <4>1. CASE IsRefused(p)
        BY <4>1 DEF IsRefused, reminderVars
      <4>2. CASE IsSent(p) \/ Fails(p)
        BY <4>2 DEF IsSent, Fails
      <4>3. CASE MergeCommits(p)
        BY <4>3 DEF MergeCommits
      <4> QED BY <3>3, <4>1, <4>2, <4>3 DEF SendGoesOn
    <3>4. CASE \/ MessageStarts
               \/ \E wanted \in Configs : ConfigureStarts(wanted)
               \/ ConfigureFails \/ ConfigureCommits
               \/ LeaveTriggers \/ LeaveCommits \/ LeaveFails
               \/ \E c \in Chans : RobotForgets(c)
      BY <3>4 DEF MessageStarts, ConfigureStarts, ConfigureFails, ConfigureCommits,
         LeaveTriggers, LeaveCommits, LeaveFails, RobotForgets, reminderVars
    <3>5. CASE UNCHANGED vars
      BY <3>5 DEF vars, reminderVars
    <3> QED BY <1>1, <3>1, <3>2, <3>3, <3>4, <3>5 DEF Next
  <2> QED BY <2>1, <2>2, <2>3, <2>4, <2>5, <2>6
<1>2. TypeOK /\ SendInv /\ [Next]_vars =>
         [\A h \in HW : buffer'[h] < buffer[h] =>
             \/ send["buffer"].carried[h] = buffer[h]
             \/ config.chan = NoChan
             \/ used'["crash"] # used["crash"]]_vars
  BY <1>1
<1> QED BY <1>2, SendInvInit, SendInvNext, PushTypeCorrect, PTL DEF Spec, BufferKept

\* The robot's refusal unbinds the channel it refused, or, by the merge of a copy
\* as old as the message, one configured since: no other channel is ever unbound
\* but by the user.
THEOREM PushOnlyRefusedUnbound == Spec => OnlyRefusedUnbound
<1>1. ASSUME TypeOK, SendInv, [Next]_vars,
             config.chan # NoChan, config'.chan = NoChan, request' = request,
             account' = account
      PROVE  \/ config.chan \notin known
             \/ \E p \in Senders : send[p].pc = "merging" /\ send[p].copy.chan # config.chan
  <2>1. \E p \in Senders : send[p].pc = "merging"
    <3>1. ASSUME NEW t \in Setups, SetupStarts(t) \/ SetupGoesOn(t) PROVE FALSE
      BY <1>1, <3>1 DEF SetupStarts, SetupGoesOn, DropsStrategy, SchedulesDaily,
         ClearsForRealtime, ListsHomeworks, AddsReminders, userVars
    <3>2. ASSUME NEW h \in HW,
                 Fires(h) \/ IsMissed(h) \/ JoinsBuffer(h) \/ HomeworkChanges(h) \/ Passes(h)
          PROVE  FALSE
      BY <1>1, <3>2 DEF Fires, IsMissed, JoinsBuffer, HomeworkChanges, Passes, userVars
    <3>3. ASSUME NEW p \in Senders, SendGoesOn(p) \/ Fails(p) PROVE send[p].pc = "merging"
      BY <1>1, <3>3 DEF SendGoesOn, IsSent, IsRefused, MergeCommits, Fails, userVars
    <3>4. ASSUME NEW wanted \in Configs, ConfigureStarts(wanted) PROVE FALSE
      BY <1>1, <3>4 DEF ConfigureStarts
    <3>5. CASE ConfigureFails \/ ConfigureCommits
      BY <1>1, <3>5 DEF ConfigureFails, ConfigureCommits, IdleRequest
    <3>6. CASE FlushStarts \/ MessageStarts \/ \E c \in Chans : RobotForgets(c)
      BY <1>1, <3>6 DEF FlushStarts, MessageStarts, RobotForgets, userVars
    <3>7. CASE Restarts \/ UNCHANGED vars
      BY <1>1, <3>7 DEF Restarts, vars, userVars
    <3>8. CASE LeaveTriggers \/ LeaveCommits \/ LeaveFails
      BY <1>1, <3>8 DEF LeaveTriggers, LeaveCommits, LeaveFails
    <3> QED BY <1>1, <3>1, <3>2, <3>3, <3>4, <3>5, <3>6, <3>7, <3>8 DEF Next
  <2> QED BY <1>1, <2>1 DEF SendInv
<1>2. TypeOK /\ SendInv /\ [Next]_vars =>
         [config.chan # NoChan /\ config'.chan = NoChan /\ request' = request /\ account' = account =>
             \/ config.chan \notin known
             \/ \E p \in Senders : send[p].pc = "merging" /\ send[p].copy.chan # config.chan]_vars
  BY <1>1
<1> QED BY <1>2, SendInvInit, SendInvNext, PushTypeCorrect, PTL DEF Spec, OnlyRefusedUnbound

===============================================================================
