-------------------------------- MODULE QQPush --------------------------------
(***************************************************************************)
(* QQ push for one user: the strategies and their scheduler jobs           *)
(* (service/qqpush/strategy.py, on_boot.py), the configuration             *)
(* (configure.py), and the messages with their buffer and the automatic    *)
(* unbinding (push_wild.py, the channel push.py links to).                 *)
(*                                                                         *)
(* Concurrency.  _refresh_user runs in the background for each refresh of  *)
(* a platform and each change of the configuration, so that several may be *)
(* under way (Setups); each of them suspends at its two queries, and what  *)
(* lies between two queries is one step.  user_strategies has one strategy *)
(* per user, of which only the list of its jobs matters: the messages read *)
(* the configuration anew.                                                 *)
(*                                                                         *)
(* APScheduler: add_job raises ConflictingIdError when the id is taken,    *)
(* remove looks for the id, a job with a date goes when it has run, and is *)
(* thrown away when it is more than a second late.                         *)
(*                                                                         *)
(* Simplifications.  The columns strategy, at and scope are one value, a   *)
(* setting; all settings have the same scope, so that the moment to remind *)
(* of a homework does not depend on them.  Deadlines do not pass.  The row *)
(* is there as long as the account is (Accounts has its insertion); when   *)
(* it is gone, config has no channel, and calls that read it fail.         *)
(* Everything sent outside the buffer is one process, "message".           *)
(***************************************************************************)
EXTENDS Naturals, FiniteSets

CONSTANTS
    HW,
    Chans,          \* qqchan_ids
    NoChan,         \* qqchan_id IS NULL
    Settings,
    Scheduled,      \* the settings with the strategy SCHEDULED; others are REALTIME
    Setups,         \* calls of _refresh_user at a time
    DailyJob,       \* the job id without a homework
    NoJob,
    Copies,         \* how often a homework may be in the buffer at a time
    Stored,         \* the configuration the process finds at its start
    Limit

Kinds == {"configure", "change", "robot", "crash", "leave"}

Configs == [chan: Chans \cup {NoChan}, setting: Settings]

ASSUME StoredAssumption == Stored \in Configs
ASSUME NoChanAssumption == NoChan \notin Chans
ASSUME ScheduledAssumption == Scheduled \subseteq Settings
ASSUME DailyJobAssumption == DailyJob \notin HW
ASSUME NoJobAssumption == NoJob \notin Settings
ASSUME CopiesAssumption == Copies \in Nat
ASSUME LimitAssumption == Limit \in [Kinds -> Nat]

VARIABLES
    account,    \* whether the account is there, is being deleted, or is gone
    config,     \* the row of qqpushconfig
    open,       \* the homeworks that are not done
    time,       \* whether deadline - scope is to come, has come, is over
    known,      \* the qqchan_ids the robot knows
    jobs,       \* the scheduler's jobs, and the settings they were made for
    recorded,   \* the jobs on the list of the strategy in user_strategies
    setup,      \* the calls of _refresh_user under way
    request,    \* configure_qqpush under way
    waiting,    \* reminders that wait for the lock of the buffer
    buffer,     \* how often each homework is in the buffer
    send,       \* the messages under way
    used

userVars == <<account, config, request>>
worldVars == <<open, time, known>>
jobVars == <<jobs, recorded, setup>>
reminderVars == <<waiting, buffer>>
vars == <<userVars, worldVars, jobVars, reminderVars, send, used>>

JobIds == HW \cup {DailyJob}
Senders == {"buffer", "message"}

SetupRecords == [pc: {"idle", "read", "cleared", "listed"},
                 config: Configs, list: SUBSET HW]
RequestRecords == [pc: {"idle", "checking"}, seen: Configs, wanted: Configs]
Buffers == [HW -> 0 .. Copies]
Empty == [h \in HW |-> 0]

SendRecords == [pc: {"idle", "sending", "merging"},
                copy: Configs, loaded: Configs, carried: Buffers]

NoConfig == CHOOSE c \in Configs : c.chan = NoChan
IdleSetup == [pc |-> "idle", config |-> NoConfig, list |-> {}]
IdleRequest == [pc |-> "idle", seen |-> NoConfig, wanted |-> NoConfig]
IdleSend == [pc |-> "idle", copy |-> NoConfig, loaded |-> NoConfig, carried |-> Empty]

\* The lock of the buffer.
Locked == send["buffer"].pc # "idle"

\* Every variable holds a value of its kind; in particular a strategy has either
\* the daily job or reminders on its list.
TypeOK ==
    /\ account \in {"there", "leaving", "gone"}
    /\ config \in Configs /\ request \in RequestRecords
    /\ open \subseteq HW /\ time \in [HW -> {"early", "due", "late"}]
    /\ known \subseteq Chans
    /\ jobs \in [JobIds -> Settings \cup {NoJob}]
    /\ recorded = {DailyJob} \/ recorded \subseteq HW
    /\ setup \in [Setups -> SetupRecords]
    /\ waiting \subseteq HW /\ buffer \in Buffers
    /\ send \in [Senders -> SendRecords]
    /\ used \in [Kinds -> Nat]

\* on_boot reads the row, and sets up the strategy of a user with a channel.
Boots ==
    IF config.chan = NoChan THEN {[t \in Setups |-> IdleSetup]}
    ELSE {[t \in Setups |-> IF t = boot
              THEN [IdleSetup EXCEPT !.pc = "read", !.config = config]
              ELSE IdleSetup] : boot \in Setups}

Init ==
    /\ account = "there" /\ config = Stored
    /\ request = IdleRequest
    /\ open \in SUBSET HW /\ time = [h \in HW |-> "early"]
    /\ known = Chans
    /\ jobs = [j \in JobIds |-> NoJob] /\ recorded = {}
    /\ setup \in Boots
    /\ waiting = {} /\ buffer = Empty
    /\ send = [p \in Senders |-> IdleSend]
    /\ used = [kind \in Kinds |-> 0]

Spend(kind) ==
    /\ used[kind] < Limit[kind]
    /\ used' = [used EXCEPT ![kind] = @ + 1]

-------------------------------------------------------------------------------
(* _refresh_user.                                                          *)

\* A hook, homework.after_refresh or qqpush.after_config_change, reads the row.
SetupStarts(t) ==
    /\ setup[t].pc = "idle" /\ account # "gone"
    /\ setup' = [setup EXCEPT ![t] = [IdleSetup EXCEPT !.pc = "read", !.config = config]]
    /\ UNCHANGED <<userVars, worldVars, jobs, recorded, reminderVars, send, used>>

\* QQPushStrategy.clear: the jobs on the list go, and the list is emptied.
Cleared == [j \in JobIds |-> IF j \in recorded THEN NoJob ELSE jobs[j]]

\* A user without a channel has no strategy.
DropsStrategy(t) ==
    /\ setup[t].pc = "read" /\ setup[t].config.chan = NoChan
    /\ jobs' = Cleared /\ recorded' = {}
    /\ setup' = [setup EXCEPT ![t] = IdleSetup]
    /\ UNCHANGED <<userVars, worldVars, reminderVars, send, used>>

\* Mutant: the old strategy is not cleared.
SchedulesDailyOnTop(t) ==
    LET setting == setup[t].config.setting IN
    /\ setup[t].pc = "read" /\ setup[t].config.chan # NoChan /\ setting \in Scheduled
    /\ IF jobs[DailyJob] # NoJob
       THEN UNCHANGED <<jobs, recorded>>
       ELSE /\ jobs' = [jobs EXCEPT ![DailyJob] = setting]
            /\ recorded' = {DailyJob}
    /\ setup' = [setup EXCEPT ![t] = IdleSetup]
    /\ UNCHANGED <<userVars, worldVars, reminderVars, send, used>>

\* Mutant: the list is not emptied.
SchedulesDailyAsWell(t) ==
    LET setting == setup[t].config.setting IN
    /\ setup[t].pc = "read" /\ setup[t].config.chan # NoChan /\ setting \in Scheduled
    /\ jobs' = [Cleared EXCEPT ![DailyJob] = setting]
    /\ recorded' = recorded \cup {DailyJob}
    /\ setup' = [setup EXCEPT ![t] = IdleSetup]
    /\ UNCHANGED <<userVars, worldVars, reminderVars, send, used>>

\* SCHEDULED: one job a day, without any query.  When the id is taken the old
\* strategy, cleared, stays in user_strategies.
SchedulesDaily(t) ==
    LET setting == setup[t].config.setting IN
    /\ setup[t].pc = "read" /\ setup[t].config.chan # NoChan /\ setting \in Scheduled
    /\ IF Cleared[DailyJob] # NoJob
       THEN jobs' = Cleared /\ recorded' = {}
       ELSE /\ jobs' = [Cleared EXCEPT ![DailyJob] = setting]
            /\ recorded' = {DailyJob}
    /\ setup' = [setup EXCEPT ![t] = IdleSetup]
    /\ UNCHANGED <<userVars, worldVars, reminderVars, send, used>>

\* REALTIME: the old strategy is cleared, and the homeworks are asked for.
ClearsForRealtime(t) ==
    /\ setup[t].pc = "read" /\ setup[t].config.chan # NoChan
    /\ setup[t].config.setting \notin Scheduled
    /\ jobs' = Cleared /\ recorded' = {}
    /\ setup' = [setup EXCEPT ![t].pc = "cleared"]
    /\ UNCHANGED <<userVars, worldVars, reminderVars, send, used>>

ListsHomeworks(t) ==
    /\ setup[t].pc = "cleared"
    /\ setup' = [setup EXCEPT ![t].pc = "listed", ![t].list = open]
    /\ UNCHANGED <<userVars, worldVars, jobs, recorded, reminderVars, send, used>>

With(ids, setting) == [j \in JobIds |-> IF j \in ids THEN setting ELSE jobs[j]]

\* ... and a job is added for each.  When an id is taken, the jobs added before it
\* stay, and no strategy has them on its list.
AddsReminders(t) ==
    LET setting == setup[t].config.setting
        taken == {h \in setup[t].list : jobs[h] # NoJob}
    IN
    /\ setup[t].pc = "listed"
    /\ IF taken = {}
       THEN jobs' = With(setup[t].list, setting) /\ recorded' = setup[t].list
       ELSE \E first \in SUBSET (setup[t].list \ taken) :
               jobs' = With(first, setting) /\ UNCHANGED recorded
    /\ setup' = [setup EXCEPT ![t] = IdleSetup]
    /\ UNCHANGED <<userVars, worldVars, reminderVars, send, used>>

-------------------------------------------------------------------------------
(* Reminders of the realtime strategy, and their buffer.                   *)

\* RealtimeStrategy._job, when its moment has come: the job is over; a homework
\* that is done or gone is skipped.
Fires(h) ==
    /\ jobs[h] # NoJob /\ time[h] = "due"
    /\ jobs' = [jobs EXCEPT ![h] = NoJob]
    /\ waiting' = IF h \in open THEN waiting \cup {h} ELSE waiting
    /\ UNCHANGED <<userVars, worldVars, recorded, setup, buffer, send, used>>

\* A job that is added when its moment is over is thrown away.
IsMissed(h) ==
    /\ jobs[h] # NoJob /\ time[h] = "late"
    /\ jobs' = [jobs EXCEPT ![h] = NoJob]
    /\ UNCHANGED <<userVars, worldVars, recorded, setup, reminderVars, send, used>>

\* Mutant: the buffer is filled without its lock.
JoinsBufferAnyway(h) ==
    /\ h \in waiting /\ buffer[h] < Copies
    /\ waiting' = waiting \ {h}
    /\ buffer' = [buffer EXCEPT ![h] = @ + 1]
    /\ UNCHANGED <<userVars, worldVars, jobVars, send, used>>

\* push_dying_homework.
JoinsBuffer(h) ==
    /\ h \in waiting /\ ~Locked /\ buffer[h] < Copies
    /\ waiting' = waiting \ {h}
    /\ buffer' = [buffer EXCEPT ![h] = @ + 1]
    /\ UNCHANGED <<userVars, worldVars, jobVars, send, used>>

\* push_buffered_homeworks, every five seconds: under the lock the configuration is
\* read and a message made up.  Without a channel the buffer is just cleared.
FlushStarts ==
    /\ ~Locked /\ buffer # Empty
    /\ IF config.chan = NoChan
       THEN buffer' = Empty /\ UNCHANGED send
       ELSE /\ send' = [send EXCEPT !["buffer"] =
                  [IdleSend EXCEPT !.pc = "sending", !.copy = config, !.carried = buffer]]
            /\ UNCHANGED buffer
    /\ UNCHANGED <<userVars, worldVars, jobVars, waiting, used>>

-------------------------------------------------------------------------------
(* Messages and the automatic unbinding.                                   *)

\* Any other message: of the daily job, about new homeworks, a notice, or what the
\* robot asks for.
MessageStarts ==
    /\ send["message"].pc = "idle"
    /\ config.chan # NoChan
    /\ send' = [send EXCEPT !["message"] =
                  [IdleSend EXCEPT !.pc = "sending", !.copy = config]]
    /\ UNCHANGED <<userVars, worldVars, jobVars, reminderVars, used>>

\* A message is over.  Whatever has become of it, the buffer is cleared and its
\* lock given back.
Ends(p) ==
    /\ send' = [send EXCEPT ![p] = IdleSend]
    /\ buffer' = IF p = "buffer" THEN Empty ELSE buffer

\* The robot accepts the message.
IsSent(p) ==
    /\ send[p].pc = "sending" /\ send[p].copy.chan \in known
    /\ Ends(p)
    /\ UNCHANGED <<userVars, worldVars, jobVars, waiting, used>>

\* The robot does not know the channel: _unbind begins.  session.merge loads the
\* row and puts the copy, without its channel, over it; then the hook is triggered,
\* so that SetupStarts may read the row before the commit.
IsRefused(p) ==
    /\ send[p].pc = "sending" /\ send[p].copy.chan \notin known
    /\ send' = [send EXCEPT ![p].pc = "merging", ![p].loaded = config]
    /\ UNCHANGED <<userVars, worldVars, jobVars, reminderVars, used>>

\* Mutant: every failure counts as an unknown channel.
FailsAsRefused(p) ==
    /\ send[p].pc = "sending"
    /\ Spend("robot")
    /\ send' = [send EXCEPT ![p].pc = "merging", ![p].loaded = config]
    /\ UNCHANGED <<userVars, worldVars, jobVars, reminderVars>>

\* It does not answer, or not in JSON, or refuses for another reason: the message
\* is lost.
Fails(p) ==
    /\ send[p].pc = "sending"
    /\ Spend("robot")
    /\ Ends(p)
    /\ UNCHANGED <<userVars, worldVars, jobVars, waiting>>

\* The columns of a row after an UPDATE of those that differ from what was loaded.
Updated(row, loaded, new) ==
    [chan    |-> IF new.chan = loaded.chan THEN row.chan ELSE new.chan,
     setting |-> IF new.setting = loaded.setting THEN row.setting ELSE new.setting]

\* (An account that is gone by now makes it fail.)
MergeCommits(p) ==
    /\ send[p].pc = "merging"
    /\ config' = IF account = "gone" THEN config ELSE
          Updated(config, send[p].loaded, [send[p].copy EXCEPT !.chan = NoChan])
    /\ Ends(p)
    /\ UNCHANGED <<account, request, worldVars, jobVars, waiting, used>>

-------------------------------------------------------------------------------
(* configure_qqpush.                                                       *)

\* UserDep fixes what the request sees of the table.
ConfigureStarts(wanted) ==
    /\ request.pc = "idle" /\ account # "gone"
    /\ Spend("configure")
    /\ request' = [pc |-> "checking", seen |-> config, wanted |-> wanted]
    /\ UNCHANGED <<account, config, worldVars, jobVars, reminderVars, send>>

\* The robot does not know the channel of the test message, or its answer is none
\* at all: nothing changes.
ConfigureFails ==
    /\ request.pc = "checking"
    /\ \/ request.wanted.chan \notin known \cup {NoChan} /\ UNCHANGED used
       \/ request.wanted.chan # NoChan /\ Spend("robot")
    /\ request' = IdleRequest
    /\ UNCHANGED <<account, config, worldVars, jobVars, reminderVars, send>>

\* The row is merged and committed; the hook follows (SetupStarts).  A test message
\* that is not sent, or refused for another reason, does not count.  A row that is
\* gone by now makes it fail.
ConfigureCommits ==
    /\ request.pc = "checking"
    /\ \/ request.wanted.chan \in known \cup {NoChan} /\ UNCHANGED used
       \/ request.wanted.chan # NoChan /\ Spend("robot")
    /\ config' = IF account = "gone" THEN config
                 ELSE Updated(config, request.seen, request.wanted)
    /\ request' = IdleRequest
    /\ UNCHANGED <<account, worldVars, jobVars, reminderVars, send>>

-------------------------------------------------------------------------------
(* The deletion of the account.                                            *)

\* Mutant: nobody listens to auth.after_delete_user.
LeavesStrategy ==
    /\ account = "there"
    /\ Spend("leave")
    /\ account' = "leaving"
    /\ UNCHANGED <<config, request, worldVars, jobVars, reminderVars, send>>

\* delete_account triggers after_delete_user, whose hook here drops the strategy;
\* the row is still there for a call of _refresh_user.
LeaveTriggers ==
    /\ account = "there"
    /\ Spend("leave")
    /\ account' = "leaving"
    /\ jobs' = Cleared /\ recorded' = {}
    /\ UNCHANGED <<config, request, worldVars, setup, reminderVars, send>>

\* The request commits; the row goes with the account, and so do its homeworks.
LeaveCommits ==
    /\ account = "leaving"
    /\ account' = "gone"
    /\ config' = [config EXCEPT !.chan = NoChan]
    /\ open' = {}
    /\ UNCHANGED <<request, time, known, jobVars, reminderVars, send, used>>

\* Or fails to: the account stays.
LeaveFails ==
    /\ account = "leaving"
    /\ account' = "there"
    /\ UNCHANGED <<config, request, worldVars, jobVars, reminderVars, send, used>>

-------------------------------------------------------------------------------
(* The rest of the world.                                                  *)

\* A homework appears or is taken back to do, is done or disappears.
HomeworkChanges(h) ==
    /\ account # "gone"
    /\ Spend("change")
    /\ open' = IF h \in open THEN open \ {h} ELSE open \cup {h}
    /\ UNCHANGED <<userVars, time, known, jobVars, reminderVars, send>>

\* The scheduler runs a job within the second.
Passes(h) ==
    /\ \/ time[h] = "early" /\ time' = [time EXCEPT ![h] = "due"]
       \/ time[h] = "due" /\ jobs[h] = NoJob /\ time' = [time EXCEPT ![h] = "late"]
    /\ UNCHANGED <<userVars, open, known, jobVars, reminderVars, send, used>>

RobotForgets(c) ==
    /\ c \in known
    /\ Spend("robot")
    /\ known' = known \ {c}
    /\ UNCHANGED <<userVars, open, time, jobVars, reminderVars, send>>

\* The process ends and starts again.
Restarts ==
    /\ Spend("crash")
    /\ account' = IF account = "gone" THEN "gone" ELSE "there"
    /\ jobs' = [j \in JobIds |-> NoJob] /\ recorded' = {}
    /\ setup' \in Boots
    /\ request' = IdleRequest
    /\ waiting' = {} /\ buffer' = Empty
    /\ send' = [p \in Senders |-> IdleSend]
    /\ UNCHANGED <<config, worldVars>>

SetupGoesOn(t) ==
    \/ DropsStrategy(t) \/ SchedulesDaily(t) \/ ClearsForRealtime(t)
    \/ ListsHomeworks(t) \/ AddsReminders(t)

SendGoesOn(p) == IsSent(p) \/ IsRefused(p) \/ MergeCommits(p)

Next ==
    \/ \E t \in Setups : SetupStarts(t) \/ SetupGoesOn(t)
    \/ \E h \in HW : Fires(h) \/ IsMissed(h) \/ JoinsBuffer(h)
    \/ FlushStarts \/ MessageStarts
    \/ \E p \in Senders : SendGoesOn(p) \/ Fails(p)
    \/ \E wanted \in Configs : ConfigureStarts(wanted)
    \/ ConfigureFails \/ ConfigureCommits
    \/ LeaveTriggers \/ LeaveCommits \/ LeaveFails
    \/ \E h \in HW : HomeworkChanges(h) \/ Passes(h)
    \/ \E c \in Chans : RobotForgets(c)
    \/ Restarts

Spec == Init /\ [][Next]_vars

(***************************************************************************)
(* Fairness: refreshes go on (a user to remind has a platform, and its     *)
(* job's hook sets the strategy up again), and queries end.                *)
(***************************************************************************)
Fairness ==
    /\ WF_vars(\E t \in Setups : SetupStarts(t))
    /\ \A t \in Setups : WF_vars(SetupGoesOn(t))

FairSpec == Spec /\ Fairness

-------------------------------------------------------------------------------
(* Properties.                                                             *)

\* Calls of _refresh_user do not overlap.  (They may: see README.)
Alone ==
    \A s, t \in Setups : setup[s].pc # "idle" /\ setup[t].pc # "idle" => s = t

\* The jobs no strategy has on its list: nothing can remove them any more, and
\* their ids are taken for every strategy to come.
Unrecorded == {j \in JobIds : jobs[j] # NoJob} \ recorded

\* As long as calls of _refresh_user do not overlap, user_strategies has the set
\* of the user's jobs, as globals.py:6 says, whatever is configured meanwhile.
JobsRecorded == []Alone => [](Unrecorded = {})

\* What the scheduler should have: nothing; one daily job, of the very setting; or
\* a job for each homework that is to be reminded of.
JobsFit ==
    IF config.chan = NoChan THEN \A j \in JobIds : jobs[j] = NoJob
    ELSE IF config.setting \in Scheduled
         THEN \A j \in JobIds : jobs[j] = IF j = DailyJob THEN config.setting ELSE NoJob
         ELSE /\ jobs[DailyJob] = NoJob
              /\ \A h \in open : time[h] = "early" => jobs[h] = config.setting

\* Nor do they overlap with the deletion of the account, between its hook and its
\* commit.
LeavesAlone == account = "leaving" => \A t \in Setups : setup[t].pc = "idle"

\* As long as they do not overlap, the jobs come to fit a configuration that stays,
\* although a call may have read an older one (_unbind triggers it too early); they
\* are gone for good with the account, and back when its deletion fails.
JobsFollow ==
    [](Alone /\ LeavesAlone) /\ <>[][config' = config /\ account' = account]_<<config, account>> =>
        <>[]((\A t \in Setups : setup[t].pc = "idle") => JobsFit)

\* README.md:35: the strategy REALTIME fires at deadline - scope.  So while that is
\* to come, a homework that stays open has a job, be it after some refreshes.
HomeworksReminded ==
    <>[](config.chan # NoChan /\ config.setting \notin Scheduled) =>
        \A h \in HW : <>[](h \in open /\ time[h] = "early") => []<>(jobs[h] # NoJob)

\* A reminder leaves the buffer of a user with a channel only in a message: nothing
\* is cleared away that came in while another one was being sent.
BufferKept ==
    [][\A h \in HW : buffer'[h] < buffer[h] =>
          \/ send["buffer"].carried[h] = buffer[h]
          \/ config.chan = NoChan
          \/ used'["crash"] # used["crash"]]_vars

\* Only a channel that the robot does not know is taken from a user who stays, unless
\* the user has configured it while a message to another one was under way (the copy
\* that _unbind merges is as old as that message).
OnlyRefusedUnbound ==
    [][config.chan # NoChan /\ config'.chan = NoChan /\ request' = request /\ account' = account =>
          \/ config.chan \notin known
          \/ \E p \in Senders : send[p].pc = "merging" /\ send[p].copy.chan # config.chan]_vars

===============================================================================
