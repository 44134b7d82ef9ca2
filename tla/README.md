# A verification project for CQUPTDDL

CQUPTDDL (`src/src/cquptddl`) is an asyncio service (FastAPI, SQLAlchemy, APScheduler) that
collects a student's homeworks from several platforms, and offers them through an API, an ICS
feed, a QQ robot and the Meet timetable. This directory holds TLA+ modules that model it, the
configurations TLC checks them with, and theorems TLAPS proves about them. Paths below are
relative to `src/src/cquptddl/`, unless they start with `README` or `tests`.

## 1. Inventory

| component | state it keeps | operations | hard because |
| --- | --- | --- | --- |
| Meet synchronisation (`service/meetschedule/`) | `meetscheduleentry` (status, event id), `meetscheduleconfig` (key, timetable); the events in Meet | the periodic job (PUSH, UPDATE, DELETE, PULL), bind, unbind, three hooks | one database session over minutes of network calls, against requests and hooks that commit meanwhile; lost answers; crashes; automatic unbinding |
| Meet limiter (`service/meetschedule/limiter.py`) | a fixed window per key, in the library `throttled` | acquire, blocking or not | cooperative waits |
| Homeworks (`service/homework/`) | `homework` (done mark) ; a scheduler job per user and platform | refresh, complete, removal after an unbinding, queries | fetches that overlap with unbinding and with other refreshes |
| Platforms (`service/platform/`) | `platforminfo` (credentials, cookies, `last_refreshed_homework`), a lock per user and platform | bind, unbind, fetch with cooldown, retry and new login | check and stamp in a transaction of its own; hooks that start before the request commits |
| ICS (`service/ics/`, `router/api/ics.py`) | `icssubscription` (token hash, `fetch_count`, `last_fetched_at`) | create, list, delete, feed | the forced 304 compares times another transaction writes |
| QQ push (`service/qqpush/`) | `qqpushconfig`; strategies and their jobs in memory; a buffer | configure, strategies, buffered and immediate pushes | jobs rebuilt by concurrent background hooks |
| Accounts (`service/auth/`) | `user` (token version, password, cookies), QR sessions in memory | registration and logins, token refresh, logout, deletion; the new login of refreshes | concurrent polls of a QR session; answers that leave before their commit; deletion against everything above |
| Core (`core/`) | hook and symbol tables, the set of background tasks | trigger, background, shutdown, sessions | hooks are cancelled at shutdown; a session commits at its end |
| Adapters, crypto, routers | none | parsing, AES, HTTP | data only |

How they interact. A request handler calls symbols with the session of its request, which
commits when the handler returns (`core/factory.py:22-25`). Components tell each other what
happened through hooks: `homework.after_refresh` (to Meet and QQ push), `homework.after_done`
(to Meet), `platform.after_bind` and `after_unbind` (to the refresh jobs and the homework
table), `auth.before_delete_user`, `auth.after_delete_user` and `auth.after_register`. Most
hooks run in the background, in a session of their own. The tables are the only other shared
state: the Meet job reads `homework` and writes its `done`; the feed compares
`last_refreshed_homework`, which the fetch stamps.

What makes each component correct:

- Meet: a homework that can be mirrored is tracked; an entry never names the event of another
  homework; an entry that counts as mirrored has its event; events are not forgotten while no
  answer is lost; retries end, and mirrors converge; a broken key is unbound, a working one is
  not; what an unbinding leaves behind goes.
- Homeworks and platforms: two fetches are a cooldown apart unless the platform is bound again;
  each new homework is announced once; no refresh job without a binding, and no binding without
  its job, but for one whose removal has failed; every refresh ends
  and gives its lock back; an unbound platform leaves no homework behind.
- ICS: a client is told "not modified" only when it has what the feed would say.
- QQ push: the jobs follow the configuration, and the list of them is complete; no reminder is
  cleared away unsent; only a refused channel is unbound.
- Accounts: a version of tokens that was given up never counts again; a QR code logs in at most
  once, and does when it is scanned; every account has its row for QQ push; a dead cookie is
  replaced or its person is told, unless IDS goes on refusing the password.

## 2. Plan

The order follows the weight of the behaviour: what writes to somebody else's system first.

1. `MeetTransition`, `MeetSync`: the Meet synchronisation, with account deletion. **Done.**
2. `HomeworkTable` (abstract), `HomeworkRefresh` (implements it): refreshes, cooldown, bindings,
   account deletion and registration. **Done.**
3. `IcsFeed`: the feed and its forced 304. **Done.**
4. `QQPush`: strategies, jobs, buffer, automatic unbinding, account deletion. **Done.**
5. `TokenVersions` (abstract), `Accounts` (implements it): logins, QR sessions and their
   overlapping polls, logout, deletion, the new login of refreshes. **Done.**

No abstract specification of the timetable is planned: one that allows for lost answers, revoked
keys and users who edit their timetable says what `NoStrayEvent`, `SuccessHasEvent`,
`EventBelongs` and `Converges` say already.

Every safety property of a run is a theorem (section 6).

How the modules hang together: `MeetSync` EXTENDS `MeetTransition`; `HomeworkRefresh` has an
INSTANCE of `HomeworkTable` whose variables are its own `stored` and `news`, and `Accounts` one of
`TokenVersions`, whose `current` is its `version`; each `MC…` module
EXTENDS its component and defines the limits of the runs, each `…Proofs` module EXTENDS it with
its theorems (`MeetSync` has two, `MeetTrackingProofs` builds on `MeetSyncProofs`). Components meet in the database only, so that each module has what the others do to
its tables as actions of their own: `MeetSync` has insertions, removals and marks of homeworks,
`IcsFeed` has stamps and insertions. `HomeworkTable` is what they may rely on. The deletion of an
account reaches all of them, by hooks and by ON DELETE CASCADE: each module whose component has a
hook for it has the hook and the commit as two steps, and, where rows may come back, a new
registration. (For `IcsFeed` it is the deletion of the subscription.)

## 3. The modules

Every module abstracts data to what its properties tell apart: homeworks, keys, channels are
model values; texts, parsing and logging are left out.

**Concurrency, in all modules.** The program is one asyncio process. What runs between two awaits
is one step; a step that ends at a database commit has the commit's effect. Each request, hook and
job has its own session. The database is MySQL or MariaDB with InnoDB at REPEATABLE READ (the
README's production setting; the SQLite of development, which serialises writers, is not
modelled). So a session reads from the snapshot of its first SELECT and writes to the current
rows, only the columns it has changed. An UPDATE that finds no row raises StaleDataError and
poisons the session: everything it had not committed is lost; a DELETE that finds no row only
warns.

**Limits.** What users, networks and hosts do spontaneously is counted in `used` and bounded by
`Limit`, by kind. What the program does by itself is never bounded.

### MeetTransition and MeetSync

`service/meetschedule/refresh_task.py` has one table that says what to do with an entry, given the
phase and the result of the remote call. `MeetTransition` is that table (`Transition`), with the
columns it makes the session write (`WriteOf`): a status that is equal to the one in memory is no
change, and so does not reach the row.

`MeetSync` is the rest. In the database: `rows` and `done` (homeworks), `entry` (the tracked
events, whose id is the homework's), `config` (the bindings). In Meet: the events that are `live`,
what they were made for (`evHw`) and their marks. In the process: hooks and requests under way;
and the job's session: `phase`, the entries `todo` in it, the snapshot `snap`, pending changes
(`write`, `patch`), flushed and thus `locked` rows, and the users `toUnbind`.

| code | action |
| --- | --- |
| `refresh_meetschedule`, first select | `StartJob` |
| autoflush when the next phase loads its homeworks | `NextPhase` |
| `_push_user`, `_push_batch`, `_push_singly` | `PushesBatch`, `PushFails`, `PushRefused` |
| `_update_user`, `_delete_user`, `_pull_user` | `Updates`, `Deletes`, `Pulls`; a failure `Fails` |
| entries of a phase that need no call | `SettlesLocally`, `MarksDangling`, `PassesOver`, `CleansUp` |
| `HaveToUnbindMeetschedule`, `_unbind_user_local` | `GivesUpUser`, and the end of `JobCommits` |
| commit, or the failed flush | `JobCommits`, `JobRollsBack` |
| `bind` (commits, then backfills) | `BindConfig`, `BindBackfill` |
| `unbind` (remote, then local) | `UnbindRemote`, `UnbindRemoteFails`, `UnbindLocal`, `UnbindLocalTimesOut` |
| the hooks of `event_handlers.py` | `HookNewHomeworks`, `HookDoneIdle`, `HookDoneMarks` |
| `on_delete_user`, in `delete_account` | `LeaveStarts` (Meet is asked), `LeaveCommits`, `LeaveTimesOut` |
| the process ends | `Crash` |

Decisions worth knowing. The creations of PUSH go to Meet in batches of up to `BatchSize` (100 in
the code). Meet's answer is a sequence of ids, which are paired with the homeworks of the batch by
position (`Paired`, `refresh_task.py:403-413`); of an answer of another length nothing is believed,
and the whole batch is to be tried again. That Meet answers in the order of the request is an
assumption about Meet, which the code makes too: nothing in an answer says which homework an event is
for. A failed call may have created events for any part of the batch, and answer with those or not
at all (`PushFails`). A batch is any part of what is left of the user's bundle, in any order, so that
`_push_singly` after a refused batch is a series of batches of one. The other phases take their
entries one at a time and in any order; DELETE's batches are one such order, as their answer names
no events. A key is an API key and a timetable together. Hooks for the same
homework that have not run yet are one. Lost answers leave Meet changed or not (`HiddenEffect`).
The limiter is no step: it delays the job, and refuses requests before they change anything. The
404 that `_push_singly`, `_delete_user` and `_pull_user` do not translate ends where a translated
one would. Meet's `Events` are a pool of four to eight; each creation needs a fresh one. Who has deleted
the account may register again at once: what the module has of an account is its rows.

### HomeworkTable and HomeworkRefresh

One user and one platform, which is what the rows, the lock and the job are keyed by; `POST
/refresh` without a platform takes several in turn with one session, which for one of them is a
longer wait. `HomeworkRefresh` follows a refresh through `_check_platform_cooldown` (`waiting`,
`stamping`), the attempts (`fetching`) and the insertion (`storing`), and a request to bind or
unbind from its read to its commit and its hooks. The hooks `add_job` and `del_job` have no await,
and are part of the step that triggers them; the removal of the homeworks runs in the background
(`Cleans`). The deletion of the account removes the jobs by a hook (`LeaveTriggers`), then commits
(`LeaveCommits`) or waits too long for locked rows (`LeaveFails`); a person may register again
(`Registers`). Time is the age of `last_refreshed_homework`, up to the cooldown; it does not pass
while a stamp is being committed.

`HomeworkTable` is the promise to those who hear `homework.after_refresh`: the hook names
homeworks that have just been added, all of them; homeworks only go all together.

### IcsFeed

`render_feed` answers 304 without looking when nothing it asks for has been stamped since the last
fetch. It only ever compares times, so a time is the set of sources whose stamps it is later than;
stamps and fetches of the same second are equal (`recent`, `Tick`). A poll reads and writes its
row (`PollStarts`, `PollCommits`), then answers in a second session (`PollAnswers`), or fails
(`PollFails`). Left out: `fetch_count` and ETags (nothing depends on them) and the window of
`ics_past_days`.

### QQPush

One user. `config` is the row of `qqpushconfig`, with strategy, time and scope as one value, a
setting; all settings have one scope, and deadlines do not pass. `jobs` is the scheduler's store,
`recorded` the list of the strategy in `user_strategies`. `_refresh_user` (`setup`) suspends at
its two queries: `SetupStarts`; `DropsStrategy`, `SchedulesDaily` or `ClearsForRealtime`;
`ListsHomeworks`; `AddsReminders`. A job fires once (`Fires`), or is thrown away when it was added
more than a second too late (`IsMissed`; APScheduler's default grace); it waits for the buffer's
lock (`JoinsBuffer`), which `push_buffered_homeworks` holds while it sends (`FlushStarts` to
`Ends`). Everything else that is sent is one process, `message`. `_unbind` merges its copy of the
row, as old as the message, and triggers the hook before the commit (`IsRefused`,
`MergeCommits`). `account` is there, leaving or gone: the hook of the deletion drops the strategy,
the cascade takes the row. `push.py` is a link to one of the two channels (`README.md:72`); the module has
`push_wild.py`.

### TokenVersions and Accounts

The account of one person. A version of the tokens is a random UUID in the code, and a number in
the order of making here; `tokens` are the versions somebody has tokens of. `TokenVersions` says
that a version given up is never in force again, which `Accounts` implements.

| code | action |
| --- | --- |
| `get_login_qrcode`, and what it drops first | `OffersCode`, `ClearsExpired` |
| the person and the code | `Scans` |
| `qrcode_login` in `ids.py`, at its awaits | `PollStarts`; `NotScanned`, `Scanned`, `ScanFails`, `KeyErrorEnds`; `UserinfoFails`, `GetsUserinfo` |
| `password_login` | `LoginStarts`, `LoginFails`, `IdsAccepts`, then `Inserts` or `Updates` |
| `qrcode_login` in `login.py` | the steps of `ids.py`, then `Inserts` or `Updates` |
| `auth.after_register` (`qqpush/configure.py`) | `HookConfigures` |
| `logout`, `delete_account` | `LogoutStarts`, `LogoutCommits`; `LeaveStarts`, `LeaveFails`, `LeaveCommits` |
| `auth_relogin`, `relogin` | `WorkStarts`, `CookieAccepted`, `CookieRefused`, `PasswordAccepted`, `PasswordRefused`, `WorkCommits`, `WorkFails` |
| IDS forgets a cookie, changes what it accepts; the process ends | `CookieDies`, `IdsTurns`, `Crash` |

Decisions worth knowing. The answer of a request leaves before its session commits (FastAPI runs
what follows the `yield` of `depends_session` after the response), so that tokens are out before
`Updates`; a registration commits by itself first. Two polls of a session share one context, and
the library may use the client of either. IDS accepts one password of the person (`accepted`), or
none while it wants a captcha first; who logs in with a password knows the one it accepts, and that is
what is stored. When the stored one is not accepted, or no longer, `relogin` fails
(`PasswordRefused`), as often as it is tried. `told` says that the person has been told since the
last login, and since the cookie died.

## 4. The runs

| run | instance | what it shows |
| --- | --- | --- |
| `MeetMirror` | two users with a homework each, two keys; two bindings, a click, an edit or a deletion in Meet, a lost answer, a revoked key, a removed homework | types; SUCCESS means an event; all is tracked; nobody is unbound but by a refused key |
| `MeetRebind` | one user, one key (none is revoked, and so two would not differ), two homeworks, batches of two; two bindings, an unbinding or a deletion of the account, a click, an answer that is lost or too short | no homework gets another one's event, whatever an answer leaves out; leftovers go |
| `MeetLive` | one user, two homeworks, Meet refuses one for good; a binding, a new homework, a click, an edit or a deletion in Meet, a lost answer, a crash, a revoked key | retries end, mirrors converge, a broken key is unbound; no stray event while no answer is lost and nothing dies |
| `RefreshCare` | one homework, one manual and the scheduled refresh; two requests, one at a time (bind, unbind or delete the account); two timeouts, failures or crashes, a deletion that fails at its commit, cooldown 1, two attempts | types; refreshes a cooldown apart; implements `HomeworkTable`; no job without a binding, no binding without its job unless a deletion failed; what a platform shows gets stored; refreshes end |
| `FeedFollows` | a client of two platforms, each with a refresh and a homework; a binding, an unbinding, a mark, a lost answer, a deletion | types; the first answer is a body; the forced 304 is wrong for known causes only, and not for good |
| `PushFollows` | a homework, two channels, a daily and a realtime setting, one `_refresh_user` at a time; a configuration, a change, a failure, a restart, a deletion of the account | types; jobs are accounted for and follow the configuration; reminders stay in the buffer; who is unbound |
| `AccountsHold` | two requests of the auth router, one QR code, one refresh that logs in; one each of a login by password, a logout, a deletion, a dead cookie, an expired session, a failure, a crash; IDS refuses the stored password, and may accept it again | types; versions given up stay so; a code logs in once, and does when scanned; every account has its row for QQ push; a dead cookie is noticed, unless the password goes on being refused |
| `BareSuccess`, `BackfillLost`, `UnbindLeaves`, `FeedStale`, `RemindersLost` | the smallest instance | the disagreements of section 5 |

Why these bounds are enough to be of interest. The hazards need one event of each kind at a bad
moment, and most need two actors: two homeworks let one entry succeed while another fails in the
same session, two refreshes let one overtake the other, and a request or a hook may fall between
any two steps of the job. Each disjunct of each next-state relation fires in some run, and
for every property there is a change of the code's definition that makes its run fail (the
operators marked "Mutant"). Bounds that do cut something off: two users share a job only in
`MeetMirror` (safety), `MeetLive` has one click, homeworks
without a deadline (`Undated`) are in the theorems only, and `PushFollows` has one call of
`_refresh_user` at a time, since its two temporal properties assume as much; the theorems behind
them have no such bound. `RefreshCare` has one request, so that two bindings overlap in the theorem
`JobsFollow` only. `AccountsHold` has one password: what matters of the stored password and of the one
IDS accepts is whether they are the same, and IDS may accept none. With batches of two, a short
answer names the first or the second homework's event, or none.

`MeetMirror`, whose properties are all about states and single steps, is checked up to symmetry: its
two users with their homeworks may change places, and so may the keys.

`CHECK_DEADLOCK FALSE` stands where the system may rightly stop: nobody is bound, nothing is
tracked, and the limits are used up.

**Fairness.** `MeetSync`: the interval trigger starts the job again, whatever waits for an answer,
a lock or the event loop resumes, and a remote call ends (with a failure at worst, whose number
`Limit` bounds). `HomeworkRefresh`: the same for the scheduled refresh, and strong fairness for
getting the lock, since `asyncio.Lock` serves in the order of arrival. `IcsFeed`: the jobs refresh
what is bound, clients poll on. `QQPush`: refreshes of the user's platforms go on, and so
`_refresh_user` is called again; its queries end. `Accounts`: calls, transactions and hooks end, with
whatever answer. Nothing is assumed of users, of Meet, of the platforms, of IDS or of the
robot: `DeadCookieNoticed` has its two hypotheses in its statement, that refreshes which have to log
in go on (`RefreshesLogIn`: an account need not have any) and that IDS does not in the end refuse
the stored password (`PasswordHolds`). TLC refutes it without the second.

## 5. Where code and documents disagree

Shown by runs (`findings` in `PROJECT.json` quotes the lines):

- `BareSuccess`: unbind and bind again while UPDATE is under way, and the round moves the *new*
  row to SUCCESS without an event id. `refresh_task.py:534` says such an entry goes back to
  PENDING; the code passes over it for ever.
- `BackfillLost`: `bind` commits the binding, then inserts all entries; a hook that inserts one of
  them in between makes the whole backfill fail.
- `UnbindLeaves`: a refresh that fetches while its platform is unbound inserts its homeworks after
  the removal.
- `FeedStale`: a poll between a refresh's stamp and its insertion hides the homeworks until the
  next refresh.
- `RemindersLost`: two refreshes rebuild the reminders at once, with a new homework between their
  queries. The second meets a taken job id in the middle of its loop; the jobs it has added by
  then are on no list. Each later rebuilding fails at their ids, and the homeworks listed behind
  them have no reminder until a leaked job fires or the process restarts.

Seen while modelling, by other properties tried and refuted, but not kept as runs:

- A platform is unbound and bound again within a round's interval: a homework that comes back (ids
  are made from what the platform calls it, `model/db/homework.py:31`) meets its old entry, so that
  the hook fails (`event_handlers.py:34`); then the job, which started without the homework, drops
  the entry, and nobody tracks the homework again. This is `AllTracked` with a removal and a refresh;
  `MeetMirror` has the removal only.
- A creation whose answer is lost is retried and makes a second event (`refresh_task.py:404-408`).
- A mark set between the round's snapshot and its hook is pulled back by PULL (`:445`, `:554`).
- A homework removed while its entry is PENDING_UPDATE: tracking is dropped, the event stays
  (`:450`, `:515`). When the homework is found again, a second event is made for it.
- A homework removed while the round has a mark for it from Meet (`:554`): the commit fails on the
  missing row, and with it go the ids of all events the round has created, other users' too.
- A user whose key was refused keeps the events in Meet; after a new binding the job makes
  them again. So does one who unbinds during a round that has created events, and binds again.
- Who unbinds during a round that found the old key broken, and binds a working one before the
  round ends, loses it (`:153`; `README.md:34` says only a broken one is dropped).
- Overlapping bind and unbind of a platform may leave it bound without a refresh job
  (`platform/auth.py:76`; `README.md:32`).
- A change of strategy from realtime to daily during a rebuilding may leak the daily job, after
  which no new setting takes effect until a restart.
- `push_wild._unbind` triggers its hook before its commit (`push_official` commits first): the
  strategy may stay until the next refresh. And it merges a stale copy, which takes back a channel
  configured meanwhile. `OnlyRefusedUnbound` names this exception.
- Overlapping polls of one QR session, or a poll during which the session is dropped as expired,
  end with a KeyError and status 500 (`auth/ids.py:102`, `:106`, `:109`; its docstring, `:81-84`,
  lists other errors). This is `KeyErrorEnds`.
- A round of the Meet job between the remote part of an account's deletion and its commit makes
  the events again; they stay in Meet.
- A `_refresh_user` that overlaps with the deletion of its account leaves jobs behind until a
  restart; `JobsFollow` assumes that none does (`LeavesAlone`).
- A crash between the commit of a registration and its hook leaves the account without a row in
  `qqpushconfig` for good. `Configured` names this exception.
- A deletion of an account that fails at its commit has lost its refresh jobs already, until a
  restart (`homework/refresh_task.py`). `JobsFollowBindings` names this exception.
- When IDS no longer accepts the stored password, as it was changed there or a captcha is wanted,
  every automatic login ends in LoginFailed (`auth/ids.py:40-44`, by way of `auth/login.py:123`).
  `UserReloginRequiredEvent` is emitted only for accounts without a password, so nobody is ever told
  to log in again, where `README.md:31` speaks of an automatic new login. `DeadCookieNoticed` makes it
  a hypothesis that this does not last.
- A homework whose done mark is taken back in time has no reminder until the next refresh: no
  hook tells QQ push.

## 6. The proofs

All theorems hold for every value of the constants under the named `ASSUME`s, which say that null
values are not data, owners and limits have their types and bounds are numbers.

| theorem | argument |
| --- | --- |
| `TypeCorrect` (`MeetSyncProofs`) | `TypeOK` is inductive, from the types of the transition table and of the pending writes |
| `SuccessKeepsEvent` | `SuccessHasEvent`, where `Undisturbed`: `TypeOK /\ EventInv` is inductive. What the snapshot holds of an entry is in the row still, and SUCCESS or PENDING_DELETE is only written to an entry that has an event or gets one. `BareSuccess` shows that it fails without the assumption |
| `EventsBelong` | `TypeOK /\ EventBelongs` is inductive. `Held` covers the row, the snapshot and the pending write of a homework, because ids move between them: the invariant about rows alone is not inductive. A creation names the homeworks of its batch in order, with ids nothing holds yet (`FreshEvents`); the pairing is right for an answer as long as the batch (`BatchHeld`), and any other stores no id. Where the lengths are not compared (`PairedUnchecked`) it fails: an answer that leaves out the first event is off by one |
| `OnlyRefusedGivenUp` (`MeetTrackingProofs`) | `UnbindInv`, without assumptions: a user gets on the list by a refused call only, the snapshot's key does not change, and no revoked key works again |
| `RoundsKeepEntries` | where `Undisturbed`: `RoundInv` says, phase by phase, that a round writes only to entries it is done with (`WritesSettled`), and that all are in the table with the ids it has read |
| `WorkingBindingsStay` | `NoSpuriousUnbind`, where `Undisturbed`: with `KeysKept`, the key of a binding is the one the round has read |
| `HomeworksTracked` | `AllTracked`, where `Orderly`: with `RoundInv` and `TrackInv`. An entry is only dropped, or about to be, when it is dispensable (`DropsJustified`), and a homework the round has found missing stays so until it commits (`GoneStaysGone`) |
| `EventsNotForgotten` | `NoStrayEvent`, where `Quiet` and `Tidy`: with `RoundInv`, `EventBelongs` and `StrayInv`. The event of a known homework of a bound user is named by the entry or by what the round will write (`ClaimedNamed`); an entry that waits for its event to be created has no living one (`PendingDead`); an id is dropped only where nobody claims the event (`DropsUnclaimed`), and what is not claimed stays so during a round (`UnclaimedStays`) |
| `RefreshTypeCorrect`, `RefreshesSpaced` (`HomeworkRefreshProofs`) | with `StampInv`: who is about to commit a stamp holds the lock, and the age he has read has not been renewed since |
| `JobsFollow` (`HomeworkRefreshProofs`) | `JobsFollowBindings`, which assumes that no binding overlaps a removal (`Alike`). A job without a row is that of a binding about to commit, a row without a job is being removed or its deletion has failed (`JobsAccounted`); the hook of who is about to commit has run and is not undone (`HooksHold`); and of overlapping bindings, or removals, the row has changed at most as they all intend since each read it (`SnapshotsHold`). So a binding whose INSERT fails has been overtaken by one whose row is there, and the job it leaves is that row's |
| `RefreshImplementsTable` | every step inserts what is not there, removes all, or leaves the table alone |
| `FeedTypeCorrect`, `ForcedCacheCauses` (`IcsFeedProofs`) | with `Unmade`: a subscription not made has not been polled; then case by case over what may make a client outdated |
| `FirstAnswerIsABody` | with `NothingYet`: until the first body, polls compare with 1970 |
| `PushTypeCorrect` (`QQPushProofs`) | `TypeOK` is inductive, with any number of overlapping calls |
| `PushJobsRecorded` | with `JobsInv`: between clearing and adding, the list is empty. It is only inductive together with `Alone`; that is where overlapping calls break the account |
| `PushBufferKept`, `PushOnlyRefusedUnbound` | with `SendInv`: while the lock is held the buffer is what the message carries, and a message being merged was to a channel the robot does not know |
| `TypeCorrect`, `AlwaysConfigured` (`AccountsProofs`) | inductive as they stand, with the type invariant |
| `TokensRefine`, `VersionsStayDead` | every step renews the version, retires it, or leaves it alone; so a version that was made and is not in force (`GivenUp`) stays so |
| `CodeLogsInOnce` | with `CodesOnce`: of a code there is at most one poll past the scan, none while its session is kept, and none once it has logged in |

Only model-checked: all liveness (`Settles`, `Converges`, `BrokenKeyUnbinds`, `LeftoversGo`,
`ShownGetsStored`, `RefreshesEnd`, `CalendarFollows`, the `JobsFollow` of `QQPush`,
`ScannedCodeLogsIn`, `DeadCookieNoticed`), as it is under fairness and beyond this prover.
No module has RECURSIVE operators.

**Hypotheses on the behaviour.** Five theorems of the Meet job and one of the refresh hold where
histories of section 5 do not happen, and say so: as `Spec /\ []H => []Inv`, or in the property. They
bound no number of events but those of crashes and lost answers: they say what may not overlap.

- `Undisturbed`: while a round is under way, no unbinding and no deletion of an account is.
- `Orderly`: `Undisturbed`, no crash, and a hook or a backfill meets no entry of the homeworks it
  is to insert (otherwise it inserts none, `event_handlers.py:34`), nor each other's.
- `Quiet`: `Undisturbed`, no lost answer, no crash, and no round has a mark for a homework that is
  gone. `Tidy`, of steps: a homework that comes back and a user who binds again have no event left
  in Meet.
- `Alike`, which is part of `JobsFollowBindings` itself: no binding of the platform overlaps an
  unbinding of it or a deletion of the account. Bindings may overlap one another, and removals too.

They hold all through the runs that check the properties: `Orderly` in each state of `MeetMirror`,
`Alike` in each of `RefreshCare`,
and `Quiet` and `Tidy` in `MeetLive` until an answer is lost or the process dies, after which
`NoStrayEvent` claims nothing. Nor can they be left out: with the events that each of them excludes TLC violates
`SuccessHasEvent`, `AllTracked`, `NoSpuriousUnbind` and `NoStrayEvent` by the histories of section
5. The invariants `EventInv`, `RoundInv`, `UnbindInv`, `TrackInv` and `StrayInv` were checked by
TLC under their hypotheses, with unbindings and removals outside the rounds, before they were
proved.

## 7. Not modelled

- The limiter: a wrapper around the library `throttled`. It delays the job, and refuses requests
  before they change anything, which is how the modules treat it.
- `push_official`: the protocol of `push_wild`, but for the order of commit and hook, which makes no
  difference to `QQPush`, where `_refresh_user` may start at any moment. Two things seen in it: it
  does not register the symbol `qqpush.push_dying_homeworks`, so that `POST
  /api/qqpush/_/dying_homeworks` fails where `README.md:72` has either module serve; and the inner
  loop of `push_official.py:101-108` repeats the last homework.
- The cancellation of hooks at a shutdown, but for the crash that loses them.
- Cycles of row locks between the job and others: a wait only delays or times out.
- The platform adapters, crypto, routers, rendering of calendars and messages, the static tables of
  hooks and symbols: data, or fixed at the start.
- SQLite, which the README keeps for development.

## 8. Running it

`tlc -config <Run>.cfg <MC module>`, with the module `PROJECT.json` names for the run, and
`tlapm <X>Proofs.tla`.
