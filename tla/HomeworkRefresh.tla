---------------------------- MODULE HomeworkRefresh ----------------------------
(***************************************************************************)
(* How the homeworks of one user on one platform get into the table and    *)
(* out of it: service/platform/auth.py (bind, unbind), platform/fetch.py   *)
(* (cooldown, fetch, retry, new login), homework/refresh_homework.py,      *)
(* homework/refresh_task.py (the scheduled refresh and its hooks) and the  *)
(* removal hook of homework/get_cached_homework.py; and what the deletion  *)
(* of the account does to all of it (auth/login.py, delete_account).  The  *)
(* rows, the lock and the scheduled job are keyed by user and platform.    *)
(* POST /refresh without a platform takes them in turn, with one session:  *)
(* for one of them, the others are a longer wait and another reason to     *)
(* fail.                                                                   *)
(*                                                                         *)
(* Concurrency is that of MeetSync: asyncio, a session per request, job    *)
(* and hook, snapshots of InnoDB.  A session that flushes an UPDATE of a   *)
(* row that is gone, or an INSERT of one that exists or whose account is   *)
(* gone, fails as a whole.  The hooks add_job, del_job and _on_delete_user *)
(* have no await: they are over before the request that triggers them      *)
(* comes back from its commit, and so they are part of the step that       *)
(* triggers them.                                                          *)
(*                                                                         *)
(* Time.  Only the age of last_refreshed_homework matters, and only up to  *)
(* the cooldown: an age stops at Cooldown.  The clock does not advance     *)
(* while a stamp is being committed, a matter of milliseconds.             *)
(*                                                                         *)
(* Bounds: Limit bounds what the user, the platform and the host do.       *)
(***************************************************************************)
EXTENDS Naturals, FiniteSets

CONSTANTS
    HW,         \* the homeworks the platform may show
    Scheduled,  \* the scheduled refresh (one instance at a time)
    Manual,     \* refreshes by POST /api/homework/refresh
    Requests,   \* requests to bind or unbind the platform, or to delete the account
    NoOne,      \* the lock is free
    Cooldown,   \* homework_cooldown_ttl
    Attempts,   \* homework_refresh_attempts
    Limit

Kinds == {"request", "change", "fault", "lock"}
Refreshes == Manual \cup {Scheduled}

ASSUME RefreshesAssumption == Scheduled \notin Manual /\ NoOne \notin Refreshes
ASSUME CooldownAssumption == Cooldown \in Nat \ {0}
ASSUME AttemptsAssumption == Attempts \in Nat \ {0}
ASSUME LimitAssumption == Limit \in [Kinds -> Nat]

VARIABLES
    account,    \* whether the account exists
    bound,      \* whether platforminfo has the row
    age,        \* the age of its last_refreshed_homework
    stored,     \* the rows of the homework table
    shown,      \* the homeworks the platform shows
    news,       \* the ids the last after_refresh hook was given
    job,        \* whether the scheduler has the job
    lock,       \* the holder of _refresh_cooldown_locks
    ref,        \* the refreshes under way
    req,        \* the requests under way
    cleaning,   \* unbind requests whose removal hook has not run yet
    used

rowVars == <<account, bound, age>>
vars == <<rowVars, stored, shown, news, job, lock, ref, req, cleaning, used>>

\* The age of datetime.fromtimestamp(0), and of real stamps.
Never == Cooldown + 1
Ages == 0 .. Never

RefreshStates == {"idle", "waiting", "stamping", "fetching", "storing"}
RequestStates == {"idle", "bind", "unbind", "leave",
                  "bindCommit", "unbindCommit", "leaveCommit"}

\* A refresh: what its snapshot shows of the table, what it has fetched, how
\* often it has timed out, whether new cookies are to be written.
RefreshRecords == [pc: RefreshStates, seen: SUBSET HW, got: SUBSET HW,
                   tries: 0 .. Attempts - 1, dirty: BOOLEAN]
IdleRefresh == [pc |-> "idle", seen |-> {}, got |-> {}, tries |-> 0, dirty |-> FALSE]

\* A request: what its snapshot shows of the row.
RequestRecords == [pc: RequestStates, sawBound: BOOLEAN, sawAge: Ages]
IdleRequest == [pc |-> "idle", sawBound |-> FALSE, sawAge |-> Never]

\* Every variable holds a value of its kind; in particular attempts stay within
\* their number, and only refreshes hold the lock.
TypeOK ==
    /\ account \in BOOLEAN /\ bound \in BOOLEAN /\ age \in Ages
    /\ stored \subseteq HW /\ shown \subseteq HW /\ news \subseteq HW
    /\ job \in BOOLEAN
    /\ lock \in Refreshes \cup {NoOne}
    /\ ref \in [Refreshes -> RefreshRecords]
    /\ req \in [Requests -> RequestRecords]
    /\ cleaning \subseteq Requests
    /\ used \in [Kinds -> Nat]

Init ==
    /\ account = TRUE /\ bound = FALSE /\ age = Never
    /\ stored = {} /\ shown \in SUBSET HW /\ news = {}
    /\ job = FALSE
    /\ lock = NoOne
    /\ ref = [r \in Refreshes |-> IdleRefresh]
    /\ req = [b \in Requests |-> IdleRequest]
    /\ cleaning = {}
    /\ used = [kind \in Kinds |-> 0]

Spend(kind) ==
    /\ used[kind] < Limit[kind]
    /\ used' = [used EXCEPT ![kind] = @ + 1]

-------------------------------------------------------------------------------
(* A refresh.                                                              *)

\* The session's first SELECT fixes what the refresh sees of the table; without
\* a binding it ends at once (PlatformNotBound).
RefreshStarts(r) ==
    /\ ref[r].pc = "idle"
    /\ r = Scheduled => job
    /\ bound
    /\ ref' = [ref EXCEPT ![r] = [IdleRefresh EXCEPT !.pc = "waiting", !.seen = stored]]
    /\ UNCHANGED <<rowVars, stored, shown, news, job, lock, req, cleaning, used>>

\* Mutant: the check and the stamp are not covered by the lock.
PassesUnlocked(r) ==
    /\ ref[r].pc = "waiting"
    /\ bound /\ age >= Cooldown
    /\ lock' = r
    /\ ref' = [ref EXCEPT ![r].pc = "stamping"]
    /\ UNCHANGED <<rowVars, stored, shown, news, job, req, cleaning, used>>

\* _check_platform_cooldown, under the lock and in a session of its own: the
\* platform has cooled down.
PassesCooldown(r) ==
    /\ ref[r].pc = "waiting"
    /\ lock = NoOne
    /\ bound /\ age >= Cooldown
    /\ lock' = r
    /\ ref' = [ref EXCEPT ![r].pc = "stamping"]
    /\ UNCHANGED <<rowVars, stored, shown, news, job, req, cleaning, used>>

\* It has not (RefreshCoolingDown), or the row has gone (get_one raises).
IsTurnedAway(r) ==
    /\ ref[r].pc = "waiting"
    /\ lock = NoOne
    /\ ~bound \/ age < Cooldown
    /\ ref' = [ref EXCEPT ![r] = IdleRefresh]
    /\ UNCHANGED <<rowVars, stored, shown, news, job, lock, req, cleaning, used>>

\* Mutant: a commit that fails does not give the lock back.
StampsAndKeepsLock(r) ==
    /\ ref[r].pc = "stamping"
    /\ lock' = IF bound THEN NoOne ELSE lock
    /\ age' = IF bound THEN 0 ELSE age
    /\ ref' = [ref EXCEPT ![r] = IF bound THEN [@ EXCEPT !.pc = "fetching"] ELSE IdleRefresh]
    /\ UNCHANGED <<account, bound, stored, shown, news, job, req, cleaning, used>>

\* The stamp is committed, before anything is fetched; the UPDATE fails when the
\* row has gone.  The lock is given back either way.
Stamps(r) ==
    /\ ref[r].pc = "stamping"
    /\ lock' = NoOne
    /\ age' = IF bound THEN 0 ELSE age
    /\ ref' = [ref EXCEPT ![r] = IF bound THEN [@ EXCEPT !.pc = "fetching"] ELSE IdleRefresh]
    /\ UNCHANGED <<account, bound, stored, shown, news, job, req, cleaning, used>>

\* platform.get_homework answers, at once or after a new login of this attempt or
\* an earlier one, whose cookies are then part of the session's changes.
Fetches(r) ==
    /\ ref[r].pc = "fetching"
    /\ \E dirty \in BOOLEAN :
          ref' = [ref EXCEPT ![r] = [@ EXCEPT !.pc = "storing", !.got = shown,
                                              !.dirty = dirty]]
    /\ UNCHANGED <<rowVars, stored, shown, news, job, lock, req, cleaning, used>>

\* Mutant: one attempt too many.
FetchTimesOutLate(r) ==
    /\ ref[r].pc = "fetching"
    /\ Spend("fault")
    /\ IF ref[r].tries + 1 > Attempts
       THEN ref' = [ref EXCEPT ![r] = IdleRefresh]
       ELSE ref' = [ref EXCEPT ![r].tries = @ + 1]
    /\ UNCHANGED <<rowVars, stored, shown, news, job, lock, req, cleaning>>

\* A timeout, of the first call, the login or the second call: another attempt,
\* as long as there is one.
FetchTimesOut(r) ==
    /\ ref[r].pc = "fetching"
    /\ Spend("fault")
    /\ IF ref[r].tries + 1 >= Attempts
       THEN ref' = [ref EXCEPT ![r] = IdleRefresh]
       ELSE ref' = [ref EXCEPT ![r].tries = @ + 1]
    /\ UNCHANGED <<rowVars, stored, shown, news, job, lock, req, cleaning>>

\* Any other failure ends it: the login is refused, an answer cannot be read, the
\* commit is refused (POST /refresh without a platform commits what it has to
\* write for all platforms so far).
RefreshFails(r) ==
    /\ ref[r].pc \in {"fetching", "storing"}
    /\ Spend("fault")
    /\ ref' = [ref EXCEPT ![r] = IdleRefresh]
    /\ UNCHANGED <<rowVars, stored, shown, news, job, lock, req, cleaning>>

\* Mutant: homeworks that are there already are accepted, and announced again.
StoresAnyway(r) ==
    /\ ref[r].pc = "storing"
    /\ stored' = stored \cup ref[r].got
    /\ news' = ref[r].got \ ref[r].seen
    /\ ref' = [ref EXCEPT ![r] = IdleRefresh]
    /\ UNCHANGED <<rowVars, shown, job, lock, req, cleaning, used>>

\* Mutant: the difference is taken the wrong way round.
StoresWhatIsGone(r) ==
    /\ ref[r].pc = "storing"
    /\ stored' = stored \cup (ref[r].seen \ ref[r].got)
    /\ news' = ref[r].seen \ ref[r].got
    /\ ref' = [ref EXCEPT ![r] = IdleRefresh]
    /\ UNCHANGED <<rowVars, shown, job, lock, req, cleaning, used>>

\* What the snapshot does not have is inserted, and committed with the cookies;
\* then the hook is triggered.  A duplicate id, a homework of an account that has
\* gone, or cookies for a row that has gone, fail the commit.
Stores(r) ==
    LET new == ref[r].got \ ref[r].seen IN
    /\ ref[r].pc = "storing"
    /\ IF new \cap stored # {} \/ (new # {} /\ ~account) \/ (ref[r].dirty /\ ~bound)
       THEN UNCHANGED <<stored, news>>
       ELSE stored' = stored \cup new /\ news' = new
    /\ ref' = [ref EXCEPT ![r] = IdleRefresh]
    /\ UNCHANGED <<rowVars, shown, job, lock, req, cleaning, used>>

-------------------------------------------------------------------------------
(* Binding and unbinding the platform.                                     *)

\* A request arrives, and UserDep fixes its snapshot.
RequestStarts(b, kind) ==
    /\ req[b].pc = "idle" /\ account
    /\ Spend("request")
    /\ req' = [req EXCEPT ![b] = [pc |-> kind, sawBound |-> bound, sawAge |-> age]]
    /\ UNCHANGED <<rowVars, stored, shown, news, job, lock, ref, cleaning>>

\* The platform refuses the credentials.
LoginFails(b) ==
    /\ req[b].pc = "bind"
    /\ req' = [req EXCEPT ![b] = IdleRequest]
    /\ UNCHANGED <<rowVars, stored, shown, news, job, lock, ref, cleaning, used>>

\* bind, after the login: the row is merged into the session, and the hook
\* platform.after_bind adds the job.
BindMerges(b) ==
    /\ req[b].pc = "bind"
    /\ job' = TRUE
    /\ req' = [req EXCEPT ![b].pc = "bindCommit"]
    /\ UNCHANGED <<rowVars, stored, shown, news, lock, ref, cleaning, used>>

\* The commit: an INSERT or an UPDATE, by what the snapshot shows; an unchanged
\* stamp is not written.  It fails when the row has appeared, or gone, or the
\* account has.
BindCommits(b) ==
    /\ req[b].pc = "bindCommit"
    /\ IF account /\ req[b].sawBound = bound
       THEN /\ bound' = TRUE
            /\ age' = IF bound /\ req[b].sawAge = Never THEN age ELSE Never
            /\ UNCHANGED account
       ELSE UNCHANGED rowVars
    /\ req' = [req EXCEPT ![b] = IdleRequest]
    /\ UNCHANGED <<stored, shown, news, job, lock, ref, cleaning, used>>

\* Mutant: nobody listens to platform.after_unbind for the job.
UnbindKeepsJob(b) ==
    /\ req[b].pc = "unbind"
    /\ cleaning' = cleaning \cup {b}
    /\ req' = [req EXCEPT ![b].pc = "unbindCommit"]
    /\ UNCHANGED <<rowVars, stored, shown, news, job, lock, ref, used>>

\* unbind: the row, if the snapshot has it, is to be deleted; the hooks
\* platform.after_unbind remove the job and start the removal of the homeworks.
\* (b unbinds again only when its removal is over: another request may meanwhile.)
UnbindTriggers(b) ==
    /\ req[b].pc = "unbind"
    /\ b \notin cleaning
    /\ job' = FALSE
    /\ cleaning' = cleaning \cup {b}
    /\ req' = [req EXCEPT ![b].pc = "unbindCommit"]
    /\ UNCHANGED <<rowVars, stored, shown, news, lock, ref, used>>

\* The commit; deleting a row that has gone is no error.
UnbindCommits(b) ==
    /\ req[b].pc = "unbindCommit"
    /\ bound' = (bound /\ ~req[b].sawBound)
    /\ age' = IF bound' THEN age ELSE Never
    /\ req' = [req EXCEPT ![b] = IdleRequest]
    /\ UNCHANGED <<account, stored, shown, news, job, lock, ref, cleaning, used>>

\* delete_platform_homework, in the background.
Cleans(b) ==
    /\ b \in cleaning
    /\ stored' = {}
    /\ cleaning' = cleaning \ {b}
    /\ UNCHANGED <<rowVars, shown, news, job, lock, ref, req, used>>

-------------------------------------------------------------------------------
(* Deleting the account.                                                   *)

\* delete_account: the hook auth.after_delete_user removes the jobs.
LeaveTriggers(b) ==
    /\ req[b].pc = "leave"
    /\ job' = FALSE
    /\ req' = [req EXCEPT ![b].pc = "leaveCommit"]
    /\ UNCHANGED <<rowVars, stored, shown, news, lock, ref, cleaning, used>>

\* The commit; what refers to the account goes with it (ON DELETE CASCADE).
LeaveCommits(b) ==
    /\ req[b].pc = "leaveCommit"
    /\ account' = FALSE /\ bound' = FALSE /\ age' = Never /\ stored' = {}
    /\ req' = [req EXCEPT ![b] = IdleRequest]
    /\ UNCHANGED <<shown, news, job, lock, ref, cleaning, used>>

\* The cascade waits too long for the rows that a Meet synchronisation has flushed,
\* and the account stays.
LeaveFails(b) ==
    /\ req[b].pc = "leaveCommit"
    /\ Spend("lock")
    /\ req' = [req EXCEPT ![b] = IdleRequest]
    /\ UNCHANGED <<rowVars, stored, shown, news, job, lock, ref, cleaning>>

\* Its person logs in again (Accounts, Inserts).
Registers ==
    /\ ~account
    /\ account' = TRUE
    /\ UNCHANGED <<bound, age, stored, shown, news, job, lock, ref, req, cleaning, used>>

-------------------------------------------------------------------------------
(* The rest of the world.                                                  *)

\* Time passes.
Tick ==
    /\ \A r \in Refreshes : ref[r].pc # "stamping"
    /\ age < Cooldown
    /\ age' = age + 1
    /\ UNCHANGED <<account, bound, stored, shown, news, job, lock, ref, req, cleaning, used>>

\* A homework appears on the platform, or disappears from it.
PlatformChanges(h) ==
    /\ Spend("change")
    /\ shown' = IF h \in shown THEN shown \ {h} ELSE shown \cup {h}
    /\ UNCHANGED <<rowVars, stored, news, job, lock, ref, req, cleaning>>

\* The process dies or is shut down, hooks that have not run included, and starts
\* again: init_refresh_task adds a job for each row of platforminfo.
Crashes ==
    /\ Spend("fault")
    /\ job' = bound
    /\ lock' = NoOne
    /\ ref' = [r \in Refreshes |-> IdleRefresh]
    /\ req' = [b \in Requests |-> IdleRequest]
    /\ cleaning' = {}
    /\ UNCHANGED <<rowVars, stored, shown, news>>

RefreshGoesOn(r) ==
    PassesCooldown(r) \/ IsTurnedAway(r) \/ Stamps(r) \/ Fetches(r) \/ Stores(r)

RequestGoesOn(b) ==
    \/ BindMerges(b) \/ BindCommits(b) \/ UnbindTriggers(b) \/ UnbindCommits(b)
    \/ LeaveTriggers(b) \/ LeaveCommits(b)

Next ==
    \/ \E r \in Refreshes :
          RefreshStarts(r) \/ RefreshGoesOn(r) \/ FetchTimesOut(r) \/ RefreshFails(r)
    \/ \E b \in Requests :
          \/ \E kind \in {"bind", "unbind", "leave"} : RequestStarts(b, kind)
          \/ RequestGoesOn(b) \/ LoginFails(b) \/ LeaveFails(b) \/ Cleans(b)
    \/ Registers \/ Tick \/ Crashes
    \/ \E h \in HW : PlatformChanges(h)

Spec == Init /\ [][Next]_vars

(***************************************************************************)
(* Fairness: the interval trigger fires again and again, calls and         *)
(* transactions end (a failure is a step too), background hooks run, time  *)
(* passes.  A refresh that waits for the lock gets it although others come *)
(* and go, since asyncio.Lock is first come, first served.                 *)
(***************************************************************************)
Fairness ==
    /\ WF_vars(RefreshStarts(Scheduled))
    /\ \A r \in Refreshes :
          /\ SF_vars(PassesCooldown(r) \/ IsTurnedAway(r))
          /\ WF_vars(Stamps(r) \/ Fetches(r) \/ Stores(r))
    /\ \A b \in Requests : WF_vars(RequestGoesOn(b)) /\ WF_vars(Cleans(b))
    /\ WF_vars(Tick)

FairSpec == Spec /\ Fairness

-------------------------------------------------------------------------------
(* Properties.                                                             *)

\* Two refreshes are a cooldown apart, unless the platform has been bound again
\* in between: however checks and stamps interleave, and whether or not fetches
\* fail, no stamp replaces one that has not cooled down.
FetchesSpaced ==
    [][\A r \in Refreshes :
          ref[r].pc = "stamping" /\ ref'[r].pc = "fetching" => age >= Cooldown]_vars

\* The table keeps the promise of HomeworkTable: overlapping refreshes, each with
\* a snapshot of its own, never announce a homework that is already there.
Table == INSTANCE HomeworkTable WITH rows <- stored, news <- news
TableSpec == Table!Spec

\* No binding of the platform overlaps an unbinding of it, or a deletion of the
\* account; two bindings may, and two removals.  (An unbinding that overlaps a binding
\* can run its hook last and commit first: the job is gone, the row is there.)
Alike ==
    \A b, c \in Requests :
        ~ /\ req[b].pc \in {"bind", "bindCommit"}
          /\ req[c].pc \in {"unbind", "unbindCommit", "leave", "leaveCommit"}

\* As long as bindings overlap neither unbindings nor deletions: when no request is
\* under way, each job the scheduler has is that of a platform that is bound, and each
\* platform that is bound has its job unless the commit of a deletion has failed (the
\* hook has removed the jobs by then).  So it is after a restart, a deletion of the
\* account, a refused login and an INSERT that another binding makes fail, although
\* the hooks run before the commits they belong to.
JobsFollowBindings ==
    []Alike => []((\A b \in Requests : req[b].pc = "idle")
                    => (job => bound) /\ (bound /\ used["lock"] = 0 => job))

\* A refresh ends, and no failure of another one keeps it from the lock.
RefreshesEnd == \A r \in Refreshes : []<>(ref[r].pc = "idle")

\* A homework that stays on a platform that stays bound, with its job, gets into
\* the table and stays there, without anybody asking for it.
ShownGetsStored ==
    \A h \in HW : <>[](bound /\ job /\ h \in shown) => <>[](h \in stored)

-------------------------------------------------------------------------------
(* What the documentation says, and TLC refutes.                           *)

\* README.md:174: unbinding a platform cleans its homeworks.
UnbindCleans ==
    ~bound /\ cleaning = {} /\ (\A b \in Requests : req[b].pc = "idle")
        /\ (\A r \in Refreshes : ref[r].pc = "idle")
    => stored = {}

===============================================================================
