------------------------------- MODULE Accounts --------------------------------
(***************************************************************************)
(* The account of one person: logins with a password or by QR code         *)
(* (service/auth/login.py, ids.py), token versions (crypto.py), logout,    *)
(* deletion, the automatic new login of the platforms' refreshes           *)
(* (platform/base/utils.py, auth_relogin), and the hook that gives a new   *)
(* account its row for QQ push (qqpush/configure.py).  All rows are keyed  *)
(* by the person's uid.                                                    *)
(*                                                                         *)
(* Concurrency is that of MeetSync: asyncio, one session per request, job  *)
(* and hook.  A login asks the university's login service (IDS), which     *)
(* takes seconds, before it reads the row.  Here the answer of a request   *)
(* leaves before its session commits (FastAPI runs what follows the yield  *)
(* of depends_session after the response), except that a registration is   *)
(* committed first.  An UPDATE of a row that is gone, and an INSERT of one *)
(* that exists, fail; a DELETE that finds nothing does not.                *)
(*                                                                         *)
(* Simplifications.  Versions, random UUIDs, are numbered as they are      *)
(* made.  Tokens do not expire, and refreshing one makes one of the same   *)
(* version: neither changes anything here.  A cookie of IDS works or is    *)
(* dead.  IDS accepts one password of the person, or none while it wants a *)
(* captcha first; people log in with the one it accepts.  The library      *)
(* fuckids may be using either client of two polls that share a context.   *)
(*                                                                         *)
(* Bounds: Limit bounds what people, IDS and the host do.                  *)
(***************************************************************************)
EXTENDS Naturals, FiniteSets

CONSTANTS
    Requests,   \* requests of the auth router under way at a time
    Codes,      \* QR login sessions, by id
    NoCode,
    Workers,    \* refreshes that have to log in on their platform
    Passwords,  \* passwords the person may have at IDS
    NoPassword,
    Limit

Kinds == {"login", "logout", "leave", "dies", "turn", "expire", "fault", "crash"}

ASSUME NoCodeAssumption == NoCode \notin Codes
ASSUME PasswordAssumption == NoPassword \notin Passwords /\ "keep" \notin Passwords
ASSUME LimitAssumption == Limit \in [Kinds -> Nat]

VARIABLES
    version,    \* user.token_version, or NoVersion: there is no row
    password,   \* user.password, or NoPassword
    cookie,     \* whether user.ids_cookie works
    config,     \* whether qqpushconfig has the row
    made,       \* how many versions have been made
    tokens,     \* the versions there are tokens of
    hooks,      \* after_register hooks that have not run
    accepted,   \* the password IDS accepts, or NoPassword: it wants a captcha
    told,       \* UserReloginRequiredEvent has been emitted since the last login,
                \* and since the cookie died
    code,       \* _qrcode_login_sessions
    req,        \* the requests under way
    work,       \* the platform logins under way
    used

rowVars == <<version, password, cookie>>
dbVars == <<rowVars, config>>
tokenVars == <<made, tokens>>
vars == <<dbVars, tokenVars, hooks, accepted, told, code, req, work, used>>

NoVersion == 0

\* A code: whether the session is kept, the poll whose client its context holds,
\* whether the code has been scanned and confirmed, how often it has logged in.
CodeRecords == [state: {"unused", "open", "gone"}, client: Requests \cup {"none"},
                scanned: BOOLEAN, logins: Nat]
Unused == [state |-> "unused", client |-> "none", scanned |-> FALSE, logins |-> 0]

RequestStates == {"idle", "ids", "scanning", "userinfo", "keyError", "inserting",
                  "updating", "logout", "leaving"}

Stored == Passwords \cup {NoPassword}

\* A request: its code, and what it is going to write to the password, if anything.
RequestRecords == [pc: RequestStates, code: Codes \cup {NoCode},
                   wish: Stored \cup {"keep"}]
Request(pc, c, wish) == [pc |-> pc, code |-> c, wish |-> wish]
Idle == Request("idle", NoCode, "keep")

\* A platform login: what it has read of the row.
WorkRecords == [pc: {"idle", "cookie", "password", "committing"},
                sawPassword: Stored, sawCookie: BOOLEAN]
NoWork == [pc |-> "idle", sawPassword |-> NoPassword, sawCookie |-> FALSE]

\* Every variable holds a value of its kind.
TypeOK ==
    /\ version \in Nat /\ password \in Stored /\ cookie \in BOOLEAN
    /\ config \in BOOLEAN
    /\ made \in Nat /\ tokens \subseteq Nat
    /\ hooks \in Nat /\ accepted \in Stored /\ told \in BOOLEAN
    /\ code \in [Codes -> CodeRecords]
    /\ req \in [Requests -> RequestRecords]
    /\ \A q \in Requests : req[q].pc \in {"scanning", "userinfo"} => req[q].code \in Codes
    /\ work \in [Workers -> WorkRecords]
    /\ used \in [Kinds -> Nat]

Init ==
    /\ version = NoVersion /\ password = NoPassword /\ cookie = FALSE /\ config = FALSE
    /\ made = 0 /\ tokens = {}
    /\ hooks = 0 /\ accepted \in Passwords /\ told = FALSE
    /\ code = [c \in Codes |-> Unused]
    /\ req = [q \in Requests |-> Idle]
    /\ work = [w \in Workers |-> NoWork]
    /\ used = [kind \in Kinds |-> 0]

Spend(kind) ==
    /\ used[kind] < Limit[kind]
    /\ used' = [used EXCEPT ![kind] = @ + 1]

Exists == version # NoVersion

-------------------------------------------------------------------------------
(* The QR login session: ids.py.                                           *)

\* get_login_qrcode: the new session is kept.
OffersCode(c) ==
    /\ code[c].state = "unused"
    /\ code' = [code EXCEPT ![c].state = "open"]
    /\ UNCHANGED <<dbVars, tokenVars, hooks, accepted, told, req, work, used>>

\* get_login_qrcode, for anybody, first drops the sessions older than
\* qr_login_session_ttl, whether or not a poll of theirs is under way.
ClearsExpired(c) ==
    /\ code[c].state = "open"
    /\ Spend("expire")
    /\ code' = [code EXCEPT ![c].state = "gone"]
    /\ UNCHANGED <<dbVars, tokenVars, hooks, accepted, told, req, work>>

\* The person scans the code and confirms, whatever we know of it.
Scans(c) ==
    /\ code[c].state # "unused" /\ ~code[c].scanned
    /\ code' = [code EXCEPT ![c].scanned = TRUE]
    /\ UNCHANGED <<dbVars, tokenVars, hooks, accepted, told, req, work, used>>

\* qrcode_login begins: the context is given a client of this poll.  (Without a
\* session it raises QRLoginSessionNotFound, and nothing changes.)
PollStarts(q, c, wish) ==
    /\ req[q].pc = "idle"
    /\ code[c].state = "open"
    /\ code' = [code EXCEPT ![c].client = q]
    /\ req' = [req EXCEPT ![q] = Request("scanning", c, wish)]
    /\ UNCHANGED <<dbVars, tokenVars, hooks, accepted, told, work, used>>

\* Mutant: a code that is not scanned yet is dropped, like an expired one.
DropsUnscanned(q) ==
    /\ req[q].pc = "scanning" /\ ~code[req[q].code].scanned
    /\ code' = [code EXCEPT ![req[q].code].state = "gone"]
    /\ req' = [req EXCEPT ![q] = Idle]
    /\ UNCHANGED <<dbVars, tokenVars, hooks, accepted, told, work, used>>

\* QRCodeNotScanned: the session is kept for the next poll.
NotScanned(q) ==
    /\ req[q].pc = "scanning" /\ ~code[req[q].code].scanned
    /\ req' = [req EXCEPT ![q] = Idle]
    /\ UNCHANGED <<dbVars, tokenVars, hooks, accepted, told, code, work, used>>

\* Mutant: pop(session_id, None).
RemovesQuietly(q, next) ==
    /\ code' = [code EXCEPT ![req[q].code].state = "gone"]
    /\ req' = [req EXCEPT ![q] = next]

\* "del _qrcode_login_sessions[session_id]": a session that has gone during the
\* await makes it raise KeyError, which nobody translates.
Removes(q, next) ==
    IF code[req[q].code].state = "open"
    THEN /\ code' = [code EXCEPT ![req[q].code].state = "gone"]
         /\ req' = [req EXCEPT ![q] = next]
    ELSE /\ req' = [req EXCEPT ![q] = Request("keyError", NoCode, "keep")]
         /\ UNCHANGED code

\* IDS accepts the scanned code, be it for a second poll of the same context.
Scanned(q) ==
    /\ req[q].pc = "scanning" /\ code[req[q].code].scanned
    /\ Removes(q, Request("userinfo", req[q].code, req[q].wish))
    /\ UNCHANGED <<dbVars, tokenVars, hooks, accepted, told, work, used>>

\* IDS says that the code has expired, or the call fails for good; only when IDS
\* asks for something else than a scan, the session is kept.
ScanFails(q) ==
    /\ req[q].pc = "scanning"
    /\ Spend("fault")
    /\ \/ Removes(q, Idle)
       \/ req' = [req EXCEPT ![q] = Idle] /\ UNCHANGED code
    /\ UNCHANGED <<dbVars, tokenVars, hooks, accepted, told, work>>

\* The request ends with status 500.
KeyErrorEnds(q) ==
    /\ req[q].pc = "keyError"
    /\ req' = [req EXCEPT ![q] = Idle]
    /\ UNCHANGED <<dbVars, tokenVars, hooks, accepted, told, code, work, used>>

\* A client is closed when the poll that made it is over.
ClientOpen(c) ==
    code[c].client # "none" /\ req[code[c].client].code = c

\* _get_userinfo fails: the context has the client of another poll, which is closed,
\* or not the one that has logged in; or the network fails.
UserinfoFails(q) ==
    /\ req[q].pc = "userinfo"
    /\ \/ code[req[q].code].client # q /\ UNCHANGED used
       \/ Spend("fault")
    /\ req' = [req EXCEPT ![q] = Idle]
    /\ UNCHANGED <<dbVars, tokenVars, hooks, accepted, told, code, work>>

-------------------------------------------------------------------------------
(* Logins: login.py.                                                       *)

\* POST /login: IDS is asked.
LoginStarts(q) ==
    /\ req[q].pc = "idle"
    /\ Spend("login")
    /\ req' = [req EXCEPT ![q] = Request("ids", NoCode, "keep")]
    /\ UNCHANGED <<dbVars, tokenVars, hooks, accepted, told, code, work>>

\* LoginFailed: IDS refuses, wants a captcha, or does not answer.
LoginFails(q) ==
    /\ req[q].pc = "ids"
    /\ req' = [req EXCEPT ![q] = Idle]
    /\ UNCHANGED <<dbVars, tokenVars, hooks, accepted, told, code, work, used>>

\* IDS has told the uid, and session.get(User, uid) reads the row.  When there is
\* one, it is going to be updated, and tokens of its version are handed out.  (A
\* password that is not stored is not changed by being cleared.)
ReadsUser(q, wish) ==
    /\ req' = [req EXCEPT ![q] = Request(
                  IF Exists THEN "updating" ELSE "inserting", NoCode,
                  IF wish = NoPassword /\ password = NoPassword THEN "keep" ELSE wish)]
    /\ tokens' = IF Exists THEN tokens \cup {version} ELSE tokens

\* The password that is to be stored is the one IDS has just accepted.
IdsAccepts(q) ==
    /\ req[q].pc = "ids" /\ accepted # NoPassword
    /\ ReadsUser(q, accepted)
    /\ UNCHANGED <<dbVars, made, hooks, accepted, told, code, work, used>>

\* ids.qrcode_login returns.
GetsUserinfo(q) ==
    LET c == req[q].code IN
    /\ req[q].pc = "userinfo" /\ ClientOpen(c)
    /\ ReadsUser(q, req[q].wish)
    /\ code' = [code EXCEPT ![c].logins = @ + 1]
    /\ UNCHANGED <<dbVars, made, hooks, accepted, told, work, used>>

\* What a registration stores: without a password (qrcode_login) it is None.
NewPassword(q) == IF req[q].wish = "keep" THEN NoPassword ELSE req[q].wish

\* Mutant: nobody listens to auth.after_register.
InsertsAlone(q) ==
    /\ req[q].pc = "inserting"
    /\ IF Exists THEN UNCHANGED <<rowVars, tokenVars, told>>
       ELSE /\ made' = made + 1 /\ version' = made'
            /\ password' = NewPassword(q) /\ cookie' = TRUE
            /\ tokens' = tokens \cup {version'}
            /\ told' = FALSE
    /\ req' = [req EXCEPT ![q] = Idle]
    /\ UNCHANGED <<config, hooks, accepted, code, work, used>>

\* A registration commits; then after_register is triggered and tokens are handed
\* out.  A row that has appeared since the read makes the INSERT fail.
Inserts(q) ==
    /\ req[q].pc = "inserting"
    /\ IF Exists THEN UNCHANGED <<rowVars, tokenVars, hooks, told>>
       ELSE /\ made' = made + 1 /\ version' = made'
            /\ password' = NewPassword(q) /\ cookie' = TRUE
            /\ tokens' = tokens \cup {version'}
            /\ hooks' = hooks + 1 /\ told' = FALSE
    /\ req' = [req EXCEPT ![q] = Idle]
    /\ UNCHANGED <<config, accepted, code, work, used>>

\* Mutant: an account that has gone meanwhile is put back.
UpdatesOrInserts(q) ==
    /\ req[q].pc = "updating"
    /\ version' = IF Exists THEN version ELSE made
    /\ password' = NewPassword(q) /\ cookie' = TRUE /\ told' = FALSE
    /\ req' = [req EXCEPT ![q] = Idle]
    /\ UNCHANGED <<config, tokenVars, hooks, accepted, code, work, used>>

\* The commit of a login to an account: the columns it has changed.  (A password
\* that is stored again is another text, so it is written.)
Updates(q) ==
    /\ req[q].pc = "updating"
    /\ IF ~Exists THEN UNCHANGED <<rowVars, told>>
       ELSE /\ password' = IF req[q].wish = "keep" THEN password ELSE req[q].wish
            /\ cookie' = TRUE /\ told' = FALSE
            /\ UNCHANGED version
    /\ req' = [req EXCEPT ![q] = Idle]
    /\ UNCHANGED <<config, tokenVars, hooks, accepted, code, work, used>>

\* Mutant: the hook runs whether or not it has been triggered.
ConfiguresAnytime ==
    /\ hooks' = hooks - 1
    /\ config' = Exists
    /\ UNCHANGED <<rowVars, tokenVars, accepted, told, code, req, work, used>>

\* The hook of configure.py, in the background: the row of an account that is gone
\* cannot be inserted, nor that of one that has it.
HookConfigures ==
    /\ hooks > 0
    /\ hooks' = hooks - 1
    /\ config' = Exists
    /\ UNCHANGED <<rowVars, tokenVars, accepted, told, code, req, work, used>>

-------------------------------------------------------------------------------
(* Logout and deletion.                                                    *)

\* validate_token, by UserDep: the account exists, and has the token's version.
Validates == Exists /\ version \in tokens

LogoutStarts(q) ==
    /\ req[q].pc = "idle" /\ Validates
    /\ Spend("logout")
    /\ req' = [req EXCEPT ![q] = Request("logout", NoCode, "keep")]
    /\ UNCHANGED <<dbVars, tokenVars, hooks, accepted, told, code, work>>

\* The new version is committed, if there still is an account.
LogoutCommits(q) ==
    /\ req[q].pc = "logout"
    /\ IF Exists THEN made' = made + 1 /\ version' = made'
       ELSE UNCHANGED <<made, version>>
    /\ req' = [req EXCEPT ![q] = Idle]
    /\ UNCHANGED <<password, cookie, config, tokens, hooks, accepted, told, code, work, used>>

\* delete_account, up to the end of before_delete_user, which asks Meet.
LeaveStarts(q) ==
    /\ req[q].pc = "idle" /\ Validates
    /\ Spend("leave")
    /\ req' = [req EXCEPT ![q] = Request("leaving", NoCode, "keep")]
    /\ UNCHANGED <<dbVars, tokenVars, hooks, accepted, told, code, work>>

\* The hook is fatal: it raises RaceLimitExceed, and the account stays.
LeaveFails(q) ==
    /\ req[q].pc = "leaving"
    /\ Spend("fault")
    /\ req' = [req EXCEPT ![q] = Idle]
    /\ UNCHANGED <<dbVars, tokenVars, hooks, accepted, told, code, work>>

\* The commit: the row goes, whichever account it is by now, and with it all that
\* refers to it (ON DELETE CASCADE).
LeaveCommits(q) ==
    /\ req[q].pc = "leaving"
    /\ version' = NoVersion /\ password' = NoPassword /\ cookie' = FALSE
    /\ config' = FALSE
    /\ req' = [req EXCEPT ![q] = Idle]
    /\ UNCHANGED <<tokenVars, hooks, accepted, told, code, work, used>>

-------------------------------------------------------------------------------
(* The automatic new login: base/utils.py and auth_relogin.                *)

\* IDS no longer accepts the stored cookie.
CookieDies ==
    /\ Exists /\ cookie
    /\ Spend("dies")
    /\ cookie' = FALSE /\ told' = FALSE
    /\ UNCHANGED <<version, password, config, tokenVars, hooks, accepted, code, req, work>>

\* The person changes the password at IDS, or IDS wants a captcha before it accepts
\* any, or it has been given one.
IdsTurns(p) ==
    /\ p # accepted
    /\ Spend("turn")
    /\ accepted' = p
    /\ UNCHANGED <<dbVars, tokenVars, hooks, told, code, req, work>>

\* A refresh finds the platform's own cookies invalid, and tries that of IDS.
WorkStarts(w) ==
    /\ work[w].pc = "idle" /\ Exists
    /\ work' = [work EXCEPT ![w] = [pc |-> "cookie", sawPassword |-> password,
                                    sawCookie |-> cookie]]
    /\ UNCHANGED <<dbVars, tokenVars, hooks, accepted, told, code, req, used>>

CookieAccepted(w) ==
    /\ work[w].pc = "cookie" /\ work[w].sawCookie
    /\ work' = [work EXCEPT ![w] = NoWork]
    /\ UNCHANGED <<dbVars, tokenVars, hooks, accepted, told, code, req, used>>

\* Mutant: nobody is told.
GivesUpSilently(w) ==
    /\ work[w].pc = "cookie" /\ ~work[w].sawCookie
    /\ work' = [work EXCEPT ![w] = IF @.sawPassword = NoPassword THEN NoWork
                                   ELSE [@ EXCEPT !.pc = "password"]]
    /\ UNCHANGED <<dbVars, tokenVars, hooks, accepted, told, code, req, used>>

\* relogin: without a password the person has to be told; else it is used.
CookieRefused(w) ==
    /\ work[w].pc = "cookie" /\ ~work[w].sawCookie
    /\ work' = [work EXCEPT ![w] = IF @.sawPassword = NoPassword THEN NoWork
                                   ELSE [@ EXCEPT !.pc = "password"]]
    /\ told' = (told \/ work[w].sawPassword = NoPassword)
    /\ UNCHANGED <<dbVars, tokenVars, hooks, accepted, code, req, used>>

\* IDS accepts the password, and the new cookie works for the second attempt.
PasswordAccepted(w) ==
    /\ work[w].pc = "password" /\ work[w].sawPassword = accepted
    /\ work' = [work EXCEPT ![w].pc = "committing"]
    /\ UNCHANGED <<dbVars, tokenVars, hooks, accepted, told, code, req, used>>

\* WrongPassword, or DataRequired for a captcha: LoginFailed ends the refresh, and
\* nobody is told; the row keeps its password, so the next refresh tries it again.
PasswordRefused(w) ==
    /\ work[w].pc = "password" /\ work[w].sawPassword # accepted
    /\ work' = [work EXCEPT ![w] = NoWork]
    /\ UNCHANGED <<dbVars, tokenVars, hooks, accepted, told, code, req, used>>

\* The refresh commits, and the new cookie with it.
WorkCommits(w) ==
    /\ work[w].pc = "committing"
    /\ cookie' = Exists
    /\ work' = [work EXCEPT ![w] = NoWork]
    /\ UNCHANGED <<version, password, config, tokenVars, hooks, accepted, told, code, req,
                   used>>

\* IDS does not answer, or the refresh fails later: the new cookie is lost with its
\* session.
WorkFails(w) ==
    /\ work[w].pc \in {"password", "committing"}
    /\ Spend("fault")
    /\ work' = [work EXCEPT ![w] = NoWork]
    /\ UNCHANGED <<dbVars, tokenVars, hooks, accepted, told, code, req>>

-------------------------------------------------------------------------------
(* The process, and the whole.                                             *)

\* The process ends: requests, sessions in memory and hooks that have not run are lost.
Crash ==
    /\ Spend("crash")
    /\ hooks' = 0
    /\ code' = [c \in Codes |-> IF code[c].state = "open"
                                THEN [code[c] EXCEPT !.state = "gone"] ELSE code[c]]
    /\ req' = [q \in Requests |-> Idle]
    /\ work' = [w \in Workers |-> NoWork]
    /\ UNCHANGED <<dbVars, tokenVars, accepted, told>>

RequestGoesOn(q) ==
    \/ NotScanned(q) \/ Scanned(q) \/ KeyErrorEnds(q)
    \/ UserinfoFails(q) \/ GetsUserinfo(q)
    \/ LoginFails(q) \/ IdsAccepts(q) \/ Inserts(q) \/ Updates(q)
    \/ LogoutCommits(q) \/ LeaveCommits(q)

WorkGoesOn(w) ==
    \/ CookieAccepted(w) \/ CookieRefused(w)
    \/ PasswordAccepted(w) \/ PasswordRefused(w) \/ WorkCommits(w)

Next ==
    \/ \E c \in Codes : OffersCode(c) \/ ClearsExpired(c) \/ Scans(c)
    \/ \E q \in Requests :
          \/ \E c \in Codes, wish \in {NoPassword, "keep"} : PollStarts(q, c, wish)
          \/ LoginStarts(q) \/ LogoutStarts(q) \/ LeaveStarts(q)
          \/ RequestGoesOn(q) \/ ScanFails(q) \/ LeaveFails(q)
    \/ \E w \in Workers : WorkStarts(w) \/ WorkGoesOn(w) \/ WorkFails(w)
    \/ \E p \in Stored : IdsTurns(p)
    \/ HookConfigures \/ CookieDies \/ Crash

Spec == Init /\ [][Next]_vars

(***************************************************************************)
(* Fairness: calls and transactions end, with whatever answer, and hooks   *)
(* run.  Nothing is assumed of people, of what IDS answers, or that there  *)
(* is a refresh which has to log in.                                       *)
(***************************************************************************)
Fairness ==
    /\ \A q \in Requests : WF_vars(RequestGoesOn(q))
    /\ \A w \in Workers : WF_vars(WorkGoesOn(w))
    /\ WF_vars(HookConfigures)

FairSpec == Spec /\ Fairness

-------------------------------------------------------------------------------
(* Properties.                                                             *)

(***************************************************************************)
(* Whatever logins, logouts, deletions and crashes overlap, a version that *)
(* was given up is never in force again, and an update never brings back an*)
(* account that has gone: README.md:81, "logging out of all devices"       *)
(* (login.py logout, delete_account).                                      *)
(***************************************************************************)
Tokens == INSTANCE TokenVersions WITH current <- version, made <- made

TokenSpec == Tokens!Spec

(***************************************************************************)
(* A QR code logs in at most once, however the client's polls of it overlap *)
(* (ids.py: the session leaves the dict in the step that ends its await).   *)
(***************************************************************************)
OneLoginPerCode == \A c \in Codes : code[c].logins <= 1

(***************************************************************************)
(* Unless the process has ended in between, an account has its row for QQ  *)
(* push, or the hook that is to write it is still pending: also when it was *)
(* deleted and registered again before the first hook ran (configure.py).   *)
(***************************************************************************)
Configured == Exists /\ used["crash"] = 0 => config \/ hooks > 0

(***************************************************************************)
(* A code that is scanned logs in, if the client goes on polling one call  *)
(* at a time, the session does not expire and nothing fails (ids.py:        *)
(* QRCodeNotScanned keeps the session).                                    *)
(***************************************************************************)
Undisturbed(c) ==
    /\ Cardinality({q \in Requests : req[q].code = c}) <= 1
    /\ \A kind \in {"expire", "fault", "crash"} : used[kind] = 0

PolledOn(c) == code[c].state # "open" \/ \E q \in Requests : req[q].code = c

ScannedCodeLogsIn ==
    \A c \in Codes :
        []Undisturbed(c) /\ []<>PolledOn(c)
            => (code[c].scanned ~> code[c].logins = 1)

(***************************************************************************)
(* If refreshes that have to log in go on, and IDS does not in the end      *)
(* refuse the password stored, an account whose cookie has died gets a new  *)
(* one, or its person is told to log in again, or it goes: whatever fails a *)
(* bounded number of times, and whatever logins, logouts and changed        *)
(* passwords the refreshes overlap (README.md:31; relogin).  Of an account  *)
(* whose password IDS goes on refusing it says nothing: each refresh fails  *)
(* in relogin with LoginFailed (ids.py:40), and nobody is ever told.        *)
(***************************************************************************)
RefreshesLogIn == \E w \in Workers : work[w].pc # "idle"

PasswordHolds == password = NoPassword \/ password = accepted

DeadCookieNoticed ==
    []<>RefreshesLogIn /\ <>[]PasswordHolds
        => (Exists /\ ~cookie ~> cookie \/ told \/ ~Exists)

===============================================================================
