-------------------------------- MODULE IcsFeed --------------------------------
(***************************************************************************)
(* The calendar feed of one user: service/ics/subscription.py (create,     *)
(* delete, render_feed with its forced 304), feed.py (what the feed shows) *)
(* and the handler in router/api/ics.py, against refreshes, completion     *)
(* marks, bindings and unbindings.  Of these, only what they do to the     *)
(* tables counts here; HomeworkRefresh has the rest, and shows that a      *)
(* refresh inserts what is not there, some time after it has stamped the   *)
(* platform (HomeworkTable).                                               *)
(*                                                                         *)
(* Time.  The code only asks whether the last fetch of a subscription is   *)
(* later than the stamp of a platform, so a time is the set of the sources *)
(* whose stamps it is later than.  Stamps and fetches of the same second   *)
(* are equal in the database: recent holds the platforms stamped in the    *)
(* current second, and Tick ends it.  A stamp is committed in the second   *)
(* it is taken in.  Every time but "1970" is later than "1970", which new  *)
(* subscriptions, new bindings and absent rows have.                       *)
(*                                                                         *)
(* A poll reads and writes its row in one transaction; its second one      *)
(* reads the stamps and the homeworks in one snapshot.  fetch_count is     *)
(* shown to the user only, and ETags spare a body the client has already:  *)
(* both are left out.  So are homeworks that grow too old for the feed.    *)
(*                                                                         *)
(* Bounds: Limit bounds what the user and the network do; refreshes and    *)
(* polls go on for ever.                                                   *)
(***************************************************************************)
EXTENDS Naturals, FiniteSets

CONSTANTS
    Platforms,
    HW,             \* the homeworks (with a deadline)
    PlatformOf,     \* their platforms
    Refreshes,      \* refreshes, scheduled and manual
    TargetOf,       \* the platform each refresh is for
    Subs,           \* subscriptions, by their tokens
    Clients,        \* calendar clients, one poll at a time each
    SubOf,          \* the token in the client's URL
    FilterOf,       \* the platforms it asks for: one, or all
    Limit

Kinds == {"bind", "unbind", "mark", "loss", "delete"}

ASSUME PlatformOfAssumption == PlatformOf \in [HW -> Platforms]
ASSUME TargetOfAssumption == TargetOf \in [Refreshes -> Platforms]
ASSUME ClientsAssumption == SubOf \in [Clients -> Subs]
                                /\ FilterOf \in [Clients -> SUBSET Platforms]
ASSUME EpochAssumption == "1970" \notin Platforms
ASSUME LimitAssumption == Limit \in [Kinds -> Nat]

VARIABLES
    bound,          \* the platforms with a row in platforminfo
    stored,         \* the rows of the homework table
    done,           \* those marked done
    cleaning,       \* platforms whose removal hook has not run yet
    refresh,        \* the refreshes under way
    recent,         \* the platforms stamped in the current second
    sub,            \* icssubscription: whether the row is there
    lastFetched,    \* last_fetched_at
    poll,           \* the polls under way
    got,            \* the clients that have received a body
    shows,          \* what their calendars show
    used

tables == <<bound, stored, done, cleaning>>
clientVars == <<got, shows>>
vars == <<tables, refresh, recent, sub, lastFetched, poll, clientVars, used>>

\* Times, and the present.
Sources == Platforms \cup {"1970"}
Times == {time \in SUBSET Sources : time = {} \/ "1970" \in time}

\* Mutant: times are rounded up to the next second, stamps are not.
NowRoundedUp == Sources
Now == Sources \ recent

PollRecords == [pc: {"idle", "committing", "reading"}, old: Times, now: Times]
IdlePoll == [pc |-> "idle", old |-> {}, now |-> {}]

\* Every variable holds a value of its kind; no time is later than a stamp of
\* the current second.
TypeOK ==
    /\ bound \subseteq Platforms /\ cleaning \subseteq Platforms
    /\ stored \subseteq HW /\ done \subseteq stored
    /\ refresh \in [Refreshes -> {"idle", "fetching"}]
    /\ recent \subseteq Platforms
    /\ sub \in [Subs -> {"none", "live", "gone"}]
    /\ lastFetched \in [Subs -> Times]
    /\ poll \in [Clients -> PollRecords]
    /\ \A s \in Subs : lastFetched[s] \cap recent = {}
    /\ \A c \in Clients : (poll[c].old \cup poll[c].now) \cap recent = {}
    /\ got \subseteq Clients
    /\ shows \in [Clients -> SUBSET HW]
    /\ used \in [Kinds -> Nat]

Init ==
    /\ bound \in SUBSET Platforms
    /\ stored = {} /\ done = {} /\ cleaning = {}
    /\ refresh = [r \in Refreshes |-> "idle"]
    /\ recent = {}
    /\ sub = [s \in Subs |-> "none"]
    /\ lastFetched = [s \in Subs |-> {}]
    /\ poll = [c \in Clients |-> IdlePoll]
    /\ got = {} /\ shows = [c \in Clients |-> {}]
    /\ used = [kind \in Kinds |-> 0]

Spend(kind) ==
    /\ used[kind] < Limit[kind]
    /\ used' = [used EXCEPT ![kind] = @ + 1]

-------------------------------------------------------------------------------
(* Refreshes, marks, bindings: what they do to the tables.                 *)

\* A platform gets a stamp that no time so far is later than.
Stamped(time, p) == time \ {p}

\* A refresh stamps its platform, and starts to fetch.
Stamps(r) ==
    LET p == TargetOf[r] IN
    /\ refresh[r] = "idle"
    /\ p \in bound
    /\ refresh' = [refresh EXCEPT ![r] = "fetching"]
    /\ recent' = recent \cup {p}
    /\ lastFetched' = [s \in Subs |-> Stamped(lastFetched[s], p)]
    /\ poll' = [c \in Clients |-> [pc |-> poll[c].pc, old |-> Stamped(poll[c].old, p),
                                now |-> Stamped(poll[c].now, p)]]
    /\ UNCHANGED <<tables, sub, clientVars, used>>

\* It inserts the homeworks that are new, if any, or fails.
Stores(r) ==
    /\ refresh[r] = "fetching"
    /\ \E new \in SUBSET {h \in HW \ stored : PlatformOf[h] = TargetOf[r]} :
          stored' = stored \cup new
    /\ refresh' = [refresh EXCEPT ![r] = "idle"]
    /\ UNCHANGED <<bound, done, cleaning, recent, sub, lastFetched, poll, clientVars, used>>

\* The user marks a homework done, or takes the mark back.
Marks(h) ==
    /\ h \in stored
    /\ Spend("mark")
    /\ done' = IF h \in done THEN done \ {h} ELSE done \cup {h}
    /\ UNCHANGED <<bound, stored, cleaning, refresh, recent, sub, lastFetched, poll, clientVars>>

\* A time later than 1970 is later than the stamp of a new binding, or of one made
\* again.
Bound(time, p) == IF "1970" \in time THEN time \cup {p} ELSE time

Binds(p) ==
    /\ Spend("bind")
    /\ bound' = bound \cup {p}
    /\ recent' = recent \ {p}
    /\ lastFetched' = [s \in Subs |-> Bound(lastFetched[s], p)]
    /\ poll' = [c \in Clients |-> [pc |-> poll[c].pc, old |-> Bound(poll[c].old, p),
                                now |-> Bound(poll[c].now, p)]]
    /\ UNCHANGED <<stored, done, cleaning, refresh, sub, clientVars>>

Unbinds(p) ==
    /\ p \in bound
    /\ Spend("unbind")
    /\ bound' = bound \ {p}
    /\ cleaning' = cleaning \cup {p}
    /\ UNCHANGED <<stored, done, refresh, recent, sub, lastFetched, poll, clientVars>>

Cleans(p) ==
    /\ p \in cleaning
    /\ cleaning' = cleaning \ {p}
    /\ stored' = {h \in stored : PlatformOf[h] # p}
    /\ done' = done \cap stored'
    /\ UNCHANGED <<bound, refresh, recent, sub, lastFetched, poll, clientVars, used>>

\* The next second.
Tick ==
    /\ recent # {}
    /\ recent' = {}
    /\ UNCHANGED <<tables, refresh, sub, lastFetched, poll, clientVars, used>>

-------------------------------------------------------------------------------
(* Subscriptions and polls.                                                *)

\* create_subscription.
Creates(s) ==
    /\ sub[s] = "none"
    /\ sub' = [sub EXCEPT ![s] = "live"]
    /\ UNCHANGED <<tables, refresh, recent, lastFetched, poll, clientVars, used>>

\* delete_subscription.
Deletes(s) ==
    /\ sub[s] = "live"
    /\ Spend("delete")
    /\ sub' = [sub EXCEPT ![s] = "gone"]
    /\ UNCHANGED <<tables, refresh, recent, lastFetched, poll, clientVars>>

\* A poll finds its row by the token: the old time is kept, the new one is now.
PollStarts(c) ==
    /\ poll[c].pc = "idle"
    /\ sub[SubOf[c]] = "live"
    /\ poll' = [poll EXCEPT ![c] =
                  [pc |-> "committing", old |-> lastFetched[SubOf[c]], now |-> Now]]
    /\ UNCHANGED <<tables, refresh, recent, sub, lastFetched, clientVars, used>>

\* The first commit, which fails when the row has gone.
PollCommits(c) ==
    /\ poll[c].pc = "committing"
    /\ IF sub[SubOf[c]] = "live"
       THEN /\ lastFetched' = [lastFetched EXCEPT ![SubOf[c]] = poll[c].now]
            /\ poll' = [poll EXCEPT ![c].pc = "reading"]
       ELSE /\ poll' = [poll EXCEPT ![c] = IdlePoll]
            /\ UNCHANGED lastFetched
    /\ UNCHANGED <<tables, refresh, recent, sub, clientVars, used>>

\* Mutant: later than the first stamp of the platforms asked for.
UnmodifiedSince(c, time) ==
    LET rows == FilterOf[c] \cap bound IN
    IF rows = {} THEN "1970" \in time ELSE rows \cap time # {}

\* last_fetched_at is later than the last stamp of the platforms asked for.
Unmodified(c, time) ==
    LET rows == FilterOf[c] \cap bound IN
    IF rows = {} THEN "1970" \in time ELSE rows \subseteq time

\* get_feed_homeworks.
Feed(c) == {h \in stored \ done : PlatformOf[h] \in FilterOf[c]}

\* Mutant: the time is compared after it has been moved.
PollAnswersNow(c) ==
    /\ poll[c].pc = "reading"
    /\ IF Unmodified(c, poll[c].now)
       THEN UNCHANGED clientVars
       ELSE got' = got \cup {c} /\ shows' = [shows EXCEPT ![c] = Feed(c)]
    /\ poll' = [poll EXCEPT ![c] = IdlePoll]
    /\ UNCHANGED <<tables, refresh, recent, sub, lastFetched, used>>

\* The answer: 304, or the feed.
PollAnswers(c) ==
    /\ poll[c].pc = "reading"
    /\ IF Unmodified(c, poll[c].old)
       THEN UNCHANGED clientVars
       ELSE got' = got \cup {c} /\ shows' = [shows EXCEPT ![c] = Feed(c)]
    /\ poll' = [poll EXCEPT ![c] = IdlePoll]
    /\ UNCHANGED <<tables, refresh, recent, sub, lastFetched, used>>

\* The rendering fails (500), or the answer is lost on its way.
PollFails(c) ==
    /\ poll[c].pc = "reading"
    /\ Spend("loss")
    /\ poll' = [poll EXCEPT ![c] = IdlePoll]
    /\ UNCHANGED <<tables, refresh, recent, sub, lastFetched, clientVars>>

Next ==
    \/ \E r \in Refreshes : Stamps(r) \/ Stores(r)
    \/ \E h \in HW : Marks(h)
    \/ \E p \in Platforms : Binds(p) \/ Unbinds(p) \/ Cleans(p)
    \/ Tick
    \/ \E s \in Subs : Creates(s) \/ Deletes(s)
    \/ \E c \in Clients : PollStarts(c) \/ PollCommits(c) \/ PollAnswers(c) \/ PollFails(c)

Spec == Init /\ [][Next]_vars

(***************************************************************************)
(* Fairness: the jobs refresh the platforms that are bound, each refresh   *)
(* and each poll ends, the removal hook runs, clients poll on and on.      *)
(***************************************************************************)
Fairness ==
    /\ \A r \in Refreshes : WF_vars(Stamps(r)) /\ WF_vars(Stores(r))
    /\ \A p \in Platforms : WF_vars(Cleans(p))
    /\ \A c \in Clients :
          /\ WF_vars(PollStarts(c))
          /\ WF_vars(PollCommits(c) \/ PollAnswers(c))
    /\ WF_vars(Tick)

FairSpec == Spec /\ Fairness

-------------------------------------------------------------------------------
(* Properties.  They are about clients with a subscription of their own: a *)
(* subscription has one last_fetched_at for all who poll it, and all       *)
(* platforms they ask for.                                                 *)

Alone == {c \in Clients : \A d \in Clients \ {c} : SubOf[d] # SubOf[c]}

\* The time the poll under way, or the next one, compares with.
Compared(c) == IF poll[c].pc = "idle" THEN lastFetched[SubOf[c]] ELSE poll[c].old

\* The client does not have what the feed says, and would be told that it has.
Outdated(c) ==
    /\ sub[SubOf[c]] = "live"
    /\ Unmodified(c, Compared(c))
    /\ shows[c] # Feed(c)

\* A client that has received nothing yet, and of whose answers none was lost,
\* will not be told "not modified" (last_fetched_at starts in 1970).
FirstBody ==
    used["loss"] = 0 =>
        \A c \in Alone \ got : sub[SubOf[c]] = "live" => ~Unmodified(c, Compared(c))

\* What makes the forced 304 wrong: homeworks stored by a refresh whose stamp the
\* client's last poll has already seen; a mark; a binding, which takes the stamp
\* back to 1970, or an unbinding; an answer that is lost.
KnownCause(c) ==
    \/ \E r \in Refreshes : /\ refresh[r] = "fetching" /\ refresh'[r] = "idle"
                            /\ TargetOf[r] \in bound => TargetOf[r] \in Compared(c)
    \/ cleaning' # cleaning
    \/ \E kind \in {"mark", "bind", "unbind", "loss"} : used'[kind] # used[kind]

\* Nothing else does: every other refresh gets through, however polls, commits and
\* stamps interleave.
OnlyKnownCauses ==
    [][\A c \in Alone : ~Outdated(c) /\ Outdated(c)' => KnownCause(c)]_vars

\* And it is not wrong for good: while a platform it asks for is bound, the
\* client's calendar comes to show what the feed says.
CalendarFollows ==
    \A c \in Alone, h \in HW :
        LET follows == sub[SubOf[c]] = "live" /\ FilterOf[c] \cap bound # {} IN
        /\ <>[](follows /\ h \in Feed(c)) => <>[](h \in shows[c])
        /\ <>[](follows /\ h \notin Feed(c)) => <>[](h \notin shows[c])

-------------------------------------------------------------------------------
(* What the tests say, and TLC refutes.                                    *)

\* tests/test_ics_forced_cache.py:244: after a refresh the cache lets the new
\* homeworks through.  (Without marks, unbindings and lost answers.)
RefreshGetsThrough ==
    (\A r \in Refreshes : refresh[r] = "idle") => \A c \in Alone : ~Outdated(c)

===============================================================================
