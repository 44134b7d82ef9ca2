----------------------------- MODULE IcsFeedProofs -----------------------------
(***************************************************************************)
(* Theorems about IcsFeed, for any platforms, homeworks, refreshes,        *)
(* subscriptions, clients and limits: type correctness, and what may make  *)
(* the forced 304 wrong.                                                   *)
(***************************************************************************)
EXTENDS IcsFeed, TLAPS

USE PlatformOfAssumption, TargetOfAssumption, ClientsAssumption, EpochAssumption,
    LimitAssumption

LEMMA SpendType ==
    ASSUME used \in [Kinds -> Nat], NEW kind \in Kinds, Spend(kind)
    PROVE  used' \in [Kinds -> Nat]
BY DEF Spend

\* The times of the model, and what stamps and bindings make of them.
LEMMA TimesFacts ==
    /\ {} \in Times
    /\ recent \subseteq Platforms => Now \in Times /\ Now \cap recent = {}
    /\ \A time \in Times, p \in Platforms :
          Stamped(time, p) \in Times /\ Bound(time, p) \in Times
BY DEF Times, Sources, Now, Stamped, Bound

LEMMA InitType == Init => TypeOK
<1> SUFFICES ASSUME Init PROVE TypeOK
  OBVIOUS
<1>1. lastFetched \in [Subs -> Times] /\ recent = {}
  BY TimesFacts DEF Init
<1>2. poll \in [Clients -> PollRecords]
  BY TimesFacts DEF Init, PollRecords, IdlePoll
<1>3. used \in [Kinds -> Nat] /\ shows \in [Clients -> SUBSET HW]
  BY DEF Init
<1>4. /\ refresh \in [Refreshes -> {"idle", "fetching"}]
      /\ sub \in [Subs -> {"none", "live", "gone"}]
  BY DEF Init
<1> QED BY <1>1, <1>2, <1>3, <1>4 DEF Init, TypeOK

LEMMA StampsType ==
    ASSUME TypeOK, NEW r \in Refreshes, Stamps(r) PROVE TypeOK'
<1> DEFINE p == TargetOf[r]
<1>0. p \in Platforms
  OBVIOUS
<1>1. recent' = recent \cup {p} /\ recent' \subseteq Platforms
  BY <1>0 DEF Stamps, TypeOK
<1>2. \A s \in Subs : /\ lastFetched'[s] \in Times
                      /\ lastFetched'[s] \cap recent' = {}
  <2> SUFFICES ASSUME NEW s \in Subs
               PROVE  Stamped(lastFetched[s], p) \in Times
                         /\ Stamped(lastFetched[s], p) \cap recent' = {}
    BY DEF Stamps
  <2>1. lastFetched[s] \in Times /\ lastFetched[s] \cap recent = {}
    BY DEF TypeOK
  <2> QED BY <2>1, <1>1, <1>0, TimesFacts DEF Stamped
<1>3. \A c \in Clients : /\ poll'[c] \in PollRecords
                         /\ (poll'[c].old \cup poll'[c].now) \cap recent' = {}
  <2> SUFFICES ASSUME NEW c \in Clients
               PROVE  /\ poll'[c] \in PollRecords
                      /\ (poll'[c].old \cup poll'[c].now) \cap recent' = {}
    OBVIOUS
  <2>1. poll[c] \in PollRecords /\ (poll[c].old \cup poll[c].now) \cap recent = {}
    BY DEF TypeOK
  <2>2. poll'[c] = [pc |-> poll[c].pc, old |-> Stamped(poll[c].old, p),
                    now |-> Stamped(poll[c].now, p)]
    BY DEF Stamps
  <2>3. Stamped(poll[c].old, p) \in Times /\ Stamped(poll[c].now, p) \in Times
    BY <2>1, <1>0, TimesFacts DEF PollRecords
  <2>4. poll'[c] \in PollRecords
    BY <2>1, <2>2, <2>3 DEF PollRecords
  <2>5. (poll'[c].old \cup poll'[c].now) \cap recent' = {}
    BY <2>1, <2>2, <1>1 DEF Stamped
  <2> QED BY <2>4, <2>5
<1>4. refresh' \in [Refreshes -> {"idle", "fetching"}]
  BY DEF Stamps, TypeOK
<1> QED BY <1>1, <1>2, <1>3, <1>4 DEF Stamps, TypeOK, tables, clientVars

LEMMA BindsType ==
    ASSUME TypeOK, NEW p \in Platforms, Binds(p) PROVE TypeOK'
<1>1. recent' = recent \ {p} /\ bound' \subseteq Platforms
  BY DEF Binds, TypeOK
<1>2. \A s \in Subs : /\ lastFetched'[s] \in Times
                      /\ lastFetched'[s] \cap recent' = {}
  <2> SUFFICES ASSUME NEW s \in Subs
               PROVE  Bound(lastFetched[s], p) \in Times
                         /\ Bound(lastFetched[s], p) \cap recent' = {}
    BY DEF Binds
  <2>1. lastFetched[s] \in Times /\ lastFetched[s] \cap recent = {}
    BY DEF TypeOK
  <2> QED BY <2>1, <1>1, TimesFacts DEF Bound
<1>3. \A c \in Clients : /\ poll'[c] \in PollRecords
                         /\ (poll'[c].old \cup poll'[c].now) \cap recent' = {}
  <2> SUFFICES ASSUME NEW c \in Clients
               PROVE  /\ poll'[c] \in PollRecords
                      /\ (poll'[c].old \cup poll'[c].now) \cap recent' = {}
    OBVIOUS
  <2>1. poll[c] \in PollRecords /\ (poll[c].old \cup poll[c].now) \cap recent = {}
    BY DEF TypeOK
  <2>2. poll'[c] = [pc |-> poll[c].pc, old |-> Bound(poll[c].old, p),
                    now |-> Bound(poll[c].now, p)]
    BY DEF Binds
  <2>3. Bound(poll[c].old, p) \in Times /\ Bound(poll[c].now, p) \in Times
    BY <2>1, TimesFacts DEF PollRecords
  <2>4. poll'[c] \in PollRecords
    BY <2>1, <2>2, <2>3 DEF PollRecords
  <2>5. (poll'[c].old \cup poll'[c].now) \cap recent' = {}
    BY <2>1, <2>2, <1>1 DEF Bound
  <2> QED BY <2>4, <2>5
<1>4. used' \in [Kinds -> Nat]
  BY SpendType DEF Binds, TypeOK, Kinds
<1> QED BY <1>1, <1>2, <1>3, <1>4 DEF Binds, TypeOK, clientVars

\* The other steps on the tables.
LEMMA TablesType ==
    ASSUME TypeOK,
           \/ \E r \in Refreshes : Stores(r)
           \/ \E h \in HW : Marks(h)
           \/ \E p \in Platforms : Unbinds(p) \/ Cleans(p)
           \/ Tick
    PROVE  TypeOK'
<1>1. ASSUME NEW r \in Refreshes, Stores(r) PROVE TypeOK'
  <2>1. stored' \subseteq HW /\ done \subseteq stored'
    BY <1>1 DEF Stores, TypeOK
  <2>2. refresh' \in [Refreshes -> {"idle", "fetching"}]
    BY <1>1 DEF Stores, TypeOK
  <2> QED BY <1>1, <2>1, <2>2 DEF Stores, TypeOK, clientVars
<1>2. ASSUME NEW h \in HW, Marks(h) PROVE TypeOK'
  <2>1. used' \in [Kinds -> Nat]
    BY <1>2, SpendType DEF Marks, TypeOK, Kinds
  <2>2. done' \subseteq stored
    BY <1>2 DEF Marks, TypeOK
  <2> QED BY <1>2, <2>1, <2>2 DEF Marks, TypeOK, clientVars
<1>3. ASSUME NEW p \in Platforms, Unbinds(p) PROVE TypeOK'
  <2>1. used' \in [Kinds -> Nat]
    BY <1>3, SpendType DEF Unbinds, TypeOK, Kinds
  <2>2. bound' \subseteq Platforms /\ cleaning' \subseteq Platforms
    BY <1>3 DEF Unbinds, TypeOK
  <2> QED BY <1>3, <2>1, <2>2 DEF Unbinds, TypeOK, clientVars
<1>4. ASSUME NEW p \in Platforms, Cleans(p) PROVE TypeOK'
  <2>1. stored' \subseteq HW /\ done' \subseteq stored' /\ cleaning' \subseteq Platforms
    BY <1>4 DEF Cleans, TypeOK
  <2> QED BY <1>4, <2>1 DEF Cleans, TypeOK, clientVars
<1>5. CASE Tick
  BY <1>5 DEF Tick, TypeOK, tables, clientVars
<1> QED BY <1>1, <1>2, <1>3, <1>4, <1>5

LEMMA SubsType ==
    ASSUME TypeOK, NEW s \in Subs, Creates(s) \/ Deletes(s) PROVE TypeOK'
<1>1. sub' \in [Subs -> {"none", "live", "gone"}]
  BY DEF Creates, Deletes, TypeOK
<1>2. used' \in [Kinds -> Nat]
  <2>1. CASE Creates(s)
    BY <2>1 DEF Creates, TypeOK
  <2>2. CASE Deletes(s)
    BY <2>2, SpendType DEF Deletes, TypeOK, Kinds
  <2> QED BY <2>1, <2>2
<1> QED BY <1>1, <1>2 DEF Creates, Deletes, TypeOK, tables, clientVars

LEMMA PollType ==
    ASSUME TypeOK, NEW c \in Clients,
           PollStarts(c) \/ PollCommits(c) \/ PollAnswers(c) \/ PollFails(c)
    PROVE  TypeOK'
<1>0. SubOf[c] \in Subs /\ poll[c] \in PollRecords /\ IdlePoll \in PollRecords
  BY TimesFacts DEF TypeOK, PollRecords, IdlePoll
<1>1. CASE PollStarts(c)
  <2>1. /\ lastFetched[SubOf[c]] \in Times /\ Now \in Times
        /\ lastFetched[SubOf[c]] \cap recent = {} /\ Now \cap recent = {}
    BY <1>0, TimesFacts DEF TypeOK
  <2>2. poll' \in [Clients -> PollRecords]
    BY <1>1, <2>1 DEF PollStarts, TypeOK, PollRecords
  <2>3. \A d \in Clients : (poll'[d].old \cup poll'[d].now) \cap recent = {}
    BY <1>1, <2>1 DEF PollStarts, TypeOK
  <2> QED BY <1>1, <2>2, <2>3 DEF PollStarts, TypeOK, tables, clientVars
<1>2. CASE PollCommits(c)
  <2>1. poll[c].now \in Times /\ poll[c].now \cap recent = {}
    BY <1>0 DEF PollRecords, TypeOK
  <2>2. lastFetched' \in [Subs -> Times]
    BY <1>2, <2>1 DEF PollCommits, TypeOK
  <2>3. \A s \in Subs : lastFetched'[s] \cap recent = {}
    BY <1>2, <2>1 DEF PollCommits, TypeOK
  <2>4. poll' \in [Clients -> PollRecords]
    <3>1. [poll[c] EXCEPT !.pc = "reading"] \in PollRecords
      BY <1>0 DEF PollRecords
    <3>2. \/ poll' = [poll EXCEPT ![c] = [@ EXCEPT !.pc = "reading"]]
          \/ poll' = [poll EXCEPT ![c] = IdlePoll]
      BY <1>2 DEF PollCommits
    <3> QED BY <3>1, <3>2, <1>0 DEF TypeOK
  <2>5. \A d \in Clients : (poll'[d].old \cup poll'[d].now) \cap recent = {}
    BY <1>2, <1>0 DEF PollCommits, TypeOK, PollRecords, IdlePoll
  <2> QED BY <1>2, <2>2, <2>3, <2>4, <2>5 DEF PollCommits, TypeOK, tables, clientVars
<1>3. CASE PollAnswers(c)
  <2>1. poll' \in [Clients -> PollRecords]
    BY <1>3, <1>0 DEF PollAnswers, TypeOK
  <2>4. \A d \in Clients : (poll'[d].old \cup poll'[d].now) \cap recent = {}
    BY <1>3 DEF PollAnswers, TypeOK, IdlePoll
  <2>2. Feed(c) \subseteq HW
    BY DEF Feed, TypeOK
  <2>3. got' \subseteq Clients /\ shows' \in [Clients -> SUBSET HW]
    BY <1>3, <2>2 DEF PollAnswers, TypeOK, clientVars
  <2> QED BY <1>3, <2>1, <2>3, <2>4 DEF PollAnswers, TypeOK, tables
<1>4. CASE PollFails(c)
  <2>1. poll' \in [Clients -> PollRecords]
    BY <1>4, <1>0 DEF PollFails, TypeOK
  <2>3. \A d \in Clients : (poll'[d].old \cup poll'[d].now) \cap recent = {}
    BY <1>4 DEF PollFails, TypeOK, IdlePoll
  <2>2. used' \in [Kinds -> Nat]
    BY <1>4, SpendType DEF PollFails, TypeOK, Kinds
  <2> QED BY <1>4, <2>1, <2>2, <2>3 DEF PollFails, TypeOK, tables, clientVars
<1> QED BY <1>1, <1>2, <1>3, <1>4

LEMMA NextType == TypeOK /\ [Next]_vars => TypeOK'
<1> SUFFICES ASSUME TypeOK, [Next]_vars PROVE TypeOK'
  OBVIOUS
<1>1. CASE UNCHANGED vars
  BY <1>1 DEF TypeOK, vars, tables, clientVars
<1> QED BY <1>1, StampsType, BindsType, TablesType, SubsType, PollType DEF Next

\* Every reachable state of the feed is well typed.
THEOREM FeedTypeCorrect == Spec => []TypeOK
<1>1. Init => TypeOK
  BY InitType
<1>2. TypeOK /\ [Next]_vars => TypeOK'
  BY NextType
<1> QED BY <1>1, <1>2, PTL DEF Spec

-------------------------------------------------------------------------------
(* What may make the forced 304 wrong.                                     *)

\* A subscription that has not been made has not been polled.
Unmade ==
    /\ \A s \in Subs : sub[s] = "none" => lastFetched[s] = {}
    /\ \A c \in Clients : poll[c].pc # "idle" => sub[SubOf[c]] # "none"

LEMMA InitUnmade == Init => Unmade
BY DEF Init, Unmade, IdlePoll

LEMMA NextUnmade == TypeOK /\ Unmade /\ [Next]_vars => Unmade'
<1> SUFFICES ASSUME TypeOK, Unmade, [Next]_vars PROVE Unmade'
  OBVIOUS
<1>1. ASSUME NEW r \in Refreshes, Stamps(r) PROVE Unmade'
  BY <1>1 DEF Stamps, Unmade, Stamped
<1>2. ASSUME NEW p \in Platforms, Binds(p) PROVE Unmade'
  BY <1>2 DEF Binds, Unmade, Bound
<1>3. ASSUME NEW s \in Subs, Creates(s) \/ Deletes(s) PROVE Unmade'
  BY <1>3 DEF Creates, Deletes, Unmade, TypeOK
<1>4. ASSUME NEW c \in Clients,
             PollStarts(c) \/ PollCommits(c) \/ PollAnswers(c) \/ PollFails(c)
      PROVE  Unmade'
  <2>1. SubOf[c] \in Subs /\ sub' = sub
    BY <1>4 DEF PollStarts, PollCommits, PollAnswers, PollFails
  <2>2. \A d \in Clients : poll'[d].pc # "idle" => sub[SubOf[d]] # "none"
    BY <1>4, <2>1 DEF PollStarts, PollCommits, PollAnswers, PollFails, Unmade, TypeOK,
                      PollRecords, IdlePoll
  <2>3. \A s \in Subs : sub[s] = "none" => lastFetched'[s] = {}
    BY <1>4, <2>1 DEF PollStarts, PollCommits, PollAnswers, PollFails, Unmade, TypeOK
  <2> QED BY <2>1, <2>2, <2>3 DEF Unmade
<1>5. ASSUME \/ \E r \in Refreshes : Stores(r)
             \/ \E h \in HW : Marks(h)
             \/ \E p \in Platforms : Unbinds(p) \/ Cleans(p)
             \/ Tick
             \/ UNCHANGED vars
      PROVE  Unmade'
  BY <1>5 DEF Stores, Marks, Unbinds, Cleans, Tick, vars, Unmade
<1> QED BY <1>1, <1>2, <1>3, <1>4, <1>5 DEF Next

LEMMA SpendShows ==
    ASSUME used \in [Kinds -> Nat], NEW kind \in Kinds, Spend(kind)
    PROVE  used'[kind] # used[kind]
BY DEF Spend

\* A stamp never takes a body back that was due, and a time that nothing is
\* earlier than is never "not modified".
LEMMA UnmodifiedFacts ==
    ASSUME NEW c \in Clients
    PROVE  /\ ~Unmodified(c, {})
           /\ \A time, p : p \in Platforms /\ Unmodified(c, Stamped(time, p)) => Unmodified(c, time)
BY DEF Unmodified, Stamped

LEMMA StepHasKnownCause ==
    ASSUME TypeOK, Unmade, [Next]_vars, NEW c \in Alone, ~Outdated(c), Outdated(c)'
    PROVE  KnownCause(c)
<1> DEFINE s == SubOf[c]
<1>0. c \in Clients /\ s \in Subs /\ \A d \in Clients \ {c} : SubOf[d] # s
  BY DEF Alone
<1>1. ASSUME NEW r \in Refreshes, Stamps(r) PROVE FALSE
  <2>1. Compared(c)' = Stamped(Compared(c), TargetOf[r])
    BY <1>1, <1>0 DEF Stamps, Compared
  <2>2. bound' = bound /\ Feed(c)' = Feed(c) /\ shows' = shows /\ sub' = sub
    BY <1>1 DEF Stamps, tables, clientVars, Feed
  <2>3. Unmodified(c, Compared(c))' => Unmodified(c, Compared(c))
    BY <2>1, <2>2, <1>0, UnmodifiedFacts DEF Unmodified
  <2> QED BY <2>2, <2>3 DEF Outdated
<1>2. ASSUME NEW r \in Refreshes, Stores(r) PROVE KnownCause(c)
  <2>1. refresh[r] = "fetching" /\ refresh'[r] = "idle"
    BY <1>2 DEF Stores, TypeOK
  <2>2. /\ bound' = bound /\ shows' = shows /\ sub' = sub /\ done' = done
        /\ Compared(c)' = Compared(c)
    BY <1>2 DEF Stores, clientVars, Compared
  <2>3. Unmodified(c, Compared(c)) /\ Feed(c)' # Feed(c)
    BY <2>2 DEF Outdated, Unmodified
  <2>4. TargetOf[r] \in FilterOf[c]
    BY <1>2, <2>2, <2>3 DEF Feed, Stores
  <2>5. TargetOf[r] \in bound => TargetOf[r] \in Compared(c)
    BY <2>3, <2>4 DEF Unmodified
  <2> QED BY <2>1, <2>5 DEF KnownCause
<1>3. ASSUME \/ \E h \in HW : Marks(h)
             \/ \E p \in Platforms : Binds(p) \/ Unbinds(p)
             \/ \E d \in Clients : PollFails(d)
      PROVE  KnownCause(c)
  BY <1>3, SpendShows DEF Marks, Binds, Unbinds, PollFails, Kinds, TypeOK, KnownCause
<1>4. ASSUME NEW p \in Platforms, Cleans(p) PROVE KnownCause(c)
  BY <1>4 DEF Cleans, KnownCause
<1>5. ASSUME Tick \/ UNCHANGED vars PROVE FALSE
  BY <1>5 DEF Tick, vars, tables, clientVars, Outdated, Unmodified, Compared, Feed
<1>6. ASSUME NEW t \in Subs, Creates(t) PROVE FALSE
  <2>1. Unmodified(c, Compared(c))' = Unmodified(c, Compared(c)) /\ Feed(c)' = Feed(c)
    BY <1>6 DEF Creates, tables, Unmodified, Compared, Feed
  <2>2. sub[s] # "none" => sub'[s] = sub[s]
    BY <1>6, <1>0 DEF Creates, TypeOK
  <2>3. sub[s] = "none" => Compared(c) = {}
    BY <1>0 DEF Unmade, Compared
  <2> QED BY <1>6, <2>1, <2>2, <2>3, <1>0, UnmodifiedFacts DEF Outdated, Creates, clientVars
<1>7. ASSUME NEW t \in Subs, Deletes(t) PROVE FALSE
  <2>1. Unmodified(c, Compared(c))' = Unmodified(c, Compared(c)) /\ Feed(c)' = Feed(c)
    BY <1>7 DEF Deletes, tables, Unmodified, Compared, Feed
  <2>2. sub'[s] = "live" => sub[s] = "live"
    BY <1>7, <1>0 DEF Deletes, TypeOK
  <2> QED BY <1>7, <2>1, <2>2 DEF Outdated, Deletes, clientVars
<1>8. ASSUME NEW d \in Clients, PollStarts(d) \/ PollCommits(d) \/ PollAnswers(d), d # c
      PROVE  FALSE
  <2>1. /\ poll'[c] = poll[c] /\ lastFetched'[s] = lastFetched[s]
        /\ shows'[c] = shows[c] /\ sub' = sub
    BY <1>8, <1>0 DEF PollStarts, PollCommits, PollAnswers, TypeOK, clientVars
  <2>2. Compared(c)' = Compared(c) /\ Feed(c)' = Feed(c) /\ bound' = bound
    BY <1>8, <2>1 DEF PollStarts, PollCommits, PollAnswers, tables, Compared, Feed
  <2> QED BY <2>1, <2>2 DEF Outdated, Unmodified
<1>9. CASE PollStarts(c)
  <2>1. Compared(c)' = Compared(c) /\ Feed(c)' = Feed(c) /\ bound' = bound
    BY <1>9, <1>0 DEF PollStarts, tables, Compared, Feed, TypeOK
  <2> QED BY <1>9, <2>1 DEF PollStarts, Outdated, Unmodified, clientVars
<1>10. CASE PollCommits(c)
  <2>1. sub[s] = "live" /\ sub' = sub
    BY <1>10 DEF PollCommits, Outdated
  <2>2. Compared(c)' = Compared(c)
    BY <1>10, <2>1, <1>0 DEF PollCommits, Compared, TypeOK, PollRecords
  <2> QED BY <1>10, <2>1, <2>2 DEF PollCommits, Outdated, Unmodified, tables, clientVars, Feed
<1>11. CASE PollAnswers(c)
  <2>1. Feed(c)' = Feed(c) /\ sub' = sub /\ Compared(c) = poll[c].old
    BY <1>11 DEF PollAnswers, tables, Feed, Compared
  <2>2. CASE Unmodified(c, poll[c].old)
    BY <1>11, <2>1, <2>2 DEF PollAnswers, Outdated, clientVars
  <2>3. CASE ~Unmodified(c, poll[c].old)
    BY <1>11, <2>1, <2>3, <1>0 DEF PollAnswers, Outdated, TypeOK
  <2> QED BY <2>2, <2>3
<1> QED BY <1>1, <1>2, <1>3, <1>4, <1>5, <1>6, <1>7, <1>8, <1>9, <1>10, <1>11 DEF Next

\* For any number of platforms, refreshes, polls and clients: only a refresh that
\* was overtaken, a mark, a binding, an unbinding or a lost answer can leave a
\* client with an old calendar and render_feed with a 304 for it.
THEOREM ForcedCacheCauses == Spec => OnlyKnownCauses
<1>1. Init => TypeOK /\ Unmade
  BY InitType, InitUnmade
<1>2. TypeOK /\ Unmade /\ [Next]_vars => (TypeOK /\ Unmade)'
  BY NextType, NextUnmade
<1>3. TypeOK /\ Unmade /\ [Next]_vars =>
         \A c \in Alone : ~Outdated(c) /\ Outdated(c)' => KnownCause(c)
  BY StepHasKnownCause
<1> QED BY <1>1, <1>2, <1>3, PTL DEF Spec, OnlyKnownCauses

-------------------------------------------------------------------------------
(* The first body.                                                         *)

\* Until a client has received a body, its polls compare with 1970.
NothingYet ==
    used["loss"] = 0 =>
        \A c \in Alone \ got :
            /\ poll[c].pc # "reading" => lastFetched[SubOf[c]] = {}
            /\ poll[c].pc # "idle" => poll[c].old = {}

LEMMA NextNothingYet == TypeOK /\ NothingYet /\ [Next]_vars => NothingYet'
<1> SUFFICES ASSUME TypeOK, NothingYet, [Next]_vars, used'["loss"] = 0,
                    NEW c \in Alone, c \notin got'
             PROVE  /\ poll'[c].pc # "reading" => lastFetched'[SubOf[c]] = {}
                    /\ poll'[c].pc # "idle" => poll'[c].old = {}
  BY DEF NothingYet, Alone
<1> DEFINE s == SubOf[c]
<1>0. c \in Clients /\ s \in Subs /\ \A d \in Clients \ {c} : SubOf[d] # s
  BY DEF Alone
<1>1. used["loss"] = 0 /\ (\A d \in Clients : ~PollFails(d))
  BY SpendShows DEF Next, Stamps, Stores, Marks, Binds, Unbinds, Cleans, Tick, Creates,
     Deletes, PollStarts, PollCommits, PollAnswers, PollFails, Spend, Kinds, TypeOK, vars
<1>2. c \notin got
  BY DEF Next, Stamps, Stores, Marks, Binds, Unbinds, Cleans, Tick, Creates, Deletes,
     PollStarts, PollCommits, PollAnswers, PollFails, clientVars, vars
<1>3. /\ poll[c].pc # "reading" => lastFetched[s] = {}
      /\ poll[c].pc # "idle" => poll[c].old = {}
  BY <1>1, <1>2 DEF NothingYet
<1>4. ASSUME NEW r \in Refreshes, Stamps(r)
      PROVE  /\ poll'[c].pc # "reading" => lastFetched'[s] = {}
             /\ poll'[c].pc # "idle" => poll'[c].old = {}
  BY <1>3, <1>4, <1>0 DEF Stamps, Stamped
<1>5. ASSUME NEW p \in Platforms, Binds(p)
      PROVE  /\ poll'[c].pc # "reading" => lastFetched'[s] = {}
             /\ poll'[c].pc # "idle" => poll'[c].old = {}
  BY <1>3, <1>5, <1>0 DEF Binds, Bound
<1>6. ASSUME NEW d \in Clients, PollStarts(d) \/ PollCommits(d) \/ PollAnswers(d), d # c
      PROVE  /\ poll'[c].pc # "reading" => lastFetched'[s] = {}
             /\ poll'[c].pc # "idle" => poll'[c].old = {}
  <2>1. poll'[c] = poll[c] /\ lastFetched'[s] = lastFetched[s]
    BY <1>6, <1>0 DEF PollStarts, PollCommits, PollAnswers, TypeOK
  <2> QED BY <1>3, <2>1
<1>7. ASSUME PollStarts(c) \/ PollCommits(c)
      PROVE  /\ poll'[c].pc # "reading" => lastFetched'[s] = {}
             /\ poll'[c].pc # "idle" => poll'[c].old = {}
  <2>1. CASE PollStarts(c)
    BY <1>3, <1>0, <2>1 DEF PollStarts, TypeOK
  <2>2. CASE PollCommits(c)
    BY <1>3, <1>0, <2>2 DEF PollCommits, TypeOK, PollRecords, IdlePoll
  <2> QED BY <1>7, <2>1, <2>2
<1>8. ~PollAnswers(c)
  <2> SUFFICES ASSUME PollAnswers(c) PROVE FALSE
    OBVIOUS
  <2>1. poll[c].old = {}
    BY <1>3 DEF PollAnswers
  <2>2. ~Unmodified(c, poll[c].old)
    BY <2>1, <1>0, UnmodifiedFacts
  <2> QED BY <2>2 DEF PollAnswers
<1>9. ASSUME \/ \E r \in Refreshes : Stores(r)
             \/ \E h \in HW : Marks(h)
             \/ \E p \in Platforms : Unbinds(p) \/ Cleans(p)
             \/ \E t \in Subs : Creates(t) \/ Deletes(t)
             \/ Tick
             \/ UNCHANGED vars
      PROVE  poll' = poll /\ lastFetched' = lastFetched
  BY <1>9 DEF Stores, Marks, Unbinds, Cleans, Creates, Deletes, Tick, vars
<1> QED BY <1>1, <1>3, <1>4, <1>5, <1>6, <1>7, <1>8, <1>9 DEF Next

\* The first answer a client gets from a subscription of its own is a body
\* (last_fetched_at starts in 1970), as long as no answer is lost.
THEOREM FirstAnswerIsABody == Spec => []FirstBody
<1>1. Init => TypeOK /\ NothingYet
  <2> SUFFICES ASSUME Init PROVE NothingYet
    BY InitType
  <2> QED BY DEF Init, NothingYet, IdlePoll, Alone
<1>2. TypeOK /\ NothingYet /\ [Next]_vars => (TypeOK /\ NothingYet)'
  BY NextType, NextNothingYet
<1>3. TypeOK /\ NothingYet => FirstBody
  <2> SUFFICES ASSUME TypeOK, NothingYet, used["loss"] = 0, NEW c \in Alone \ got
               PROVE  ~Unmodified(c, Compared(c))
    BY DEF FirstBody
  <2>1. c \in Clients /\ Compared(c) = {}
    BY DEF NothingYet, Compared, Alone
  <2> QED BY <2>1, UnmodifiedFacts
<1> QED BY <1>1, <1>2, <1>3, PTL DEF Spec

===============================================================================
