------------------------- MODULE HomeworkRefreshProofs -------------------------
(***************************************************************************)
(* Theorems about HomeworkRefresh, for any homeworks, refreshes, requests, *)
(* cooldown and limits: type correctness, the spacing of refreshes, the    *)
(* implementation of HomeworkTable, and the jobs of the scheduler.         *)
(***************************************************************************)
EXTENDS HomeworkRefresh, TLAPS

USE RefreshesAssumption, CooldownAssumption, AttemptsAssumption, LimitAssumption

LEMMA SpendType ==
    ASSUME used \in [Kinds -> Nat], NEW kind \in Kinds, Spend(kind)
    PROVE  used' \in [Kinds -> Nat]
BY DEF Spend

LEMMA IdleRecords ==
    IdleRefresh \in RefreshRecords /\ IdleRequest \in RequestRecords
BY DEF IdleRefresh, IdleRequest, RefreshRecords, RequestRecords, RefreshStates,
       RequestStates, Ages, Never

LEMMA InitType == Init => TypeOK
<1> SUFFICES ASSUME Init PROVE TypeOK
  OBVIOUS
<1>1. account \in BOOLEAN /\ bound \in BOOLEAN /\ stored \subseteq HW /\ news \subseteq HW
  BY DEF Init
<1>5. age \in Ages
  BY DEF Init, Ages, Never
<1>2. shown \subseteq HW /\ job \in BOOLEAN /\ lock \in Refreshes \cup {NoOne}
  BY DEF Init
<1>3. ref \in [Refreshes -> RefreshRecords] /\ req \in [Requests -> RequestRecords]
  BY IdleRecords DEF Init
<1>4. cleaning \subseteq Requests /\ used \in [Kinds -> Nat]
  BY DEF Init
<1> QED BY <1>1, <1>2, <1>3, <1>4, <1>5 DEF TypeOK

\* A refresh only takes steps from one well-typed record to another.
LEMMA RefreshType ==
    ASSUME TypeOK, NEW r \in Refreshes,
           RefreshStarts(r) \/ RefreshGoesOn(r) \/ FetchTimesOut(r) \/ RefreshFails(r)
    PROVE  TypeOK'
<1>1. ref[r] \in RefreshRecords
  BY DEF TypeOK
<1>2. CASE RefreshStarts(r)
  <2>1. ref' \in [Refreshes -> RefreshRecords]
    BY <1>2, IdleRecords DEF TypeOK, RefreshStarts, RefreshRecords, RefreshStates, IdleRefresh
  <2> QED BY <1>2, <2>1 DEF TypeOK, RefreshStarts, rowVars
<1>3. CASE PassesCooldown(r)
  <2>1. ref' \in [Refreshes -> RefreshRecords]
    BY <1>3, <1>1 DEF TypeOK, PassesCooldown, RefreshRecords, RefreshStates
  <2> QED BY <1>3, <2>1 DEF TypeOK, PassesCooldown, rowVars
<1>4. CASE IsTurnedAway(r)
  <2>1. ref' \in [Refreshes -> RefreshRecords]
    BY <1>4, IdleRecords DEF TypeOK, IsTurnedAway
  <2> QED BY <1>4, <2>1 DEF TypeOK, IsTurnedAway, rowVars
<1>5. CASE Stamps(r)
  <2>1. ref' \in [Refreshes -> RefreshRecords]
    BY <1>5, <1>1, IdleRecords DEF TypeOK, Stamps, RefreshRecords, RefreshStates
  <2>2. age' \in Ages
    BY <1>5 DEF TypeOK, Stamps, Ages, Never
  <2> QED BY <1>5, <2>1, <2>2 DEF TypeOK, Stamps
<1>6. CASE Fetches(r)
  <2>1. PICK dirty \in BOOLEAN :
           ref' = [ref EXCEPT ![r] = [@ EXCEPT !.pc = "storing", !.got = shown,
                                               !.dirty = dirty]]
    BY <1>6 DEF Fetches
  <2>3. [ref[r] EXCEPT !.pc = "storing", !.got = shown, !.dirty = dirty] \in RefreshRecords
    BY <1>1 DEF TypeOK, RefreshRecords, RefreshStates
  <2>4. ref' \in [Refreshes -> RefreshRecords]
    BY <2>1, <2>3 DEF TypeOK
  <2> QED BY <1>6, <2>4 DEF TypeOK, Fetches, rowVars
<1>7. CASE Stores(r)
  <2>1. ref' \in [Refreshes -> RefreshRecords]
    BY <1>7, IdleRecords DEF TypeOK, Stores
  <2>2. ref[r].got \subseteq HW
    BY <1>1 DEF RefreshRecords
  <2>3. stored' \subseteq HW /\ news' \subseteq HW
    BY <1>7, <2>2 DEF TypeOK, Stores
  <2> QED BY <1>7, <2>1, <2>3 DEF TypeOK, Stores, rowVars
<1>8. CASE FetchTimesOut(r)
  <2>1. ref' \in [Refreshes -> RefreshRecords]
    <3>1. CASE ref[r].tries + 1 >= Attempts
      BY <1>8, <3>1, IdleRecords DEF TypeOK, FetchTimesOut
    <3>2. CASE ~(ref[r].tries + 1 >= Attempts)
      <4>1. ref' = [ref EXCEPT ![r] = [ref[r] EXCEPT !.tries = ref[r].tries + 1]]
        BY <1>8, <3>2 DEF FetchTimesOut, TypeOK
      <4>2. ref[r].tries + 1 \in 0 .. Attempts - 1
        BY <1>1, <3>2 DEF RefreshRecords
      <4>4. [ref[r] EXCEPT !.tries = ref[r].tries + 1] \in RefreshRecords
        BY <1>1, <4>2 DEF RefreshRecords
      <4> QED BY <4>1, <4>4 DEF TypeOK
    <3> QED BY <3>1, <3>2
  <2>2. used' \in [Kinds -> Nat]
    BY <1>8, SpendType DEF TypeOK, FetchTimesOut, Kinds
  <2> QED BY <1>8, <2>1, <2>2 DEF TypeOK, FetchTimesOut, rowVars
<1>9. CASE RefreshFails(r)
  <2>1. ref' \in [Refreshes -> RefreshRecords]
    BY <1>9, IdleRecords DEF TypeOK, RefreshFails
  <2>2. used' \in [Kinds -> Nat]
    BY <1>9, SpendType DEF TypeOK, RefreshFails, Kinds
  <2> QED BY <1>9, <2>1, <2>2 DEF TypeOK, RefreshFails, rowVars
<1> QED BY <1>2, <1>3, <1>4, <1>5, <1>6, <1>7, <1>8, <1>9 DEF RefreshGoesOn

\* So does a request.
LEMMA RequestType ==
    ASSUME TypeOK, NEW b \in Requests,
           \/ \E kind \in {"bind", "unbind", "leave"} : RequestStarts(b, kind)
           \/ RequestGoesOn(b) \/ LoginFails(b) \/ LeaveFails(b) \/ Cleans(b)
    PROVE  TypeOK'
<1>1. req[b] \in RequestRecords
  BY DEF TypeOK
<1>2. ASSUME NEW kind \in {"bind", "unbind", "leave"}, RequestStarts(b, kind) PROVE TypeOK'
  <2>1. req' \in [Requests -> RequestRecords]
    BY <1>2 DEF TypeOK, RequestStarts, RequestRecords, RequestStates
  <2>2. used' \in [Kinds -> Nat]
    BY <1>2, SpendType DEF TypeOK, RequestStarts, Kinds
  <2> QED BY <1>2, <2>1, <2>2 DEF TypeOK, RequestStarts, rowVars
<1>3. CASE BindMerges(b)
  <2>1. req' \in [Requests -> RequestRecords]
    BY <1>3, <1>1 DEF TypeOK, BindMerges, RequestRecords, RequestStates
  <2> QED BY <1>3, <2>1 DEF TypeOK, BindMerges, rowVars
<1>4. CASE BindCommits(b)
  <2>1. req' \in [Requests -> RequestRecords]
    BY <1>4, IdleRecords DEF TypeOK, BindCommits
  <2>2. bound' \in BOOLEAN
    BY <1>4 DEF TypeOK, BindCommits, rowVars
  <2>5. account' = account
    BY <1>4 DEF BindCommits, rowVars
  <2>3. age' \in {age, Never}
    BY <1>4 DEF BindCommits, rowVars
  <2>4. age' \in Ages
    BY <2>3 DEF TypeOK, Ages, Never
  <2> QED BY <1>4, <2>1, <2>2, <2>4, <2>5 DEF TypeOK, BindCommits
<1>5. CASE UnbindTriggers(b)
  <2>1. req' \in [Requests -> RequestRecords]
    BY <1>5, <1>1 DEF TypeOK, UnbindTriggers, RequestRecords, RequestStates
  <2> QED BY <1>5, <2>1 DEF TypeOK, UnbindTriggers, rowVars
<1>6. CASE UnbindCommits(b)
  <2>1. req' \in [Requests -> RequestRecords]
    BY <1>6, IdleRecords DEF TypeOK, UnbindCommits
  <2>2. bound' \in BOOLEAN
    BY <1>6 DEF UnbindCommits
  <2>3. age' \in Ages
    BY <1>6 DEF TypeOK, UnbindCommits, Ages, Never
  <2> QED BY <1>6, <2>1, <2>2, <2>3 DEF TypeOK, UnbindCommits
<1>7. CASE LoginFails(b)
  <2>1. req' \in [Requests -> RequestRecords]
    BY <1>7, IdleRecords DEF TypeOK, LoginFails
  <2> QED BY <1>7, <2>1 DEF TypeOK, LoginFails, rowVars
<1>8. CASE Cleans(b)
  BY <1>8 DEF TypeOK, Cleans, rowVars
<1>9. CASE LeaveTriggers(b)
  <2>1. req' \in [Requests -> RequestRecords]
    BY <1>9, <1>1 DEF TypeOK, LeaveTriggers, RequestRecords, RequestStates
  <2> QED BY <1>9, <2>1 DEF TypeOK, LeaveTriggers, rowVars
<1>10. CASE LeaveCommits(b)
  <2>1. req' \in [Requests -> RequestRecords] /\ age' \in Ages
    BY <1>10, IdleRecords DEF TypeOK, LeaveCommits, Ages, Never
  <2> QED BY <1>10, <2>1 DEF TypeOK, LeaveCommits
<1>11. CASE LeaveFails(b)
  <2>1. req' \in [Requests -> RequestRecords]
    BY <1>11, IdleRecords DEF TypeOK, LeaveFails
  <2>2. used' \in [Kinds -> Nat]
    BY <1>11, SpendType DEF TypeOK, LeaveFails, Kinds
  <2> QED BY <1>11, <2>1, <2>2 DEF TypeOK, LeaveFails, rowVars
<1> QED BY <1>2, <1>3, <1>4, <1>5, <1>6, <1>7, <1>8, <1>9, <1>10, <1>11 DEF RequestGoesOn

LEMMA NextType == TypeOK /\ [Next]_vars => TypeOK'
<1> SUFFICES ASSUME TypeOK, [Next]_vars PROVE TypeOK'
  OBVIOUS
<1>1. CASE Tick
  <2>1. age' \in Ages
    BY <1>1 DEF TypeOK, Tick, Ages, Never
  <2> QED BY <1>1, <2>1 DEF TypeOK, Tick
<1>2. CASE Crashes
  <2>1. used' \in [Kinds -> Nat]
    BY <1>2, SpendType DEF TypeOK, Crashes, Kinds
  <2>2. ref' \in [Refreshes -> RefreshRecords] /\ req' \in [Requests -> RequestRecords]
    BY <1>2, IdleRecords DEF Crashes
  <2> QED BY <1>2, <2>1, <2>2 DEF TypeOK, Crashes, rowVars
<1>3. ASSUME NEW h \in HW, PlatformChanges(h) PROVE TypeOK'
  <2>1. used' \in [Kinds -> Nat]
    BY <1>3, SpendType DEF TypeOK, PlatformChanges, Kinds
  <2>2. shown' \subseteq HW
    BY <1>3 DEF TypeOK, PlatformChanges
  <2> QED BY <1>3, <2>1, <2>2 DEF TypeOK, PlatformChanges, rowVars
<1>4. CASE UNCHANGED vars
  BY <1>4 DEF TypeOK, vars, rowVars
<1>5. CASE Registers
  BY <1>5 DEF TypeOK, Registers
<1> QED BY <1>1, <1>2, <1>3, <1>4, <1>5, RefreshType, RequestType DEF Next

\* Every reachable state is well typed (the bookkeeping of fetch.py and auth.py).
THEOREM RefreshTypeCorrect == Spec => []TypeOK
<1>1. Init => TypeOK
  BY InitType
<1>2. TypeOK /\ [Next]_vars => TypeOK'
  BY NextType
<1> QED BY <1>1, <1>2, PTL DEF Spec

-------------------------------------------------------------------------------
(* Refreshes are a cooldown apart.                                         *)

\* Whoever is about to commit a stamp holds the lock, and what he has read of the
\* old stamp still holds: others may bind or unbind, none may stamp.
StampInv ==
    \A r \in Refreshes : ref[r].pc = "stamping" => lock = r /\ age >= Cooldown

LEMMA RefreshKeepsStamp ==
    ASSUME TypeOK, StampInv, NEW r \in Refreshes,
           RefreshStarts(r) \/ RefreshGoesOn(r) \/ FetchTimesOut(r) \/ RefreshFails(r)
    PROVE  StampInv'
<1> SUFFICES ASSUME NEW q \in Refreshes, ref'[q].pc = "stamping"
             PROVE  lock' = q /\ age' >= Cooldown
  BY DEF StampInv
<1>1. ref[r] \in RefreshRecords /\ ref[q] \in RefreshRecords
  BY DEF TypeOK
<1>2. CASE PassesCooldown(r)
  <2>1. lock = NoOne /\ lock' = r /\ age' = age /\ age >= Cooldown
    BY <1>2 DEF PassesCooldown, rowVars
  <2>2. CASE q = r
    BY <2>1, <2>2
  <2>3. CASE q # r
    <3>1. ref[q].pc = "stamping"
      BY <1>2, <2>3 DEF PassesCooldown, TypeOK
    <3> QED BY <3>1, <2>1 DEF StampInv, Refreshes
  <2> QED BY <2>2, <2>3
<1>3. CASE Stamps(r)
  <2>1. lock = r
    BY <1>3 DEF Stamps, StampInv
  <2>2. CASE q = r
    BY <1>3, <1>1, <2>2 DEF Stamps, TypeOK, IdleRefresh, RefreshRecords
  <2>3. CASE q # r
    <3>1. ref[q].pc = "stamping"
      BY <1>3, <2>3 DEF Stamps, TypeOK
    <3> QED BY <3>1, <2>1, <2>3 DEF StampInv
  <2> QED BY <2>2, <2>3
<1>4. CASE \/ RefreshStarts(r) \/ IsTurnedAway(r) \/ Fetches(r) \/ Stores(r)
           \/ FetchTimesOut(r) \/ RefreshFails(r)
  <2>1. lock' = lock /\ age' = age
    BY <1>4 DEF RefreshStarts, IsTurnedAway, Fetches, Stores, FetchTimesOut, RefreshFails,
                rowVars
  <2>2. ref[q].pc = "stamping"
    <3>1. CASE q = r
      <4>1. CASE RefreshStarts(r)
        BY <3>1, <4>1 DEF RefreshStarts, TypeOK, IdleRefresh
      <4>2. CASE IsTurnedAway(r) \/ Stores(r) \/ RefreshFails(r)
        <5>1. ref'[r] = IdleRefresh
          BY <4>2 DEF IsTurnedAway, Stores, RefreshFails, TypeOK
        <5> QED BY <5>1, <3>1 DEF IdleRefresh
      <4>3. CASE Fetches(r)
        BY <3>1, <4>3, <1>1 DEF Fetches, TypeOK, RefreshRecords
      <4>4. CASE FetchTimesOut(r)
        <5>1. CASE ref[r].tries + 1 >= Attempts
          BY <3>1, <4>4, <5>1 DEF FetchTimesOut, TypeOK, IdleRefresh
        <5>2. CASE ~(ref[r].tries + 1 >= Attempts)
          <6>1. ref' = [ref EXCEPT ![r] = [ref[r] EXCEPT !.tries = ref[r].tries + 1]]
            BY <4>4, <5>2 DEF FetchTimesOut, TypeOK
          <6>2. ref'[r].pc = ref[r].pc
            BY <6>1, <1>1 DEF TypeOK, RefreshRecords
          <6> QED BY <6>2, <3>1
        <5> QED BY <5>1, <5>2
      <4> QED BY <1>4, <4>1, <4>2, <4>3, <4>4
    <3>2. CASE q # r
      BY <1>4, <3>2 DEF RefreshStarts, IsTurnedAway, Fetches, Stores, FetchTimesOut,
                        RefreshFails, TypeOK
    <3> QED BY <3>1, <3>2
  <2> QED BY <2>1, <2>2 DEF StampInv
<1> QED BY <1>2, <1>3, <1>4 DEF RefreshGoesOn

LEMMA NextKeepsStamp == TypeOK /\ StampInv /\ [Next]_vars => StampInv'
<1> SUFFICES ASSUME TypeOK, StampInv, [Next]_vars PROVE StampInv'
  OBVIOUS
<1>1. ASSUME NEW b \in Requests,
             \/ \E kind \in {"bind", "unbind", "leave"} : RequestStarts(b, kind)
             \/ RequestGoesOn(b) \/ LoginFails(b) \/ LeaveFails(b) \/ Cleans(b)
      PROVE  StampInv'
  <2>1. ref' = ref /\ lock' = lock
    BY <1>1 DEF RequestStarts, RequestGoesOn, BindMerges, BindCommits, UnbindTriggers,
                UnbindCommits, LeaveTriggers, LeaveCommits, LeaveFails, LoginFails, Cleans
  <2>2. age' \in {age, Never}
    BY <1>1 DEF RequestStarts, RequestGoesOn, BindMerges, BindCommits, UnbindTriggers,
                UnbindCommits, LeaveTriggers, LeaveCommits, LeaveFails, LoginFails, Cleans, rowVars
  <2>3. age >= Cooldown => age' >= Cooldown
    BY <2>2 DEF Never
  <2> QED BY <2>1, <2>3 DEF StampInv
<1>2. CASE Tick
  BY <1>2 DEF Tick, StampInv
<1>3. CASE Crashes
  BY <1>3 DEF Crashes, StampInv, IdleRefresh
<1>4. ASSUME NEW h \in HW, PlatformChanges(h) PROVE StampInv'
  BY <1>4 DEF PlatformChanges, StampInv, rowVars
<1>5. CASE UNCHANGED vars
  BY <1>5 DEF vars, rowVars, StampInv
<1>6. CASE Registers
  BY <1>6 DEF Registers, StampInv
<1> QED BY <1>1, <1>2, <1>3, <1>4, <1>5, <1>6, RefreshKeepsStamp DEF Next

\* No stamp replaces one that has not cooled down (_check_platform_cooldown), for
\* any number of refreshes and requests.
THEOREM RefreshesSpaced == Spec => FetchesSpaced
<1>1. Init => TypeOK /\ StampInv
  <2> SUFFICES ASSUME Init PROVE StampInv
    BY InitType
  <2> QED BY DEF Init, StampInv, IdleRefresh
<1>2. TypeOK /\ StampInv /\ [Next]_vars => (TypeOK /\ StampInv)'
  BY NextType, NextKeepsStamp
<1>3. StampInv => \A r \in Refreshes :
                     ref[r].pc = "stamping" /\ ref'[r].pc = "fetching" => age >= Cooldown
  BY DEF StampInv
<1> QED BY <1>1, <1>2, <1>3, PTL DEF Spec, FetchesSpaced

-------------------------------------------------------------------------------
(* The table keeps its promise.                                            *)

LEMMA StepImplementsTable ==
    ASSUME TypeOK, [Next]_vars PROVE [Table!Next]_(Table!vars)
<1>1. ASSUME NEW r \in Refreshes, Stores(r) PROVE [Table!Next]_(Table!vars)
  <2> DEFINE new == ref[r].got \ ref[r].seen
  <2>1. new \in SUBSET HW
    BY DEF TypeOK, RefreshRecords
  <2>2. CASE new \cap stored # {} \/ (new # {} /\ ~account) \/ (ref[r].dirty /\ ~bound)
    BY <1>1, <2>2 DEF Stores, Table!vars
  <2>3. CASE ~(new \cap stored # {} \/ (new # {} /\ ~account) \/ (ref[r].dirty /\ ~bound))
    <3>1. Table!Insert(new)
      BY <1>1, <2>3 DEF Stores, Table!Insert
    <3> QED BY <2>1, <3>1 DEF Table!Next
  <2> QED BY <2>2, <2>3
<1>2. ASSUME NEW b \in Requests, Cleans(b) \/ LeaveCommits(b)
      PROVE  [Table!Next]_(Table!vars)
  BY <1>2 DEF Cleans, LeaveCommits, Table!Next, Table!RemoveAll
<1>3. ASSUME NEW r \in Refreshes,
             \/ RefreshStarts(r) \/ PassesCooldown(r) \/ IsTurnedAway(r) \/ Stamps(r)
             \/ Fetches(r) \/ FetchTimesOut(r) \/ RefreshFails(r)
      PROVE  UNCHANGED <<stored, news>>
  BY <1>3 DEF RefreshStarts, PassesCooldown, IsTurnedAway, Stamps, Fetches, FetchTimesOut,
              RefreshFails
<1>4. ASSUME NEW b \in Requests,
             \/ \E kind \in {"bind", "unbind", "leave"} : RequestStarts(b, kind)
             \/ BindMerges(b) \/ BindCommits(b) \/ UnbindTriggers(b) \/ UnbindCommits(b)
             \/ LeaveTriggers(b) \/ LeaveFails(b) \/ LoginFails(b)
      PROVE  UNCHANGED <<stored, news>>
  BY <1>4 DEF RequestStarts, BindMerges, BindCommits, UnbindTriggers, UnbindCommits,
              LeaveTriggers, LeaveFails, LoginFails
<1>5. ASSUME Registers \/ Tick \/ Crashes \/ (\E h \in HW : PlatformChanges(h)) \/ UNCHANGED vars
      PROVE  UNCHANGED <<stored, news>>
  BY <1>5 DEF Registers, Tick, Crashes, PlatformChanges, vars
<1> QED BY <1>1, <1>2, <1>3, <1>4, <1>5 DEF Next, RefreshGoesOn, RequestGoesOn, Table!vars

\* refresh_homework, fetch_homework, bind and unbind, however they overlap,
\* implement the promise of HomeworkTable about new_homework_ids.
THEOREM RefreshImplementsTable == Spec => TableSpec
<1>1. Init => Table!Init
  BY DEF Init, Table!Init
<1>2. TypeOK /\ [Next]_vars => [Table!Next]_(Table!vars)
  BY StepImplementsTable
<1> QED BY <1>1, <1>2, RefreshTypeCorrect, PTL DEF Spec, TableSpec, Table!Spec

-------------------------------------------------------------------------------
(* Jobs and bindings.  The hooks change the jobs before the commits change *)
(* the rows, so between the two a job may have no row yet, or a row no job *)
(* any more; and a commit may fail.                                        *)

Binding == {"bind", "bindCommit"}

\* A job without a row is the job of a binding that is about to commit it; a row
\* without a job is being removed, or its removal has failed.
JobsAccounted ==
    /\ job /\ ~bound => \E b \in Requests : req[b].pc = "bindCommit"
    /\ bound /\ ~job /\ used["lock"] = 0
           => \E b \in Requests : req[b].pc \in {"unbindCommit", "leaveCommit"}

\* The hook of a request that is about to commit has run, and nobody has undone it.
HooksHold ==
    \A b \in Requests :
        /\ req[b].pc = "bindCommit" => job
        /\ req[b].pc \in {"unbindCommit", "leaveCommit"} => ~job

\* Another binding may have inserted the row that a binding is to insert, and another
\* removal have taken the one that a removal is to delete, but no more than that.
SnapshotsHold ==
    \A b \in Requests :
        /\ req[b].pc \in Binding => account /\ (req[b].sawBound => bound)
        /\ req[b].pc \in {"unbind", "unbindCommit"} => (bound => req[b].sawBound)

JobInv == JobsAccounted /\ HooksHold /\ SnapshotsHold

\* Steps of refreshes, hooks and the world leave all of it alone.
LEMMA JobKept ==
    ASSUME JobInv, used'["lock"] = used["lock"], UNCHANGED <<account, bound, job, req>>
    PROVE  JobInv'
BY DEF JobInv, JobsAccounted, HooksHold, SnapshotsHold

\* A deletion that has failed is never forgotten.
LEMMA LockCounts ==
    ASSUME TypeOK, NEW kind \in Kinds, Spend(kind)
    PROVE  /\ kind # "lock" => used'["lock"] = used["lock"]
           /\ kind = "lock" => used'["lock"] # 0
BY DEF Spend, TypeOK, Kinds

LEMMA RequestKeepsJob ==
    ASSUME TypeOK, JobInv, Alike, NEW b \in Requests,
           \/ \E kind \in {"bind", "unbind", "leave"} : RequestStarts(b, kind)
           \/ RequestGoesOn(b) \/ LoginFails(b)
    PROVE  JobInv'
<1> USE DEF JobInv, JobsAccounted, HooksHold, SnapshotsHold, Binding
<1>1. req[b] \in RequestRecords /\ IdleRequest.pc = "idle"
  BY DEF TypeOK, IdleRequest
<1>2. ASSUME NEW kind \in {"bind", "unbind", "leave"}, RequestStarts(b, kind) PROVE JobInv'
  <2>1. /\ req'[b] = [pc |-> kind, sawBound |-> bound, sawAge |-> age]
        /\ \A c \in Requests \ {b} : req'[c] = req[c]
        /\ req[b].pc = "idle" /\ account /\ UNCHANGED <<account, bound, job>>
    BY <1>2 DEF RequestStarts, TypeOK, rowVars
  <2>2. used'["lock"] = used["lock"]
    BY <1>2, LockCounts DEF RequestStarts, Kinds
  <2> QED BY <2>1, <2>2 DEF TypeOK
<1>3. CASE BindMerges(b)
  <2>1. /\ req'[b].pc = "bindCommit" /\ req'[b].sawBound = req[b].sawBound
        /\ \A c \in Requests \ {b} : req'[c] = req[c]
        /\ req[b].pc = "bind" /\ job' = TRUE /\ UNCHANGED <<account, bound, used>>
    BY <1>1, <1>3 DEF BindMerges, TypeOK, RequestRecords, rowVars
  <2>2. \A c \in Requests : req[c].pc \notin {"unbind", "unbindCommit", "leave", "leaveCommit"}
    BY <2>1 DEF Alike
  <2> QED BY <2>1, <2>2
<1>4. CASE UnbindTriggers(b) \/ LeaveTriggers(b)
  <2>1. /\ req'[b].pc \in {"unbindCommit", "leaveCommit"}
        /\ req'[b].pc = "unbindCommit" => req[b].pc = "unbind"
        /\ req'[b].sawBound = req[b].sawBound
        /\ \A c \in Requests \ {b} : req'[c] = req[c]
        /\ req[b].pc \in {"unbind", "leave"} /\ job' = FALSE
        /\ UNCHANGED <<account, bound, used>>
    BY <1>1, <1>4 DEF UnbindTriggers, LeaveTriggers, TypeOK, RequestRecords, rowVars
  <2>2. \A c \in Requests : req[c].pc \notin {"bind", "bindCommit"}
    BY <2>1 DEF Alike
  <2> QED BY <2>1, <2>2
<1>5. CASE BindCommits(b)
  <2>1. /\ req'[b].pc = "idle" /\ \A c \in Requests \ {b} : req'[c] = req[c]
        /\ req[b].pc = "bindCommit" /\ UNCHANGED <<account, job, used>>
        /\ bound' = TRUE \/ (bound' = bound /\ ~(account /\ req[b].sawBound = bound))
    BY <1>1, <1>5 DEF BindCommits, TypeOK, rowVars
  <2>2. account /\ (req[b].sawBound => bound) /\ job
    BY <2>1
  <2>3. bound' = TRUE
    BY <1>1, <2>1, <2>2 DEF TypeOK, RequestRecords
  <2>4. \A c \in Requests : req[c].pc \notin {"unbind", "unbindCommit", "leave", "leaveCommit"}
    BY <2>1 DEF Alike
  <2> QED BY <2>1, <2>2, <2>3, <2>4
<1>6. CASE UnbindCommits(b) \/ LeaveCommits(b)
  <2>1. /\ req'[b].pc = "idle" /\ \A c \in Requests \ {b} : req'[c] = req[c]
        /\ req[b].pc \in {"unbindCommit", "leaveCommit"} /\ UNCHANGED <<job, used>>
        /\ \/ bound' = FALSE
           \/ req[b].pc = "unbindCommit" /\ bound' = (bound /\ ~req[b].sawBound)
    BY <1>1, <1>6 DEF UnbindCommits, LeaveCommits, TypeOK
  <2>2. ~job /\ bound' = FALSE
    BY <1>1, <2>1 DEF TypeOK, RequestRecords
  <2>3. \A c \in Requests : req[c].pc \notin {"bind", "bindCommit"}
    BY <2>1 DEF Alike
  <2> QED BY <2>1, <2>2, <2>3
<1>7. CASE LoginFails(b)
  <2>1. /\ req'[b].pc = "idle" /\ \A c \in Requests \ {b} : req'[c] = req[c]
        /\ req[b].pc = "bind" /\ UNCHANGED <<account, bound, job, used>>
    BY <1>1, <1>7 DEF LoginFails, TypeOK, rowVars
  <2> QED BY <2>1
<1> QED BY <1>2, <1>3, <1>4, <1>5, <1>6, <1>7 DEF RequestGoesOn

LEMMA NextKeepsJob ==
    ASSUME TypeOK, JobInv, Alike, [Next]_vars
    PROVE  JobInv'
<1>1. ASSUME NEW r \in Refreshes,
             RefreshStarts(r) \/ RefreshGoesOn(r) \/ FetchTimesOut(r) \/ RefreshFails(r)
      PROVE  JobInv'
  <2>1. UNCHANGED <<account, bound, job, req>>
    BY <1>1 DEF RefreshStarts, RefreshGoesOn, PassesCooldown, IsTurnedAway, Stamps, Fetches,
       Stores, FetchTimesOut, RefreshFails, rowVars
  <2>2. used'["lock"] = used["lock"]
    BY <1>1, LockCounts DEF RefreshStarts, RefreshGoesOn, PassesCooldown, IsTurnedAway,
       Stamps, Fetches, Stores, FetchTimesOut, RefreshFails, Kinds
  <2> QED BY <2>1, <2>2, JobKept
<1>2. ASSUME \/ Tick \/ UNCHANGED vars \/ \E h \in HW : PlatformChanges(h)
             \/ \E b \in Requests : Cleans(b)
      PROVE  JobInv'
  <2>1. UNCHANGED <<account, bound, job, req>>
    BY <1>2 DEF Cleans, Tick, PlatformChanges, vars, rowVars
  <2>2. used'["lock"] = used["lock"]
    BY <1>2, LockCounts DEF Cleans, Tick, PlatformChanges, vars, Kinds
  <2> QED BY <2>1, <2>2, JobKept
<1>3. CASE Registers
  BY <1>3 DEF Registers, JobInv, JobsAccounted, HooksHold, SnapshotsHold
<1>4. CASE Crashes
  BY <1>4 DEF Crashes, JobInv, JobsAccounted, HooksHold, SnapshotsHold, Binding, IdleRequest,
     rowVars
<1>5. ASSUME NEW b \in Requests, LeaveFails(b) PROVE JobInv'
  <2>1. /\ req'[b].pc = "idle" /\ \A c \in Requests \ {b} : req'[c] = req[c]
        /\ req[b].pc = "leaveCommit" /\ UNCHANGED <<account, bound, job>>
    BY <1>5 DEF LeaveFails, TypeOK, rowVars, IdleRequest
  <2>2. used'["lock"] # 0
    BY <1>5, LockCounts DEF LeaveFails, Kinds
  <2> QED BY <2>1, <2>2 DEF JobInv, JobsAccounted, HooksHold, SnapshotsHold, Binding
<1>6. ASSUME NEW b \in Requests,
             \/ \E kind \in {"bind", "unbind", "leave"} : RequestStarts(b, kind)
             \/ RequestGoesOn(b) \/ LoginFails(b)
      PROVE  JobInv'
  BY <1>6, RequestKeepsJob
<1> QED BY <1>1, <1>2, <1>3, <1>4, <1>5, <1>6 DEF Next

\* As long as no binding overlaps a removal, the scheduler has no job of a platform
\* that is not bound, and every job of one that is unless a deletion has failed:
\* through overlapping bindings, of which one fails at its commit, overlapping
\* removals, failed deletions, refused logins and restarts (add_job, del_job,
\* _on_delete_user, init_refresh_task).
THEOREM JobsFollow == Spec => JobsFollowBindings
<1> DEFINE Follow == (\A b \in Requests : req[b].pc = "idle")
                        => (job => bound) /\ (bound /\ used["lock"] = 0 => job)
<1>1. Init => JobInv
  <2> SUFFICES ASSUME Init PROVE JobInv
    OBVIOUS
  <2>1. ~job /\ ~bound /\ \A b \in Requests : req[b].pc = "idle"
    BY DEF Init, IdleRequest
  <2> QED BY <2>1 DEF JobInv, JobsAccounted, HooksHold, SnapshotsHold, Binding
<1>2. Alike /\ TypeOK /\ JobInv /\ [Next]_vars => JobInv'
  BY NextKeepsJob
<1>3. JobInv => Follow
  BY DEF JobInv, JobsAccounted
<1> QED BY <1>1, <1>2, <1>3, RefreshTypeCorrect, PTL DEF Spec, JobsFollowBindings

===============================================================================
