---------------------------- MODULE AccountsProofs -----------------------------
(***************************************************************************)
(* Theorems about Accounts, for any requests, codes, refreshes and limits: *)
(* type correctness, one login per code, the row for QQ push, and that the *)
(* versions of the tokens implement TokenVersions.                         *)
(***************************************************************************)
EXTENDS Accounts, TLAPS

USE NoCodeAssumption, PasswordAssumption, LimitAssumption

LEMMA SpendType ==
    ASSUME used \in [Kinds -> Nat], NEW kind \in Kinds, Spend(kind)
    PROVE  /\ used' \in [Kinds -> Nat]
           /\ kind # "crash" => used'["crash"] = used["crash"]
           /\ kind = "crash" => used'["crash"] > 0
BY DEF Spend, Kinds

LEMMA InitType == Init => TypeOK
<1> SUFFICES ASSUME Init PROVE TypeOK
  OBVIOUS
<1>1. code \in [Codes -> CodeRecords]
  BY DEF Init, CodeRecords, Unused
<1>2. req \in [Requests -> RequestRecords]
  BY DEF Init, RequestRecords, RequestStates, Idle, Request
<1>3. work \in [Workers -> WorkRecords]
  BY DEF Init, WorkRecords, NoWork, Stored
<1>4. used \in [Kinds -> Nat]
  BY DEF Init
<1>5. \A q \in Requests : req[q].pc = "idle"
  BY DEF Init, Idle, Request
<1> QED BY <1>1, <1>2, <1>3, <1>4, <1>5 DEF Init, TypeOK, NoVersion, Stored

LEMMA RequestType ==
    ASSUME NEW pc \in RequestStates, NEW c \in Codes \cup {NoCode},
           NEW wish \in Stored \cup {"keep"}
    PROVE  Request(pc, c, wish) \in RequestRecords /\ Request(pc, c, wish).pc = pc
              /\ Request(pc, c, wish).code = c
BY DEF Request, RequestRecords

LEMMA IdleType == Idle \in RequestRecords /\ Idle.pc = "idle"
BY RequestType DEF Idle, RequestStates

\* A request in the place of another.
LEMMA GoesOnType ==
    ASSUME TypeOK, NEW q \in Requests, NEW next \in RequestRecords,
           next.pc \in {"scanning", "userinfo"} => next.code \in Codes,
           req' = [req EXCEPT ![q] = next]
    PROVE  /\ req' \in [Requests -> RequestRecords]
           /\ \A r \in Requests :
                 req'[r].pc \in {"scanning", "userinfo"} => req'[r].code \in Codes
BY DEF TypeOK

LEMMA RemovesType ==
    ASSUME TypeOK, NEW q \in Requests, req[q].pc \in {"scanning", "userinfo"},
           NEW next \in RequestRecords, Removes(q, next),
           next.pc \in {"scanning", "userinfo"} => next.code \in Codes
    PROVE  /\ code' \in [Codes -> CodeRecords]
           /\ req' \in [Requests -> RequestRecords]
           /\ \A r \in Requests :
                 req'[r].pc \in {"scanning", "userinfo"} => req'[r].code \in Codes
<1> DEFINE error == Request("keyError", NoCode, "keep")
<1>1. error \in RequestRecords /\ error.pc = "keyError"
  BY RequestType DEF RequestStates
<1>2. [code EXCEPT ![req[q].code].state = "gone"] \in [Codes -> CodeRecords]
  BY DEF TypeOK, CodeRecords
<1>3. CASE req' = [req EXCEPT ![q] = next]
  BY <1>2, <1>3, GoesOnType DEF Removes, TypeOK
<1>4. CASE req' = [req EXCEPT ![q] = error] /\ code' = code
  BY <1>1, <1>4, GoesOnType DEF TypeOK
<1> QED BY <1>3, <1>4 DEF Removes

LEMMA ReadsType ==
    ASSUME TypeOK, NEW q \in Requests, NEW wish \in Stored \cup {"keep"}, ReadsUser(q, wish)
    PROVE  /\ req' \in [Requests -> RequestRecords] /\ tokens' \subseteq Nat
           /\ \A r \in Requests :
                 req'[r].pc \in {"scanning", "userinfo"} => req'[r].code \in Codes
<1> DEFINE pc == IF Exists THEN "updating" ELSE "inserting"
           change == IF wish = NoPassword /\ password = NoPassword THEN "keep" ELSE wish
           next == Request(pc, NoCode, change)
<1>1. change \in Stored \cup {"keep"}
  OBVIOUS
<1>2. next \in RequestRecords /\ next.pc \notin {"scanning", "userinfo"}
  BY <1>1, RequestType DEF RequestStates
<1>3. req' = [req EXCEPT ![q] = next]
  BY DEF ReadsUser, TypeOK
<1>4. tokens' \subseteq Nat
  BY DEF ReadsUser, TypeOK
<1> HIDE DEF next
<1> QED BY <1>2, <1>3, <1>4, GoesOnType

\* The QR login session.
LEMMA PollType ==
    ASSUME TypeOK, NEW q \in Requests,
           \/ \E c \in Codes, wish \in {NoPassword, "keep"} : PollStarts(q, c, wish)
           \/ NotScanned(q) \/ Scanned(q) \/ ScanFails(q) \/ KeyErrorEnds(q)
           \/ UserinfoFails(q) \/ GetsUserinfo(q)
    PROVE  TypeOK'
<1>1. ASSUME NEW c \in Codes, NEW wish \in {NoPassword, "keep"}, PollStarts(q, c, wish)
      PROVE  TypeOK'
  <2> DEFINE next == Request("scanning", c, wish)
  <2>1. next \in RequestRecords /\ next.pc = "scanning" /\ next.code \in Codes
    BY RequestType DEF RequestStates, Stored
  <2>2. req' = [req EXCEPT ![q] = next]
    BY <1>1 DEF PollStarts
  <2>3. code' \in [Codes -> CodeRecords]
    BY <1>1 DEF PollStarts, TypeOK, CodeRecords
  <2> HIDE DEF next
  <2> QED BY <2>1, <2>2, <2>3, <1>1, GoesOnType
          DEF PollStarts, TypeOK, dbVars, rowVars, tokenVars
<1>2. ASSUME NotScanned(q) \/ KeyErrorEnds(q) \/ UserinfoFails(q) PROVE TypeOK'
  <2>1. used' \in [Kinds -> Nat]
    BY <1>2, SpendType DEF NotScanned, KeyErrorEnds, UserinfoFails, TypeOK, Kinds
  <2>2. req' = [req EXCEPT ![q] = Idle]
    BY <1>2 DEF NotScanned, KeyErrorEnds, UserinfoFails
  <2> QED BY <2>1, <2>2, <1>2, IdleType, GoesOnType
          DEF NotScanned, KeyErrorEnds, UserinfoFails, TypeOK, dbVars, rowVars, tokenVars
<1>3. CASE Scanned(q)
  <2> DEFINE next == Request("userinfo", req[q].code, req[q].wish)
  <2>1. req[q].code \in Codes /\ req[q].wish \in Stored \cup {"keep"}
    BY <1>3 DEF Scanned, TypeOK, RequestRecords
  <2>2. next \in RequestRecords /\ next.code \in Codes
    BY <2>1, RequestType DEF RequestStates
  <2>3. Removes(q, next) /\ req[q].pc = "scanning"
    BY <1>3 DEF Scanned
  <2> HIDE DEF next
  <2> QED BY <2>2, <2>3, <1>3, RemovesType DEF Scanned, TypeOK, dbVars, rowVars, tokenVars
<1>4. CASE ScanFails(q)
  <2>1. used' \in [Kinds -> Nat]
    BY <1>4, SpendType DEF ScanFails, TypeOK, Kinds
  <2>2. req[q].pc = "scanning"
    BY <1>4 DEF ScanFails
  <2>3. /\ code' \in [Codes -> CodeRecords]
        /\ req' \in [Requests -> RequestRecords]
        /\ \A r \in Requests :
              req'[r].pc \in {"scanning", "userinfo"} => req'[r].code \in Codes
    <3>1. CASE Removes(q, Idle)
      BY <2>2, <3>1, IdleType, RemovesType
    <3>2. CASE req' = [req EXCEPT ![q] = Idle] /\ UNCHANGED code
      BY <3>2, IdleType, GoesOnType DEF TypeOK
    <3> QED BY <1>4, <3>1, <3>2 DEF ScanFails
  <2> QED BY <2>1, <2>3, <1>4 DEF ScanFails, TypeOK, dbVars, rowVars, tokenVars
<1>5. CASE GetsUserinfo(q)
  <2>1. ReadsUser(q, req[q].wish) /\ code' \in [Codes -> CodeRecords]
    BY <1>5 DEF GetsUserinfo, TypeOK, CodeRecords
  <2>2. req[q].wish \in Stored \cup {"keep"}
    BY DEF TypeOK, RequestRecords
  <2> QED BY <2>1, <2>2, <1>5, ReadsType DEF GetsUserinfo, TypeOK, dbVars, rowVars
<1> QED BY <1>1, <1>2, <1>3, <1>4, <1>5

\* Logins, logouts and deletions.
LEMMA AccountType ==
    ASSUME TypeOK, NEW q \in Requests,
           \/ LoginStarts(q) \/ LoginFails(q) \/ IdsAccepts(q) \/ Inserts(q) \/ Updates(q)
           \/ LogoutStarts(q) \/ LogoutCommits(q)
           \/ LeaveStarts(q) \/ LeaveFails(q) \/ LeaveCommits(q)
    PROVE  TypeOK'
<1>1. ASSUME LoginStarts(q) \/ LogoutStarts(q) \/ LeaveStarts(q) PROVE TypeOK'
  <2>1. used' \in [Kinds -> Nat]
    BY <1>1, SpendType DEF LoginStarts, LogoutStarts, LeaveStarts, TypeOK, Kinds
  <2>2. PICK pc \in {"ids", "logout", "leaving"} :
           req' = [req EXCEPT ![q] = Request(pc, NoCode, "keep")]
    BY <1>1 DEF LoginStarts, LogoutStarts, LeaveStarts
  <2> DEFINE next == Request(pc, NoCode, "keep")
  <2>3. next \in RequestRecords /\ next.pc \notin {"scanning", "userinfo"}
    BY RequestType DEF RequestStates
  <2>4. req' = [req EXCEPT ![q] = next]
    BY <2>2
  <2> HIDE DEF next
  <2> QED BY <2>1, <2>3, <2>4, <1>1, GoesOnType
          DEF LoginStarts, LogoutStarts, LeaveStarts, TypeOK, dbVars, rowVars, tokenVars
<1>2. ASSUME LoginFails(q) \/ LeaveFails(q) PROVE TypeOK'
  <2>1. used' \in [Kinds -> Nat]
    BY <1>2, SpendType DEF LoginFails, LeaveFails, TypeOK, Kinds
  <2>2. req' = [req EXCEPT ![q] = Idle]
    BY <1>2 DEF LoginFails, LeaveFails
  <2> QED BY <2>1, <2>2, <1>2, IdleType, GoesOnType
          DEF LoginFails, LeaveFails, TypeOK, dbVars, rowVars, tokenVars
<1>3. CASE IdsAccepts(q)
  <2>1. ReadsUser(q, accepted) /\ accepted \in Stored \cup {"keep"}
    BY <1>3 DEF IdsAccepts, TypeOK
  <2> QED BY <1>3, <2>1, ReadsType DEF IdsAccepts, TypeOK, dbVars, rowVars
<1>4. ASSUME Inserts(q) \/ Updates(q) \/ LogoutCommits(q) \/ LeaveCommits(q) PROVE TypeOK'
  <2>1. req' = [req EXCEPT ![q] = Idle]
    BY <1>4 DEF Inserts, Updates, LogoutCommits, LeaveCommits
  <2>2. /\ version' \in Nat /\ made' \in Nat /\ password' \in Stored
        /\ cookie' \in BOOLEAN /\ config' \in BOOLEAN
        /\ tokens' \subseteq Nat /\ hooks' \in Nat /\ told' \in BOOLEAN
    <3>0. NewPassword(q) \in Stored /\ (req[q].wish = "keep" \/ req[q].wish \in Stored)
      BY DEF NewPassword, TypeOK, RequestRecords, Stored
    <3>1. CASE Inserts(q)
      <4>1. CASE Exists
        BY <3>1, <4>1 DEF Inserts, TypeOK, rowVars, tokenVars
      <4>2. CASE ~Exists
        <5>1. /\ made' = made + 1 /\ version' = made'
              /\ password' = NewPassword(q)
              /\ cookie' = TRUE /\ told' = FALSE /\ hooks' = hooks + 1
              /\ tokens' = tokens \cup {version'} /\ config' = config
          BY <3>1, <4>2 DEF Inserts
        <5>2. made' \in Nat /\ version' \in Nat /\ hooks' \in Nat
          BY <5>1 DEF TypeOK
        <5>3. password' \in Stored /\ cookie' \in BOOLEAN /\ told' \in BOOLEAN
          BY <5>1, <3>0
        <5>4. tokens' \subseteq Nat
          BY <5>1, <5>2 DEF TypeOK
        <5> QED BY <5>1, <5>2, <5>3, <5>4 DEF TypeOK
      <4> QED BY <4>1, <4>2
    <3>2. CASE Updates(q)
      <4>1. password' \in Stored
        BY <3>0, <3>2 DEF Updates, TypeOK, rowVars
      <4> QED BY <3>2, <4>1 DEF Updates, TypeOK, rowVars, tokenVars
    <3>3. CASE LogoutCommits(q)
      BY <3>3 DEF LogoutCommits, TypeOK, Exists
    <3>4. CASE LeaveCommits(q)
      BY <3>4 DEF LeaveCommits, TypeOK, NoVersion, Stored, tokenVars
    <3> QED BY <1>4, <3>1, <3>2, <3>3, <3>4
  <2> QED BY <2>1, <2>2, <1>4, IdleType, GoesOnType
          DEF Inserts, Updates, LogoutCommits, LeaveCommits, TypeOK
<1> QED BY <1>1, <1>2, <1>3, <1>4

\* The refreshes' logins, the hook, codes and crashes.
LEMMA OthersType ==
    ASSUME TypeOK,
           \/ \E c \in Codes : OffersCode(c) \/ ClearsExpired(c) \/ Scans(c)
           \/ \E w \in Workers : WorkStarts(w) \/ WorkGoesOn(w) \/ WorkFails(w)
           \/ HookConfigures \/ CookieDies \/ Crash
           \/ \E p \in Stored : IdsTurns(p)
    PROVE  TypeOK'
<1>1. ASSUME NEW c \in Codes, OffersCode(c) \/ ClearsExpired(c) \/ Scans(c) PROVE TypeOK'
  <2>1. used' \in [Kinds -> Nat]
    BY <1>1, SpendType DEF OffersCode, ClearsExpired, Scans, TypeOK, Kinds
  <2>2. code' \in [Codes -> CodeRecords]
    <3>1. code[c] \in CodeRecords
      BY DEF TypeOK
    <3>2. /\ \A state \in {"open", "gone"} : [code[c] EXCEPT !.state = state] \in CodeRecords
          /\ [code[c] EXCEPT !.scanned = TRUE] \in CodeRecords
      BY <3>1 DEF CodeRecords
    <3>3. \/ \E state \in {"open", "gone"} :
                 code' = [code EXCEPT ![c] = [code[c] EXCEPT !.state = state]]
          \/ code' = [code EXCEPT ![c] = [code[c] EXCEPT !.scanned = TRUE]]
      BY <1>1 DEF OffersCode, ClearsExpired, Scans, TypeOK
    <3> QED BY <3>2, <3>3 DEF TypeOK
  <2>3. UNCHANGED <<version, password, cookie, config, tokenVars, hooks, accepted, told, req,
                  work>>
    BY <1>1 DEF OffersCode, ClearsExpired, Scans, dbVars, rowVars
  <2> QED BY <2>1, <2>2, <2>3 DEF TypeOK, tokenVars
<1>2. ASSUME NEW w \in Workers, WorkStarts(w) \/ WorkGoesOn(w) \/ WorkFails(w) PROVE TypeOK'
  <2>1. used' \in [Kinds -> Nat]
    BY <1>2, SpendType DEF WorkStarts, WorkGoesOn, WorkFails, CookieAccepted,
       CookieRefused, PasswordAccepted, PasswordRefused, WorkCommits, TypeOK, Kinds
  <2>2. work' \in [Workers -> WorkRecords]
    <3>1. PICK next \in WorkRecords : work' = [work EXCEPT ![w] = next]
      <4>1. work[w] \in WorkRecords /\ NoWork \in WorkRecords
        BY DEF TypeOK, WorkRecords, NoWork, Stored
      <4>2. CASE WorkStarts(w)
        <5> DEFINE next == [pc |-> "cookie", sawPassword |-> password, sawCookie |-> cookie]
        <5>1. next \in WorkRecords
          BY DEF TypeOK, WorkRecords
        <5> QED BY <4>2, <5>1 DEF WorkStarts
      <4>3. \A pc \in {"password", "committing"} : [work[w] EXCEPT !.pc = pc] \in WorkRecords
        BY <4>1 DEF WorkRecords
      <4>4. CASE CookieRefused(w) \/ PasswordAccepted(w)
        <5>1. \/ work' = [work EXCEPT ![w] = NoWork]
              \/ \E pc \in {"password", "committing"} :
                    work' = [work EXCEPT ![w] = [work[w] EXCEPT !.pc = pc]]
          BY <4>1, <4>4 DEF CookieRefused, PasswordAccepted, TypeOK
        <5> QED BY <4>1, <4>3, <5>1
      <4>5. CASE CookieAccepted(w) \/ PasswordRefused(w) \/ WorkCommits(w) \/ WorkFails(w)
        BY <4>1, <4>5 DEF CookieAccepted, PasswordRefused, WorkCommits, WorkFails
      <4> QED BY <1>2, <4>2, <4>4, <4>5 DEF WorkGoesOn
    <3> QED BY <3>1 DEF TypeOK
  <2>3. told' \in BOOLEAN /\ cookie' \in BOOLEAN
    BY <1>2 DEF WorkStarts, WorkGoesOn, WorkFails, CookieAccepted, CookieRefused,
       PasswordAccepted, PasswordRefused, WorkCommits, TypeOK, dbVars, rowVars, Exists
  <2>4. UNCHANGED <<version, password, config, tokenVars, hooks, accepted, code, req>>
    BY <1>2 DEF WorkStarts, WorkGoesOn, WorkFails, CookieAccepted, CookieRefused,
       PasswordAccepted, PasswordRefused, WorkCommits, dbVars, rowVars
  <2> QED BY <2>1, <2>2, <2>3, <2>4 DEF TypeOK, tokenVars
<1>3. CASE HookConfigures
  BY <1>3 DEF HookConfigures, TypeOK, rowVars, tokenVars, Exists
<1>4. CASE CookieDies
  BY <1>4, SpendType DEF CookieDies, TypeOK, tokenVars, Kinds
<1>5. CASE Crash
  <2>1. used' \in [Kinds -> Nat]
    BY <1>5, SpendType DEF Crash, TypeOK, Kinds
  <2>2. code' \in [Codes -> CodeRecords]
    BY <1>5 DEF Crash, TypeOK, CodeRecords
  <2>3. /\ req' \in [Requests -> RequestRecords]
        /\ \A r \in Requests :
              req'[r].pc \in {"scanning", "userinfo"} => req'[r].code \in Codes
    BY <1>5, IdleType DEF Crash
  <2>4. work' \in [Workers -> WorkRecords]
    BY <1>5 DEF Crash, WorkRecords, NoWork, Stored
  <2> QED BY <2>1, <2>2, <2>3, <2>4, <1>5 DEF Crash, TypeOK, dbVars, rowVars, tokenVars
<1>6. ASSUME NEW p \in Stored, IdsTurns(p) PROVE TypeOK'
  BY <1>6, SpendType DEF IdsTurns, TypeOK, dbVars, rowVars, tokenVars, Kinds
<1> QED BY <1>1, <1>2, <1>3, <1>4, <1>5, <1>6

LEMMA TypeStep == TypeOK /\ [Next]_vars => TypeOK'
<1> SUFFICES ASSUME TypeOK, [Next]_vars PROVE TypeOK'
  OBVIOUS
<1>1. CASE UNCHANGED vars
  BY <1>1 DEF TypeOK, vars, dbVars, rowVars, tokenVars
<1>2. CASE Next
  BY <1>2, PollType, AccountType, OthersType DEF Next, RequestGoesOn
<1> QED BY <1>1, <1>2

(***************************************************************************)
(* Every variable holds a value of its kind, in every reachable state.     *)
(***************************************************************************)
THEOREM TypeCorrect == Spec => []TypeOK
BY InitType, TypeStep, PTL DEF Spec

-------------------------------------------------------------------------------
(* The row for QQ push.                                                    *)

\* What a step must leave alone for Configured not to be in danger.
LEMMA ConfiguredKept ==
    ASSUME TypeOK, Configured, used'["crash"] = used["crash"],
           UNCHANGED <<version, config, hooks>>
    PROVE  Configured'
BY DEF Configured, Exists

LEMMA ConfiguredStep == TypeOK /\ Configured /\ [Next]_vars => Configured'
<1> SUFFICES ASSUME TypeOK, Configured, [Next]_vars PROVE Configured'
  OBVIOUS
<1>1. CASE UNCHANGED vars
  BY <1>1 DEF Configured, Exists, vars, dbVars, rowVars
<1>2. ASSUME NEW q \in Requests, Inserts(q) PROVE Configured'
  <2>1. CASE Exists
    BY <1>2, <2>1, ConfiguredKept DEF Inserts, rowVars
  <2>2. CASE ~Exists
    BY <1>2, <2>2 DEF Inserts, Configured, TypeOK
  <2> QED BY <2>1, <2>2
<1>3. ASSUME NEW q \in Requests, LogoutCommits(q) PROVE Configured'
  BY <1>3 DEF LogoutCommits, Configured, Exists
<1>4. ASSUME NEW q \in Requests, LeaveCommits(q) PROVE Configured'
  BY <1>4 DEF LeaveCommits, Configured, Exists
<1>5. CASE HookConfigures
  BY <1>5 DEF HookConfigures, Configured, Exists, rowVars
<1>6. CASE Crash
  BY <1>6, SpendType DEF Crash, Configured, TypeOK, Kinds
<1>7. ASSUME NEW q \in Requests, NEW c \in Codes, NEW wish \in {NoPassword, "keep"},
             PollStarts(q, c, wish)
      PROVE  Configured'
  BY <1>7, ConfiguredKept DEF PollStarts, dbVars, rowVars
<1>8. ASSUME NEW q \in Requests,
             \/ NotScanned(q) \/ Scanned(q) \/ ScanFails(q) \/ KeyErrorEnds(q)
             \/ UserinfoFails(q) \/ GetsUserinfo(q)
      PROVE  Configured'
  <2>1. used'["crash"] = used["crash"]
    BY <1>8, SpendType DEF NotScanned, Scanned, ScanFails, KeyErrorEnds, UserinfoFails,
       GetsUserinfo, TypeOK, Kinds
  <2> QED BY <1>8, <2>1, ConfiguredKept DEF NotScanned, Scanned, ScanFails, KeyErrorEnds,
          UserinfoFails, GetsUserinfo, dbVars, rowVars
<1>9. ASSUME NEW q \in Requests,
             \/ LoginStarts(q) \/ LoginFails(q) \/ IdsAccepts(q) \/ Updates(q)
             \/ LogoutStarts(q) \/ LeaveStarts(q) \/ LeaveFails(q)
      PROVE  Configured'
  <2>1. used'["crash"] = used["crash"]
    BY <1>9, SpendType DEF LoginStarts, LoginFails, IdsAccepts, Updates, LogoutStarts,
       LeaveStarts, LeaveFails, TypeOK, Kinds
  <2> QED BY <1>9, <2>1, ConfiguredKept DEF LoginStarts, LoginFails, IdsAccepts, Updates,
          LogoutStarts, LeaveStarts, LeaveFails, dbVars, rowVars
<1>10. ASSUME NEW c \in Codes, OffersCode(c) \/ ClearsExpired(c) \/ Scans(c)
       PROVE  Configured'
  <2>1. used'["crash"] = used["crash"]
    BY <1>10, SpendType DEF OffersCode, ClearsExpired, Scans, TypeOK, Kinds
  <2> QED BY <1>10, <2>1, ConfiguredKept
          DEF OffersCode, ClearsExpired, Scans, dbVars, rowVars
<1>11. ASSUME NEW w \in Workers, WorkStarts(w) \/ WorkGoesOn(w) \/ WorkFails(w)
       PROVE  Configured'
  <2>1. used'["crash"] = used["crash"]
    BY <1>11, SpendType DEF WorkStarts, WorkGoesOn, WorkFails, CookieAccepted,
       CookieRefused, PasswordAccepted, PasswordRefused, WorkCommits, TypeOK, Kinds
  <2> QED BY <1>11, <2>1, ConfiguredKept DEF WorkStarts, WorkGoesOn, WorkFails,
          CookieAccepted, CookieRefused, PasswordAccepted, PasswordRefused, WorkCommits, dbVars,
          rowVars
<1>12. CASE CookieDies
  <2>1. used'["crash"] = used["crash"]
    BY <1>12, SpendType DEF CookieDies, TypeOK, Kinds
  <2> QED BY <1>12, <2>1, ConfiguredKept DEF CookieDies
<1>13. ASSUME NEW p \in Stored, IdsTurns(p) PROVE Configured'
  <2>1. used'["crash"] = used["crash"]
    BY <1>13, SpendType DEF IdsTurns, TypeOK, Kinds
  <2> QED BY <1>13, <2>1, ConfiguredKept DEF IdsTurns, dbVars, rowVars
<1> QED BY <1>1, <1>2, <1>3, <1>4, <1>5, <1>6, <1>7, <1>8, <1>9, <1>10, <1>11, <1>12, <1>13
        DEF Next, RequestGoesOn

(***************************************************************************)
(* Unless the process has ended in between, an account has its row for QQ  *)
(* push, or the hook that writes it is pending (configure.py).             *)
(***************************************************************************)
THEOREM AlwaysConfigured == Spec => []Configured
<1>1. Init => Configured
  BY DEF Init, Configured, Exists
<1> QED BY <1>1, TypeCorrect, ConfiguredStep, PTL DEF Spec

-------------------------------------------------------------------------------
(* The versions of the tokens.                                             *)

LEMMA TokenStep == [Next]_vars => [Tokens!Next]_(Tokens!vars)
<1> USE DEF Tokens!vars
<1> SUFFICES ASSUME [Next]_vars
             PROVE  Tokens!Next \/ UNCHANGED <<version, made>>
  OBVIOUS
<1>1. CASE UNCHANGED vars
  BY <1>1 DEF vars, dbVars, rowVars, tokenVars
<1>2. ASSUME NEW q \in Requests, Inserts(q)
      PROVE  Tokens!Next \/ UNCHANGED <<version, made>>
  BY <1>2 DEF Inserts, Tokens!Next, Tokens!Renew, rowVars, tokenVars
<1>3. ASSUME NEW q \in Requests, LogoutCommits(q)
      PROVE  Tokens!Next \/ UNCHANGED <<version, made>>
  BY <1>3 DEF LogoutCommits, Tokens!Next, Tokens!Renew
<1>4. ASSUME NEW q \in Requests, LeaveCommits(q)
      PROVE  Tokens!Next \/ UNCHANGED <<version, made>>
  BY <1>4 DEF LeaveCommits, Tokens!Next, Tokens!Retire, Tokens!NoVersion, NoVersion, tokenVars
<1>5. ASSUME NEW q \in Requests, Updates(q)
      PROVE  UNCHANGED <<version, made>>
  BY <1>5 DEF Updates, rowVars, tokenVars
<1>6. ASSUME NEW q \in Requests,
             \/ \E c \in Codes, wish \in {NoPassword, "keep"} : PollStarts(q, c, wish)
             \/ NotScanned(q) \/ Scanned(q) \/ ScanFails(q) \/ KeyErrorEnds(q)
             \/ UserinfoFails(q) \/ GetsUserinfo(q)
             \/ LoginStarts(q) \/ LoginFails(q) \/ IdsAccepts(q)
             \/ LogoutStarts(q) \/ LeaveStarts(q) \/ LeaveFails(q)
      PROVE  UNCHANGED <<version, made>>
  BY <1>6 DEF PollStarts, NotScanned, Scanned, ScanFails, KeyErrorEnds, UserinfoFails,
     GetsUserinfo, LoginStarts, LoginFails, IdsAccepts, LogoutStarts, LeaveStarts,
     LeaveFails, dbVars, rowVars, tokenVars
<1>7. ASSUME NEW c \in Codes, OffersCode(c) \/ ClearsExpired(c) \/ Scans(c)
      PROVE  UNCHANGED <<version, made>>
  BY <1>7 DEF OffersCode, ClearsExpired, Scans, dbVars, rowVars, tokenVars
<1>8. ASSUME NEW w \in Workers, WorkStarts(w) \/ WorkGoesOn(w) \/ WorkFails(w)
      PROVE  UNCHANGED <<version, made>>
  BY <1>8 DEF WorkStarts, WorkGoesOn, WorkFails, CookieAccepted, CookieRefused,
     PasswordAccepted, PasswordRefused, WorkCommits, dbVars, rowVars, tokenVars
<1>9. ASSUME \/ HookConfigures \/ CookieDies \/ Crash
             \/ \E p \in Stored : IdsTurns(p)
      PROVE  UNCHANGED <<version, made>>
  BY <1>9 DEF HookConfigures, CookieDies, Crash, IdsTurns, dbVars, rowVars, tokenVars
<1> QED BY <1>1, <1>2, <1>3, <1>4, <1>5, <1>6, <1>7, <1>8, <1>9 DEF Next, RequestGoesOn

(***************************************************************************)
(* The logins, logouts and deletions implement TokenVersions: whatever     *)
(* overlaps, a version that was given up is never in force again.          *)
(***************************************************************************)
THEOREM TokensRefine == Spec => TokenSpec
<1>1. Init => Tokens!Init
  BY DEF Init, Tokens!Init, Tokens!NoVersion, NoVersion
<1> QED BY <1>1, TokenStep, PTL DEF Spec, TokenSpec, Tokens!Spec

(***************************************************************************)
(* What the refinement means to who holds a token: once version v has been *)
(* made and is not in force, because of a logout or a deletion, no login,  *)
(* registration or late commit makes a token of it count again.            *)
(***************************************************************************)
GivenUp(v) == v \in 1..made /\ version # v

LEMMA StaysGivenUp ==
    ASSUME NEW v \in Nat, TypeOK, GivenUp(v), [Next]_vars
    PROVE  GivenUp(v)'
<1>1. v \in 1..made /\ version # v /\ made \in Nat
  BY DEF GivenUp, TypeOK
<1>2. CASE UNCHANGED <<version, made>>
  BY <1>1, <1>2 DEF GivenUp
<1>3. CASE Tokens!Renew
  BY <1>1, <1>3 DEF GivenUp, Tokens!Renew
<1>4. CASE Tokens!Retire
  BY <1>1, <1>4 DEF GivenUp, Tokens!Retire, Tokens!NoVersion
<1> QED BY <1>2, <1>3, <1>4, TokenStep DEF Tokens!Next, Tokens!vars

THEOREM VersionsStayDead ==
    ASSUME NEW v \in Nat
    PROVE  Spec => [](GivenUp(v) => []GivenUp(v))
<1>1. TypeOK /\ [Next]_vars /\ GivenUp(v) => GivenUp(v)'
  BY StaysGivenUp
<1> QED BY <1>1, TypeCorrect, PTL DEF Spec

-------------------------------------------------------------------------------
(* One login per code.  The session leaves the dict in the step that lets  *)
(* a poll go on to the user info, so that there is one such poll at most,  *)
(* and none of a session that is kept.                                     *)

LoggingIn(q, c) == req[q].pc = "userinfo" /\ req[q].code = c

CodesOnce ==
    \A c \in Codes :
        /\ code[c].logins \in {0, 1}
        /\ code[c].state # "gone" =>
              code[c].logins = 0 /\ \A q \in Requests : ~LoggingIn(q, c)
        /\ \A q \in Requests : LoggingIn(q, c) =>
              code[c].logins = 0 /\ \A r \in Requests : LoggingIn(r, c) => r = q

\* Steps that let no poll go on, count no login and put no session back.
LEMMA OnceKept ==
    ASSUME CodesOnce,
           \A c \in Codes : /\ code'[c].logins = code[c].logins
                            /\ code'[c].state # "gone" => code[c].state # "gone",
           \A q \in Requests, c \in Codes : LoggingIn(q, c)' => LoggingIn(q, c)
    PROVE  CodesOnce'
BY DEF CodesOnce

\* A request that ends, or goes on to something other than the user info.
LEMMA RequestsKept ==
    ASSUME TypeOK, NEW q \in Requests, NEW next \in RequestRecords,
           next.pc # "userinfo", req' = [req EXCEPT ![q] = next]
    PROVE  \A r \in Requests, c \in Codes : LoggingIn(r, c)' => LoggingIn(r, c)
BY DEF LoggingIn, TypeOK

LEMMA OnceStep == TypeOK /\ CodesOnce /\ [Next]_vars => CodesOnce'
<1> SUFFICES ASSUME TypeOK, CodesOnce, [Next]_vars PROVE CodesOnce'
  OBVIOUS
<1> USE IdleType
<1>1. CASE UNCHANGED vars
  BY <1>1 DEF CodesOnce, LoggingIn, vars
<1>2. ASSUME NEW q \in Requests, NEW c \in Codes, NEW wish \in {NoPassword, "keep"},
             PollStarts(q, c, wish)
      PROVE  CodesOnce'
  <2> DEFINE next == Request("scanning", c, wish)
  <2>1. next \in RequestRecords /\ next.pc # "userinfo"
    BY RequestType DEF RequestStates, Stored
  <2>2. req' = [req EXCEPT ![q] = next]
    BY <1>2 DEF PollStarts
  <2>3. \A d \in Codes : code'[d].logins = code[d].logins /\ code'[d].state = code[d].state
    BY <1>2 DEF PollStarts, TypeOK, CodeRecords
  <2> HIDE DEF next
  <2> QED BY <2>1, <2>2, <2>3, RequestsKept, OnceKept
<1>3. ASSUME NEW q \in Requests,
             \/ NotScanned(q) \/ KeyErrorEnds(q) \/ UserinfoFails(q)
             \/ LoginFails(q) \/ LeaveFails(q)
             \/ Inserts(q) \/ Updates(q) \/ LogoutCommits(q) \/ LeaveCommits(q)
      PROVE  CodesOnce'
  <2>1. req' = [req EXCEPT ![q] = Idle] /\ code' = code
    BY <1>3 DEF NotScanned, KeyErrorEnds, UserinfoFails, LoginFails, LeaveFails, Inserts,
       Updates, LogoutCommits, LeaveCommits
  <2> QED BY <2>1, RequestsKept, OnceKept
<1>4. ASSUME NEW q \in Requests, LoginStarts(q) \/ LogoutStarts(q) \/ LeaveStarts(q)
      PROVE  CodesOnce'
  <2>1. PICK pc \in {"ids", "logout", "leaving"} :
           req' = [req EXCEPT ![q] = Request(pc, NoCode, "keep")]
    BY <1>4 DEF LoginStarts, LogoutStarts, LeaveStarts
  <2> DEFINE next == Request(pc, NoCode, "keep")
  <2>2. next \in RequestRecords /\ next.pc # "userinfo"
    BY RequestType DEF RequestStates
  <2>3. req' = [req EXCEPT ![q] = next] /\ code' = code
    BY <2>1, <1>4 DEF LoginStarts, LogoutStarts, LeaveStarts
  <2> HIDE DEF next
  <2> QED BY <2>2, <2>3, RequestsKept, OnceKept
<1>5. ASSUME NEW q \in Requests, NEW wish, ReadsUser(q, wish)
      PROVE  \A r \in Requests, c \in Codes :
                LoggingIn(r, c)' => LoggingIn(r, c) /\ r # q
  <2> DEFINE pc == IF Exists THEN "updating" ELSE "inserting"
             change == IF wish = NoPassword /\ password = NoPassword THEN "keep" ELSE wish
             next == Request(pc, NoCode, change)
  <2>1. next.pc # "userinfo"
    BY DEF Request
  <2>2. req' = [req EXCEPT ![q] = next]
    BY <1>5 DEF ReadsUser, TypeOK
  <2> HIDE DEF next
  <2> QED BY <2>1, <2>2 DEF LoggingIn, TypeOK
<1>6. ASSUME NEW q \in Requests, IdsAccepts(q) PROVE CodesOnce'
  BY <1>6, <1>5, OnceKept DEF IdsAccepts
<1>7. ASSUME NEW q \in Requests, GetsUserinfo(q) PROVE CodesOnce'
  <2> DEFINE c == req[q].code
  <2>1. c \in Codes /\ LoggingIn(q, c)
    BY <1>7 DEF GetsUserinfo, TypeOK, LoggingIn
  <2>2. code[c].logins = 0 /\ code[c].state = "gone"
           /\ \A r \in Requests : LoggingIn(r, c) => r = q
    BY <2>1 DEF CodesOnce, TypeOK, CodeRecords
  <2>3. /\ code'[c].logins = 1 /\ code'[c].state = "gone"
        /\ \A d \in Codes \ {c} : code'[d] = code[d]
    BY <1>7, <2>1, <2>2 DEF GetsUserinfo, TypeOK, CodeRecords
  <2>4. ReadsUser(q, req[q].wish)
    BY <1>7 DEF GetsUserinfo
  <2>5. \A r \in Requests, d \in Codes : LoggingIn(r, d)' => LoggingIn(r, d) /\ r # q
    BY <2>4, <1>5
  <2> QED BY <2>1, <2>2, <2>3, <2>5 DEF CodesOnce
<1>8. ASSUME NEW q \in Requests, Scanned(q) PROVE CodesOnce'
  <2> DEFINE c == req[q].code
             next == Request("userinfo", c, req[q].wish)
             error == Request("keyError", NoCode, "keep")
  <2>1. c \in Codes
    BY <1>8 DEF Scanned, TypeOK
  <2>2. CASE code[c].state = "open"
    <3>1. /\ code' = [code EXCEPT ![c].state = "gone"]
          /\ req' = [req EXCEPT ![q] = next]
      BY <1>8, <2>2 DEF Scanned, Removes
    <3>2. code[c].logins = 0 /\ \A r \in Requests : ~LoggingIn(r, c)
      BY <2>1, <2>2 DEF CodesOnce
    <3>3. /\ code'[c].state = "gone" /\ \A d \in Codes \ {c} : code'[d] = code[d]
          /\ \A d \in Codes : code'[d].logins = code[d].logins
      BY <3>1, <2>1 DEF TypeOK, CodeRecords
    <3>4. next.code = c
      BY DEF Request
    <3>5. \A r \in Requests, d \in Codes :
             LoggingIn(r, d)' => IF r = q THEN d = c ELSE LoggingIn(r, d)
      BY <3>1, <3>4 DEF LoggingIn, TypeOK
    <3> HIDE DEF next, c
    <3> QED BY <2>1, <3>2, <3>3, <3>5 DEF CodesOnce
  <2>3. CASE code[c].state # "open"
    <3>1. code' = code /\ req' = [req EXCEPT ![q] = error]
      BY <1>8, <2>3 DEF Scanned, Removes
    <3>2. error \in RequestRecords /\ error.pc # "userinfo"
      BY RequestType DEF RequestStates
    <3> HIDE DEF error
    <3> QED BY <3>1, <3>2, RequestsKept, OnceKept
  <2> QED BY <2>2, <2>3
<1>9. ASSUME NEW q \in Requests, ScanFails(q) PROVE CodesOnce'
  <2> DEFINE error == Request("keyError", NoCode, "keep")
  <2>1. error \in RequestRecords /\ error.pc # "userinfo"
    BY RequestType DEF RequestStates
  <2>2. req[q].code \in Codes
    BY <1>9 DEF ScanFails, TypeOK
  <2>3. \A c \in Codes : /\ code'[c].logins = code[c].logins
                         /\ code'[c].state # "gone" => code[c].state # "gone"
    BY <1>9, <2>2 DEF ScanFails, Removes, TypeOK, CodeRecords
  <2>4. req' = [req EXCEPT ![q] = Idle] \/ req' = [req EXCEPT ![q] = error]
    BY <1>9 DEF ScanFails, Removes
  <2> HIDE DEF error
  <2> QED BY <2>1, <2>3, <2>4, RequestsKept, OnceKept
<1>10. ASSUME NEW c \in Codes, OffersCode(c) \/ ClearsExpired(c) \/ Scans(c)
       PROVE  CodesOnce'
  <2>1. \A d \in Codes : /\ code'[d].logins = code[d].logins
                         /\ code'[d].state # "gone" => code[d].state # "gone"
    BY <1>10 DEF OffersCode, ClearsExpired, Scans, TypeOK, CodeRecords
  <2>2. req' = req
    BY <1>10 DEF OffersCode, ClearsExpired, Scans
  <2> QED BY <2>1, <2>2, OnceKept DEF LoggingIn
<1>11. ASSUME \/ HookConfigures \/ CookieDies \/ \E p \in Stored : IdsTurns(p)
              \/ \E w \in Workers : WorkStarts(w) \/ WorkGoesOn(w) \/ WorkFails(w)
       PROVE  CodesOnce'
  <2>1. code' = code /\ req' = req
    BY <1>11 DEF HookConfigures, CookieDies, IdsTurns, WorkStarts, WorkGoesOn, WorkFails,
       CookieAccepted, CookieRefused, PasswordAccepted, PasswordRefused, WorkCommits
  <2> QED BY <2>1, OnceKept DEF LoggingIn
<1>12. CASE Crash
  <2>1. \A c \in Codes : /\ code'[c].logins = code[c].logins
                         /\ code'[c].state # "gone" => code[c].state # "gone"
    BY <1>12 DEF Crash, TypeOK, CodeRecords
  <2>2. \A q \in Requests, c \in Codes : ~LoggingIn(q, c)'
    BY <1>12 DEF Crash, LoggingIn
  <2> QED BY <2>1, <2>2, OnceKept
<1> QED BY <1>1, <1>2, <1>3, <1>4, <1>6, <1>7, <1>8, <1>9, <1>10, <1>11, <1>12
        DEF Next, RequestGoesOn

(***************************************************************************)
(* A QR code logs in at most once, however many polls of it overlap.       *)
(***************************************************************************)
THEOREM CodeLogsInOnce == Spec => []OneLoginPerCode
<1>1. Init => CodesOnce
  BY DEF Init, CodesOnce, LoggingIn, Idle, Request, Unused
<1>2. CodesOnce => OneLoginPerCode
  BY DEF CodesOnce, OneLoginPerCode
<1> QED BY <1>1, <1>2, TypeCorrect, OnceStep, PTL DEF Spec

===============================================================================
