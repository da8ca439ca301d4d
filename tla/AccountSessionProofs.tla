------------------------ MODULE AccountSessionProofs ------------------------
(***************************************************************************)
(* Proofs about AccountSession, for any number of users, requests,         *)
(* commands, logins, token generations and restarts.                       *)
(***************************************************************************)
EXTENDS AccountSession, SequenceTheorems, TLAPS

-----------------------------------------------------------------------------
(* The inductive invariant.                                                 *)

Generations == 1..MaxGenerations
Families == [user : Users, gen : Generations, live : BOOLEAN]

\* The service issued s, if its logins are f.
Issued(s, f) ==
    s # NoSession => s \in [login : 1..Len(f), gen : Generations] /\ s.gen <= f[s.login].gen

RequestStages == {"idle", "login", "out", "fresh", "ask", "save", "publish", "logout", "delete"}
CommandStages == (RequestStages \ {"publish"}) \cup {"prove", "resave", "over"}

ProcessTypes ==
    /\ mu \in Requests \cup {NoProcess}
    /\ stage \in [Processes -> RequestStages \cup CommandStages]
    /\ doing \in [Processes -> {"nothing", "login", "logout", "grant", "route", "status", "enroll", "device"}]
    /\ held \in [Processes -> [login : Nat, gen : Nat] \cup {NoSession}]
    /\ restarts \in 0..MaxRestarts

\* A request that is under way has mu, and a process that works with a session has one.
Locked ==
    /\ \A r \in Requests :
          /\ stage[r] \in RequestStages
          /\ doing[r] \in {"nothing", "login", "logout", "grant", "route"}
          /\ stage[r] # "idle" <=> mu = r
          /\ stage[r] = "idle" => held[r] = NoSession
    /\ \A c \in Commands : stage[c] \in CommandStages
    /\ \A p \in Processes :
          stage[p] \in {"fresh", "out", "logout", "ask", "save", "resave", "publish", "prove"} => held[p] # NoSession

SessionTypes ==
    /\ families \in Seq(Families)
    /\ Issued(sessionFile, families) /\ Issued(memory, families) /\ \A p \in Processes : Issued(held[p], families)
    /\ signedOut \subseteq 1..Len(families)

\* What the Core shows, and the session a request of the Core works with.
Shown ==
    /\ shown = UserOf(memory)
    /\ \A r \in Requests :
          /\ stage[r] \in {"fresh", "ask"} => held[r] = memory
          /\ LoginOf(held[r]) \cap signedOut = {}
    /\ SignedOutStaysOut

\* s has the newest tokens of its login.
Newest(s, f) == s # NoSession => s.gen = f[s.login].gen

\* Where the request that has mu leaves file, memory and tokens.
Agreement ==
    ~disturbed =>
        /\ mu = NoProcess \/ stage[mu] \in {"login", "out", "fresh", "ask"} =>
              sessionFile = memory /\ Newest(memory, families)
        /\ mu # NoProcess /\ stage[mu] \in {"save", "publish"} => Newest(held[mu], families)
        /\ mu # NoProcess /\ stage[mu] = "publish" => sessionFile = held[mu]

AccountInv == ProcessTypes /\ Locked /\ SessionTypes /\ Shown /\ Agreement

\* The Core has a session of an earlier login, or none.
LEMMA AccountInvInit == AccountInit => AccountInv
<1> SUFFICES ASSUME AccountInit PROVE AccountInv
  OBVIOUS
<1> USE AccountAssumption DEF AccountInit
<1>1. ProcessTypes /\ Locked
  BY DEF ProcessTypes, Locked, Processes, RequestStages, CommandStages
<1>2. SessionTypes /\ Shown /\ Agreement
  <2>1. CASE shown = NoUser
    <3>1. families = <<>> /\ sessionFile = NoSession /\ memory = NoSession
      BY <2>1
    <3>2. QED
      BY <2>1, <3>1 DEF SessionTypes, Issued, Shown, SignedOutStaysOut, UserOf, LoginOf, Agreement, Newest, Processes
  <2>2. CASE shown \in Users
    <3> DEFINE f == [user |-> shown, gen |-> 1, live |-> TRUE]
               s == [login |-> 1, gen |-> 1]
    <3>1. families = <<f>> /\ sessionFile = s /\ memory = s
      BY <2>2
    <3>a. s \in [login : Nat, gen : Nat] /\ s # NoSession
      OBVIOUS
    <3>2. f \in Families /\ f.gen = 1 /\ f.user = shown /\ s.gen = 1 /\ s.login = 1
      BY <2>2 DEF Families, Generations
    <3>3. families \in Seq(Families) /\ Len(families) = 1 /\ families[1] = f
      BY <3>1, <3>2
    <3>4. Issued(s, families)
      BY <3>2, <3>3 DEF Issued, Generations
    <3> HIDE DEF f, s
    <3>5. SessionTypes
      BY <3>1, <3>3, <3>4 DEF SessionTypes, Issued, Processes
    <3>6. Shown
      BY <3>1, <3>a, <3>2, <3>3 DEF Shown, SignedOutStaysOut, UserOf, LoginOf, Processes
    <3>7. Agreement
      BY <3>1, <3>a, <3>2, <3>3 DEF Agreement, Newest
    <3>8. QED
      BY <3>5, <3>6, <3>7
  <2>3. QED
    BY <2>1, <2>2
<1>3. QED
  BY <1>1, <1>2 DEF AccountInv

\* The logins can become g: tokens are refreshed and logins added.
GrowsTo(f, g) ==
    /\ g \in Seq(Families) /\ Len(f) <= Len(g)
    /\ \A i \in 1..Len(f) : g[i].user = f[i].user /\ f[i].gen <= g[i].gen

\* What a sequence of logins has.
LEMMA FamilyFacts ==
    ASSUME NEW f \in Seq(Families)
    PROVE  Len(f) \in Nat /\ \A i \in 1..Len(f) : f[i] \in Families /\ f[i].gen \in Nat
<1>1. Len(f) \in Nat
  BY LenProperties
<1>2. ASSUME NEW i \in 1..Len(f) PROVE f[i] \in Families /\ f[i].gen \in Nat
  <2>1. f[i] \in Families
    BY ElementOfSeq
  <2>2. QED
    BY <2>1, AccountAssumption DEF Families, Generations
<1>3. QED
  BY <1>1, <1>2

\* A session that was issued is a record, and stays issued to the same user.
LEMMA IssuedIsRecord ==
    ASSUME NEW f \in Seq(Families), NEW s, Issued(s, f) PROVE s \in [login : Nat, gen : Nat] \cup {NoSession}
BY AccountAssumption DEF Issued, Generations

LEMMA IssuedStays ==
    ASSUME NEW f \in Seq(Families), NEW g, GrowsTo(f, g), NEW s, Issued(s, f)
    PROVE  /\ Issued(s, g)
           /\ s # NoSession => g[s.login].user = f[s.login].user /\ s.login \in 1..Len(f)
<1> SUFFICES ASSUME s # NoSession
             PROVE  Issued(s, g) /\ g[s.login].user = f[s.login].user /\ s.login \in 1..Len(f)
  BY DEF Issued
<1>1. s \in [login : 1..Len(f), gen : Generations] /\ s.gen <= f[s.login].gen
  BY DEF Issued
<1>2. s.login \in 1..Len(f) /\ s.login \in 1..Len(g) /\ s.gen \in Nat
  BY <1>1, LenProperties DEF GrowsTo, Generations
<1>3. f[s.login] \in Families /\ g[s.login] \in Families
  BY <1>2, ElementOfSeq DEF GrowsTo
<1>4. f[s.login].gen \in Nat /\ g[s.login].gen \in Nat
  BY <1>3 DEF Families, Generations
<1>5. s \in [login : 1..Len(g), gen : Generations]
  BY <1>1, <1>2
<1>6. QED
  BY <1>1, <1>2, <1>4, <1>5 DEF Issued, GrowsTo

\* A refresh by p spends the newest token of its login, and p holds the next.
LEMMA RefreshGrows ==
    ASSUME AccountInv, NEW p \in Processes, held[p] # NoSession, NEW answered, Refreshed(p, answered)
    PROVE  /\ GrowsTo(families, families') /\ Len(families') = Len(families)
           /\ held[p].gen = families[held[p].login].gen
           /\ families'[held[p].login].gen = held[p].gen + 1
           /\ held[p].gen + 1 \in Generations
           /\ \A i \in 1..Len(families) : i # held[p].login => families'[i] = families[i]
<1> DEFINE s == held[p]
<1>1. s \in [login : 1..Len(families), gen : Generations] /\ families \in Seq(Families)
  BY DEF AccountInv, SessionTypes, Issued
<1>2. s.gen + 1 \in Generations /\ families[s.login].gen = s.gen
      /\ families' = [families EXCEPT ![s.login].gen = s.gen + 1]
  BY <1>1, AccountAssumption DEF Refreshed, Accepted, Generations
<1>3. families' \in Seq(Families)
  <2>1. \A i \in 1..Len(families) : families[i] \in Families
    BY <1>1
  <2>2. families' \in [1..Len(families) -> Families]
    BY <1>1, <1>2, <2>1 DEF Families
  <2>3. QED
    BY <1>1, <2>2
<1>4. Len(families') = Len(families)
  BY <1>1, <1>2
<1>5. \A i \in 1..Len(families) :
         /\ families[i] \in Families
         /\ families'[i].user = families[i].user
         /\ families'[i].gen = IF i = s.login THEN s.gen + 1 ELSE families[i].gen
         /\ i # s.login => families'[i] = families[i]
  <2> TAKE i \in 1..Len(families)
  <2>1. families[i] \in Families /\ DOMAIN families = 1..Len(families)
    BY <1>1, ElementOfSeq, LenProperties
  <2>2. families'[i] = IF i = s.login THEN [families[i] EXCEPT !.gen = s.gen + 1] ELSE families[i]
    BY <1>2, <2>1
  <2>3. QED
    BY <2>1, <2>2 DEF Families
<1>6. QED
  BY <1>1, <1>2, <1>3, <1>4, <1>5 DEF GrowsTo, Families, Generations

\* A login adds one, and signing out takes none away.
LEMMA LoginGrows ==
    ASSUME AccountInv, NEW u \in Users, families' = Append(families, [user |-> u, gen |-> 1, live |-> TRUE])
    PROVE  /\ GrowsTo(families, families') /\ Len(families') = Len(families) + 1 /\ families'[Len(families) + 1].gen = 1
           /\ \A i \in 1..Len(families) : families'[i] = families[i]
<1> DEFINE f == [user |-> u, gen |-> 1, live |-> TRUE]
<1>1. families \in Seq(Families) /\ f \in Families /\ f.gen = 1
  BY AccountAssumption DEF AccountInv, SessionTypes, Families, Generations
<1> HIDE DEF f
<1>2. /\ families' \in Seq(Families) /\ Len(families') = Len(families) + 1 /\ families'[Len(families) + 1] = f
      /\ \A i \in 1..Len(families) : families'[i] = families[i]
  BY <1>1, AppendProperties DEF f
<1>3. Len(families) \in Nat /\ \A i \in 1..Len(families) : families[i].gen \in Nat
  BY <1>1, FamilyFacts
<1>4. QED
  BY <1>1, <1>2, <1>3 DEF GrowsTo

LEMMA LogoutGrows ==
    ASSUME AccountInv, NEW p \in Processes, held[p] # NoSession,
           families' = [families EXCEPT ![held[p].login].live = FALSE]
    PROVE  /\ GrowsTo(families, families') /\ Len(families') = Len(families)
           /\ \A i \in 1..Len(families) : families'[i].gen = families[i].gen
<1> DEFINE s == held[p]
<1>1. s.login \in 1..Len(families) /\ families \in Seq(Families)
  BY DEF AccountInv, SessionTypes, Issued
<1>2. \A i \in 1..Len(families) :
         /\ families[i] \in Families /\ families'[i] \in Families
         /\ families'[i].user = families[i].user /\ families'[i].gen = families[i].gen
  <2> TAKE i \in 1..Len(families)
  <2>1. families[i] \in Families /\ DOMAIN families = 1..Len(families)
    BY <1>1, ElementOfSeq, LenProperties
  <2>2. families'[i] = IF i = s.login THEN [families[i] EXCEPT !.live = FALSE] ELSE families[i]
    BY <2>1
  <2>3. QED
    BY <2>1, <2>2 DEF Families
<1>3. families' \in [1..Len(families) -> Families]
  BY <1>1, <1>2, LenProperties
<1>4. families' \in Seq(Families) /\ Len(families') = Len(families)
  BY <1>1, <1>3
<1>5. QED
  BY <1>1, <1>2, <1>4 DEF GrowsTo, Families, Generations

\* A request to the service ends the call, or takes an enrollment or a status
\* one stage further.
LEMMA AskEffects ==
    ASSUME NEW p \in Processes, Ask(p)
    PROVE  /\ stage[p] \in {"ask", "prove"} /\ UNCHANGED <<families, fileVars, coreMemory, restarts, disturbed>>
           /\ \/ Back(p)
              \/ \E to \in {"prove", "resave"} : doing[p] \in {"enroll", "status"} /\ Proceeds(p, to, held[p])
<1>1. CASE IssueConnectionGrant(p)
  BY <1>1 DEF IssueConnectionGrant, Asked
<1>2. CASE IssueRouteAuthorization(p)
  BY <1>2 DEF IssueRouteAuthorization, Asked
<1>3. QED
  BY <1>1, <1>2 DEF Ask, RequestEnrollment, CompleteEnrollment, VerifyUser

\* Processes go through the stages, with sessions.
LEMMA ProcessTypesStep == AccountInv /\ [AccountNext]_accountVars => ProcessTypes'
<1> SUFFICES ASSUME AccountInv, [AccountNext]_accountVars PROVE ProcessTypes'
  OBVIOUS
<1> USE AccountAssumption DEF AccountInv, Processes, fileVars, coreMemory, processVars, ProcessTypes, Locked,
            RequestStages, CommandStages
<1>1. ASSUME NEW r \in Requests, SignIn(r) \/ SignOut(r) \/ AuthorizeWithAccount(r) PROVE ProcessTypes'
  BY <1>1, IssuedIsRecord DEF SignIn, SignOut, AuthorizeWithAccount, BeginCall, Starts, SessionTypes
<1>2. ASSUME NEW c \in Commands, RunAccountLogin(c) \/ RunAccountStatus(c) \/ RunAccountLogout(c) \/
             AutomaticConnectionGrant(c) \/ AutomaticRouteAuthorization(c) \/ RunAccountEnroll(c) \/
             RunAccountEnrollDevice(c)
     PROVE  ProcessTypes'
  <2>1. \E act \in {"login", "status", "logout", "grant", "route", "enroll", "device"}, s \in {NoSession, sessionFile} :
           BeginCommand(c, act, s)
    BY <1>2 DEF RunAccountLogin, RunAccountStatus, RunAccountLogout, AutomaticConnectionGrant,
            AutomaticRouteAuthorization, RunAccountEnroll, RunAccountEnrollDevice, LoadSession
  <2>2. QED
    BY <2>1, IssuedIsRecord DEF BeginCommand, Starts, SessionTypes
<1>3. ASSUME NEW c \in Commands, CommandDies(c) PROVE ProcessTypes'
  BY <1>3 DEF CommandDies, Back
<1>4. ASSUME NEW p \in Processes, Login(p) PROVE ProcessTypes'
  BY <1>4 DEF Login, Proceeds, Back
<1>5. ASSUME NEW p \in Processes, EnsureFresh(p) PROVE ProcessTypes'
  BY <1>5 DEF EnsureFresh, Refreshed, Accepted, Disturbs, Proceeds, Back
<1>6. ASSUME NEW p \in Processes, FreshenToLogout(p) PROVE ProcessTypes'
  BY <1>6 DEF FreshenToLogout, Refreshed, Accepted, Disturbs, Proceeds
<1>7. ASSUME NEW p \in Processes, Logout(p) PROVE ProcessTypes'
  BY <1>7 DEF Logout, Proceeds
<1>8. ASSUME NEW p \in Processes, Ask(p) PROVE ProcessTypes'
  BY <1>8, AskEffects DEF Proceeds, Back
<1>9. ASSUME NEW p \in Processes, SaveSession(p) PROVE ProcessTypes'
  BY <1>9 DEF SaveSession, Stored, NotStored, AfterSave, Disturbs, Proceeds, Back
<1>10. ASSUME NEW p \in Processes, PublishSession(p) PROVE ProcessTypes'
  BY <1>10 DEF PublishSession, Proceeds, Back
<1>11. ASSUME NEW p \in Processes, DeleteSession(p) PROVE ProcessTypes'
  BY <1>11 DEF DeleteSession, Disturbs, Back
<1>12. ASSUME CoreRestarts PROVE ProcessTypes'
  BY <1>12 DEF CoreRestarts
<1>13. CASE UNCHANGED accountVars
  BY <1>13 DEF accountVars
<1>14. QED
  BY <1>1, <1>2, <1>3, <1>4, <1>5, <1>6, <1>7, <1>8, <1>9, <1>10, <1>11, <1>12, <1>13
     DEF AccountNext, ProcessStep

\* One request at a time has mu.
LEMMA LockedStep == AccountInv /\ [AccountNext]_accountVars => Locked'
<1> SUFFICES ASSUME AccountInv, [AccountNext]_accountVars PROVE Locked'
  OBVIOUS
<1> USE AccountAssumption DEF AccountInv, Processes, fileVars, coreMemory, processVars, ProcessTypes, Locked,
            RequestStages, CommandStages
<1>1. ASSUME NEW r \in Requests, SignIn(r) \/ SignOut(r) \/ AuthorizeWithAccount(r) PROVE Locked'
  BY <1>1 DEF SignIn, SignOut, AuthorizeWithAccount, BeginCall, Starts
<1>2. ASSUME NEW c \in Commands, RunAccountLogin(c) \/ RunAccountStatus(c) \/ RunAccountLogout(c) \/
             AutomaticConnectionGrant(c) \/ AutomaticRouteAuthorization(c) \/ RunAccountEnroll(c) \/
             RunAccountEnrollDevice(c)
     PROVE  Locked'
  BY <1>2 DEF RunAccountLogin, RunAccountStatus, RunAccountLogout, AutomaticConnectionGrant,
       AutomaticRouteAuthorization, RunAccountEnroll, RunAccountEnrollDevice, LoadSession, BeginCommand, Starts
<1>3. ASSUME NEW c \in Commands, CommandDies(c) PROVE Locked'
  BY <1>3 DEF CommandDies, Back
<1>4. ASSUME NEW p \in Processes, Login(p) PROVE Locked'
  BY <1>4 DEF Login, Proceeds, Back
<1>5. ASSUME NEW p \in Processes, EnsureFresh(p) PROVE Locked'
  BY <1>5 DEF EnsureFresh, Refreshed, Accepted, Disturbs, Proceeds, Back
<1>6. ASSUME NEW p \in Processes, FreshenToLogout(p) PROVE Locked'
  BY <1>6 DEF FreshenToLogout, Refreshed, Accepted, Disturbs, Proceeds
<1>7. ASSUME NEW p \in Processes, Logout(p) PROVE Locked'
  BY <1>7 DEF Logout, Proceeds
<1>8. ASSUME NEW p \in Processes, Ask(p) PROVE Locked'
  BY <1>8, AskEffects DEF Proceeds, Back
<1>9. ASSUME NEW p \in Processes, SaveSession(p) PROVE Locked'
  BY <1>9 DEF SaveSession, Stored, NotStored, AfterSave, Disturbs, Proceeds, Back
<1>10. ASSUME NEW p \in Processes, PublishSession(p) PROVE Locked'
  BY <1>10 DEF PublishSession, Proceeds, Back
<1>11. ASSUME NEW p \in Processes, DeleteSession(p) PROVE Locked'
  BY <1>11 DEF DeleteSession, Disturbs, Back
<1>12. ASSUME CoreRestarts PROVE Locked'
  BY <1>12 DEF CoreRestarts
<1>13. CASE UNCHANGED accountVars
  BY <1>13 DEF accountVars
<1>14. QED
  BY <1>1, <1>2, <1>3, <1>4, <1>5, <1>6, <1>7, <1>8, <1>9, <1>10, <1>11, <1>12, <1>13
     DEF AccountNext, ProcessStep

\* The service never takes a login or a generation back.
LEMMA FamiliesGrow ==
    ASSUME AccountInv, [AccountNext]_accountVars PROVE GrowsTo(families, families')
<1>1. ASSUME families' = families PROVE GrowsTo(families, families')
  <2>1. families \in Seq(Families)
    BY DEF AccountInv, SessionTypes
  <2>2. QED
    BY <1>1, <2>1, FamilyFacts DEF GrowsTo
<1>2. ASSUME NEW p \in Processes, Login(p) PROVE GrowsTo(families, families')
  BY <1>1, <1>2, LoginGrows DEF Login
<1>3. ASSUME NEW p \in Processes, EnsureFresh(p) \/ FreshenToLogout(p) PROVE GrowsTo(families, families')
  <2>1. held[p] # NoSession
    BY <1>3 DEF EnsureFresh, FreshenToLogout, AccountInv, Locked
  <2>2. QED
    BY <1>1, <1>3, <2>1, RefreshGrows DEF EnsureFresh, FreshenToLogout
<1>4. ASSUME NEW p \in Processes, Logout(p) PROVE GrowsTo(families, families')
  <2>1. held[p] # NoSession
    BY <1>4 DEF Logout, AccountInv, Locked
  <2>2. QED
    BY <1>1, <1>4, <2>1, LogoutGrows DEF Logout
<1>5. ASSUME NEW p \in Processes, Ask(p) \/ SaveSession(p) \/ PublishSession(p) \/ DeleteSession(p)
      PROVE  GrowsTo(families, families')
  BY <1>1, <1>5 DEF Ask, IssueConnectionGrant, IssueRouteAuthorization, RequestEnrollment, CompleteEnrollment,
       VerifyUser, Asked, SaveSession, PublishSession, DeleteSession
<1>6. ASSUME NEW r \in Requests, SignIn(r) \/ SignOut(r) \/ AuthorizeWithAccount(r) PROVE GrowsTo(families, families')
  BY <1>1, <1>6 DEF SignIn, SignOut, AuthorizeWithAccount, BeginCall
<1>7. ASSUME NEW c \in Commands, \/ RunAccountLogin(c) \/ RunAccountStatus(c) \/ RunAccountLogout(c)
                                 \/ AutomaticConnectionGrant(c) \/ AutomaticRouteAuthorization(c)
                                 \/ RunAccountEnroll(c) \/ RunAccountEnrollDevice(c) \/ CommandDies(c)
      PROVE  GrowsTo(families, families')
  BY <1>1, <1>7 DEF RunAccountLogin, RunAccountStatus, RunAccountLogout, AutomaticConnectionGrant,
       AutomaticRouteAuthorization, RunAccountEnroll, RunAccountEnrollDevice, CommandDies, LoadSession, BeginCommand
<1>8. CASE CoreRestarts \/ UNCHANGED accountVars
  BY <1>1, <1>8 DEF CoreRestarts, accountVars
<1>9. QED
  BY <1>2, <1>3, <1>4, <1>5, <1>6, <1>7, <1>8 DEF AccountNext, ProcessStep

\* The sessions that somebody has.
Known == {NoSession, sessionFile, memory} \cup {held[p] : p \in Processes}

\* They stay issued.
LEMMA KnownStays ==
    ASSUME AccountInv, [AccountNext]_accountVars PROVE \A s \in Known : Issued(s, families')
BY FamiliesGrow, IssuedStays DEF AccountInv, SessionTypes, Known, Issued

\* A process has what somebody had, or what the service just gave it.
LEMMA HeldStep ==
    ASSUME AccountInv, [AccountNext]_accountVars
    PROVE  \A p \in Processes : Issued(held'[p], families')
<1> USE DEF AccountInv, ProcessTypes
<1>1. ASSUME \A p \in Processes : held'[p] \in Known PROVE \A p \in Processes : Issued(held'[p], families')
  BY <1>1, KnownStays
<1>2. ASSUME NEW p \in Processes, NEW s, Issued(s, families'), held' = [held EXCEPT ![p] = s]
      PROVE  \A q \in Processes : Issued(held'[q], families')
  BY <1>2, KnownStays DEF Known
<1>3. ASSUME NEW p \in Processes, Back(p) PROVE \A q \in Processes : held'[q] \in Known
  BY <1>3 DEF Back, Known
<1>4. ASSUME NEW p \in Processes, NEW to, Proceeds(p, to, held[p]) PROVE \A q \in Processes : held'[q] \in Known
  BY <1>4 DEF Proceeds, Known
<1>5. ASSUME NEW p \in Processes, Login(p) PROVE \A q \in Processes : Issued(held'[q], families')
  <2> DEFINE s == [login |-> Len(families) + 1, gen |-> 1]
  <2>1. CASE Back(p)
    BY <1>1, <1>3, <2>1
  <2>2. CASE Proceeds(p, "save", s) /\ \E u \in Users : families' = Append(families, [user |-> u, gen |-> 1, live |-> TRUE])
    <3>1. /\ Len(families') = Len(families) + 1 /\ families'[Len(families) + 1].gen = 1
          /\ Len(families) \in Nat /\ 1 \in Generations
      BY <2>2, LoginGrows, LenProperties, AccountAssumption DEF SessionTypes, Generations
    <3>2. Issued(s, families')
      BY <3>1 DEF Issued
    <3>3. QED
      BY <1>2, <2>2, <3>2 DEF Proceeds
  <2> HIDE DEF s
  <2>3. QED
    BY <1>5, <2>1, <2>2 DEF Login, s
<1>6. ASSUME NEW p \in Processes, EnsureFresh(p) \/ FreshenToLogout(p) PROVE \A q \in Processes : Issued(held'[q], families')
  <2> DEFINE s == [held[p] EXCEPT !.gen = @ + 1]
  <2>1. held[p] # NoSession
    BY <1>6 DEF EnsureFresh, FreshenToLogout, Locked
  <2>2. ASSUME NEW to, Refreshed(p, TRUE), Proceeds(p, to, s) PROVE \A q \in Processes : Issued(held'[q], families')
    <3>1. held[p] \in [login : 1..Len(families), gen : Generations]
      BY <2>1 DEF SessionTypes, Issued
    <3>2. /\ Len(families') = Len(families) /\ families'[held[p].login].gen = held[p].gen + 1
          /\ held[p].gen + 1 \in Generations
      BY <2>1, <2>2, RefreshGrows
    <3>3. Issued(s, families')
      BY <3>1, <3>2, AccountAssumption DEF Issued, Generations
    <3>4. QED
      BY <1>2, <2>2, <3>3 DEF Proceeds
  <2> HIDE DEF s
  <2>3. QED
    BY <1>1, <1>3, <1>4, <1>6, <2>2 DEF EnsureFresh, FreshenToLogout, s
<1>7. ASSUME NEW p \in Processes, Logout(p) \/ Ask(p) \/ SaveSession(p) \/ DeleteSession(p)
      PROVE  \A q \in Processes : held'[q] \in Known
  BY <1>3, <1>4, <1>7 DEF Logout, Ask, IssueConnectionGrant, IssueRouteAuthorization, RequestEnrollment,
       CompleteEnrollment, VerifyUser, Asked, SaveSession, AfterSave, DeleteSession
<1>8. ASSUME NEW p \in Processes, PublishSession(p) PROVE \A q \in Processes : held'[q] \in Known
  BY <1>3, <1>4, <1>8 DEF PublishSession
<1>9. ASSUME NEW r \in Requests, SignIn(r) \/ SignOut(r) \/ AuthorizeWithAccount(r)
      PROVE  \A q \in Processes : held'[q] \in Known
  BY <1>9 DEF SignIn, SignOut, AuthorizeWithAccount, BeginCall, Starts, Known, Processes
<1>10. ASSUME NEW c \in Commands, \/ RunAccountLogin(c) \/ RunAccountStatus(c) \/ RunAccountLogout(c)
                                  \/ AutomaticConnectionGrant(c) \/ AutomaticRouteAuthorization(c)
                                  \/ RunAccountEnroll(c) \/ RunAccountEnrollDevice(c)
       PROVE  \A q \in Processes : held'[q] \in Known
  BY <1>10 DEF RunAccountLogin, RunAccountStatus, RunAccountLogout, AutomaticConnectionGrant,
       AutomaticRouteAuthorization, RunAccountEnroll, RunAccountEnrollDevice, LoadSession, BeginCommand, Starts,
       Known, Processes
<1>11. ASSUME NEW c \in Commands, CommandDies(c) PROVE \A q \in Processes : held'[q] \in Known
  BY <1>3, <1>11 DEF CommandDies, Processes
<1>12. CASE CoreRestarts \/ UNCHANGED accountVars
  <2>1. \A q \in Processes : held'[q] \in Known
    BY <1>12 DEF CoreRestarts, accountVars, processVars, Known
  <2>2. QED
    BY <1>1, <2>1
<1>13. QED
  BY <1>1, <1>5, <1>6, <1>7, <1>8, <1>9, <1>10, <1>11, <1>12 DEF AccountNext, ProcessStep

\* File, memory and processes have sessions the service issued.
LEMMA SessionTypesStep == AccountInv /\ [AccountNext]_accountVars => SessionTypes'
<1> SUFFICES ASSUME AccountInv, [AccountNext]_accountVars PROVE SessionTypes'
  OBVIOUS
<1>1. families' \in Seq(Families) /\ 1..Len(families) \subseteq 1..Len(families')
  BY FamiliesGrow, FamilyFacts DEF GrowsTo, AccountInv, SessionTypes
<1>2. sessionFile' \in Known /\ memory' \in Known
  BY DEF Known, AccountNext, SignIn, SignOut, AuthorizeWithAccount, BeginCall, RunAccountLogin, RunAccountStatus,
       RunAccountLogout, AutomaticConnectionGrant, AutomaticRouteAuthorization, RunAccountEnroll,
       RunAccountEnrollDevice, CommandDies, LoadSession, BeginCommand, ProcessStep, Login, EnsureFresh,
       FreshenToLogout, Logout, Ask, IssueConnectionGrant, IssueRouteAuthorization, RequestEnrollment,
       CompleteEnrollment, VerifyUser, Asked, SaveSession, Stored, NotStored, PublishSession, DeleteSession, CoreRestarts,
       fileVars, coreMemory, accountVars
<1>3. LoginOf(memory) \cup LoginOf(sessionFile) \subseteq 1..Len(families)
  BY DEF AccountInv, SessionTypes, Issued, LoginOf
<1>4. signedOut' \subseteq signedOut \cup LoginOf(memory) \cup LoginOf(sessionFile)
  BY DEF AccountNext, SignIn, SignOut, AuthorizeWithAccount, BeginCall, RunAccountLogin, RunAccountStatus,
       RunAccountLogout, AutomaticConnectionGrant, AutomaticRouteAuthorization, RunAccountEnroll,
       RunAccountEnrollDevice, CommandDies, LoadSession, BeginCommand, ProcessStep, Login, EnsureFresh,
       FreshenToLogout, Logout, Ask, IssueConnectionGrant, IssueRouteAuthorization, RequestEnrollment,
       CompleteEnrollment, VerifyUser, Asked, SaveSession, Stored, NotStored, PublishSession, DeleteSession, CoreRestarts,
       fileVars, coreMemory, accountVars
<1>5. Issued(sessionFile', families') /\ Issued(memory', families')
  BY <1>2, KnownStays
<1>6. QED
  BY <1>1, <1>3, <1>4, <1>5, HeldStep DEF SessionTypes, AccountInv

\* The session in memory keeps its user.
LEMMA UserStays ==
    ASSUME AccountInv, [AccountNext]_accountVars, UNCHANGED <<memory, shown>> PROVE (shown = UserOf(memory))'
BY FamiliesGrow, IssuedStays DEF AccountInv, SessionTypes, Shown, UserOf

\* A step of p that only changes p's stage and session, for one it may store.
LEMMA ShownKept ==
    ASSUME AccountInv, [AccountNext]_accountVars, UNCHANGED <<memory, shown, signedOut, sessionFile>>,
           NEW p \in Processes, NEW s, LoginOf(s) \cap signedOut = {} \/ p \in Commands,
           held' = [held EXCEPT ![p] = s],
           \/ \E to \in {"save", "out", "logout", "delete", "idle", "over"} : stage' = [stage EXCEPT ![p] = to]
           \/ s = held[p] /\ stage[p] \in {"fresh", "ask"} /\ \E to \in {"fresh", "ask"} : stage' = [stage EXCEPT ![p] = to]
    PROVE  Shown'
<1>1. ASSUME NEW r \in Requests
      PROVE  (stage'[r] \in {"fresh", "ask"} => held'[r] = memory') /\ LoginOf(held'[r]) \cap signedOut' = {}
  BY AccountAssumption DEF AccountInv, Shown, ProcessTypes, Processes, LoginOf
<1>2. QED
  BY <1>1, UserStays DEF AccountInv, Shown, SignedOutStaysOut, LoginOf

\* What the Core shows is whose session it has, and it has none it signed out of.
LEMMA ShownStep == AccountInv /\ [AccountNext]_accountVars => Shown'
<1> SUFFICES ASSUME AccountInv, [AccountNext]_accountVars PROVE Shown'
  OBVIOUS
<1> USE AccountAssumption DEF AccountInv, Processes, fileVars, coreMemory, processVars, ProcessTypes, Locked,
            RequestStages, CommandStages, SessionTypes, Shown, SignedOutStaysOut, UserOf, LoginOf, Issued
<1>1. ASSUME NEW r \in Requests, SignIn(r) \/ SignOut(r) \/ AuthorizeWithAccount(r) PROVE Shown'
  BY <1>1 DEF SignIn, SignOut, AuthorizeWithAccount, BeginCall, Starts
<1>2. ASSUME NEW c \in Commands, RunAccountLogin(c) \/ RunAccountStatus(c) \/ RunAccountLogout(c) \/
             AutomaticConnectionGrant(c) \/ AutomaticRouteAuthorization(c) \/ RunAccountEnroll(c) \/
             RunAccountEnrollDevice(c)
     PROVE  Shown'
  BY <1>2 DEF RunAccountLogin, RunAccountStatus, RunAccountLogout, AutomaticConnectionGrant,
       AutomaticRouteAuthorization, RunAccountEnroll, RunAccountEnrollDevice, LoadSession, BeginCommand, Starts
<1>3. ASSUME NEW c \in Commands, CommandDies(c) PROVE Shown'
  BY <1>3 DEF CommandDies, Back
<1>4. ASSUME NEW p \in Processes, Login(p) PROVE Shown'
  <2>1. CASE Back(p)
    BY <1>4, <2>1, ShownKept DEF Back, Login
  <2>2. CASE Proceeds(p, "save", [login |-> Len(families) + 1, gen |-> 1])
    <3>1. [login |-> Len(families) + 1, gen |-> 1].login = Len(families) + 1 /\ Len(families) + 1 \notin signedOut
      BY FamilyFacts
    <3>2. PICK s : s = [login |-> Len(families) + 1, gen |-> 1]
      OBVIOUS
    <3>3. LoginOf(s) \cap signedOut = {} /\ Proceeds(p, "save", s)
      BY <2>2, <3>1, <3>2
    <3>4. QED
      BY ONLY AccountInv, [AccountNext]_accountVars, <1>4, <3>3, ShownKept DEF Proceeds, Login, fileVars, coreMemory
  <2>3. QED
    BY <1>4, <2>1, <2>2 DEF Login
<1>5. ASSUME NEW p \in Processes, EnsureFresh(p) PROVE Shown'
  <2>1. UNCHANGED <<memory, shown, signedOut, sessionFile>> /\ stage[p] = "fresh" /\ held[p] # NoSession
    BY <1>5 DEF EnsureFresh
  <2>2. CASE Back(p)
    BY <2>1, <2>2, ShownKept DEF Back
  <2>3. CASE Proceeds(p, "ask", held[p])
    BY <2>1, <2>3, ShownKept DEF Proceeds
  <2>4. CASE Proceeds(p, "save", [held[p] EXCEPT !.gen = @ + 1])
    <3>1. [held[p] EXCEPT !.gen = @ + 1].login = held[p].login /\ LoginOf(held[p]) = {held[p].login}
      BY <2>1
    <3>2. PICK s : s = [held[p] EXCEPT !.gen = @ + 1]
      OBVIOUS
    <3>3. (LoginOf(s) \cap signedOut = {} \/ p \in Commands) /\ Proceeds(p, "save", s)
      BY <2>4, <3>1, <3>2
    <3>4. QED
      BY ONLY AccountInv, [AccountNext]_accountVars, <1>5, <2>1, <3>3, ShownKept DEF Proceeds
  <2>5. QED
    BY <1>5, <2>2, <2>3, <2>4 DEF EnsureFresh
<1>6. ASSUME NEW p \in Processes, FreshenToLogout(p) PROVE Shown'
  <2>1. UNCHANGED <<memory, shown, signedOut, sessionFile>> /\ held[p] # NoSession
    BY <1>6 DEF FreshenToLogout
  <2>2. CASE Proceeds(p, "logout", held[p]) \/ Proceeds(p, "delete", held[p])
    BY <2>1, <2>2, ShownKept DEF Proceeds
  <2>3. CASE Proceeds(p, "logout", [held[p] EXCEPT !.gen = @ + 1])
    <3>1. [held[p] EXCEPT !.gen = @ + 1].login = held[p].login /\ LoginOf(held[p]) = {held[p].login}
      BY <2>1
    <3>2. PICK s : s = [held[p] EXCEPT !.gen = @ + 1]
      OBVIOUS
    <3>3. (LoginOf(s) \cap signedOut = {} \/ p \in Commands) /\ Proceeds(p, "logout", s)
      BY <2>3, <3>1, <3>2
    <3>4. QED
      BY ONLY AccountInv, [AccountNext]_accountVars, <1>6, <2>1, <3>3, ShownKept DEF Proceeds
  <2>4. QED
    BY <1>6, <2>2, <2>3 DEF FreshenToLogout
<1>7. ASSUME NEW p \in Processes, Logout(p) PROVE Shown'
  BY <1>7, ShownKept DEF Logout, Proceeds
<1>8. ASSUME NEW p \in Processes, Ask(p) PROVE Shown'
  BY <1>8, AskEffects DEF Proceeds, Back
<1>9. ASSUME NEW p \in Processes, SaveSession(p) PROVE Shown'
  BY <1>9 DEF SaveSession, Stored, NotStored, AfterSave, Disturbs, Proceeds, Back
<1>10. ASSUME NEW p \in Processes, PublishSession(p) PROVE Shown'
  BY <1>10 DEF PublishSession, Proceeds, Back
<1>11. ASSUME NEW p \in Processes, DeleteSession(p) PROVE Shown'
  BY <1>11 DEF DeleteSession, Disturbs, Back
<1>12. ASSUME CoreRestarts PROVE Shown'
  BY <1>12 DEF CoreRestarts
<1>13. CASE UNCHANGED accountVars
  BY <1>13 DEF accountVars
<1>14. QED
  BY <1>1, <1>2, <1>3, <1>4, <1>5, <1>6, <1>7, <1>8, <1>9, <1>10, <1>11, <1>12, <1>13
     DEF AccountNext, ProcessStep

\* Whoever has mu leaves file, memory and tokens in order, or the history says otherwise.
LEMMA AgreementStep == AccountInv /\ [AccountNext]_accountVars => Agreement'
<1> SUFFICES ASSUME AccountInv, [AccountNext]_accountVars PROVE Agreement'
  OBVIOUS
<1> USE AccountAssumption DEF AccountInv, Processes, fileVars, coreMemory, processVars, ProcessTypes, Locked,
            RequestStages, CommandStages, Agreement, Newest, SessionTypes, Issued, Shown
<1>1. ASSUME NEW r \in Requests, SignIn(r) \/ SignOut(r) \/ AuthorizeWithAccount(r) PROVE Agreement'
  BY <1>1 DEF SignIn, SignOut, AuthorizeWithAccount, BeginCall, Starts
<1>2. ASSUME NEW c \in Commands, RunAccountLogin(c) \/ RunAccountStatus(c) \/ RunAccountLogout(c) \/
             AutomaticConnectionGrant(c) \/ AutomaticRouteAuthorization(c) \/ RunAccountEnroll(c) \/
             RunAccountEnrollDevice(c)
     PROVE  Agreement'
  BY <1>2 DEF RunAccountLogin, RunAccountStatus, RunAccountLogout, AutomaticConnectionGrant,
       AutomaticRouteAuthorization, RunAccountEnroll, RunAccountEnrollDevice, LoadSession, BeginCommand, Starts
<1>3. ASSUME NEW c \in Commands, CommandDies(c) PROVE Agreement'
  BY <1>3 DEF CommandDies, Back
<1>4. ASSUME NEW p \in Processes, Login(p) PROVE Agreement'
  <2>1. ASSUME families' = families, Back(p) PROVE Agreement'
    BY <1>4, <2>1 DEF Login, Back
  <2>2. ASSUME NEW u \in Users, families' = Append(families, [user |-> u, gen |-> 1, live |-> TRUE]) PROVE Agreement'
    <3>1. /\ \A i \in 1..Len(families) : families'[i] = families[i]
          /\ families'[Len(families) + 1].gen = 1
      BY <2>2, LoginGrows
    <3>2. CASE Back(p)
      BY <1>4, <3>1, <3>2 DEF Login, Back
    <3>3. CASE Proceeds(p, "save", [login |-> Len(families) + 1, gen |-> 1])
      BY <1>4, <3>1, <3>3 DEF Login, Proceeds
    <3>4. QED
      BY <1>4, <2>2, <3>2, <3>3 DEF Login
  <2>3. QED
    BY <1>4, <2>1, <2>2 DEF Login
<1>5. ASSUME NEW p \in Processes, EnsureFresh(p) PROVE Agreement'
  <2>1. held[p] # NoSession /\ stage[p] = "fresh"
    BY <1>5 DEF EnsureFresh
  <2>2. ASSUME families' = families, disturbed' = disturbed, Proceeds(p, "ask", held[p]) \/ Back(p) PROVE Agreement'
    BY <1>5, <2>1, <2>2 DEF EnsureFresh, Proceeds, Back
  <2>3. ASSUME Refreshed(p, TRUE), Proceeds(p, "save", [held[p] EXCEPT !.gen = @ + 1]) PROVE Agreement'
    <3>1. CASE disturbed'
      BY <3>1
    <3>2. CASE ~disturbed'
      <4>1. p \in Requests /\ ~disturbed
        BY <2>3, <3>2 DEF Refreshed, Disturbs
      <4>2. mu = p /\ families'[held[p].login].gen = held[p].gen + 1
        BY <2>1, <2>3, <4>1, RefreshGrows
      <4>3. QED
        BY <1>5, <2>1, <2>3, <4>1, <4>2 DEF EnsureFresh, Proceeds
    <3>3. QED
      BY <3>1, <3>2
  <2>4. ASSUME Refreshed(p, FALSE) PROVE Agreement'
    BY <2>4 DEF Refreshed, Disturbs
  <2>5. QED
    BY <1>5, <2>2, <2>3, <2>4 DEF EnsureFresh
<1>6. ASSUME NEW p \in Processes, FreshenToLogout(p) PROVE Agreement'
  <2>1. held[p] # NoSession /\ stage[p] = "out"
    BY <1>6 DEF FreshenToLogout
  <2>2. ASSUME families' = families, disturbed' = disturbed, NEW to \in {"logout", "delete"}, Proceeds(p, to, held[p])
        PROVE  Agreement'
    BY <1>6, <2>1, <2>2 DEF FreshenToLogout, Proceeds
  <2>3. ASSUME Refreshed(p, TRUE), Proceeds(p, "logout", [held[p] EXCEPT !.gen = @ + 1]) PROVE Agreement'
    <3>1. CASE disturbed'
      BY <3>1
    <3>2. CASE ~disturbed'
      <4>1. p \in Requests /\ mu = p
        BY <2>1, <2>3, <3>2 DEF Refreshed, Disturbs
      <4>2. QED
        BY <1>6, <2>1, <2>3, <4>1 DEF Proceeds
    <3>3. QED
      BY <3>1, <3>2
  <2>4. ASSUME Refreshed(p, FALSE) PROVE Agreement'
    BY <2>4 DEF Refreshed, Disturbs
  <2>5. QED
    BY <1>6, <2>2, <2>3, <2>4 DEF FreshenToLogout
<1>7. ASSUME NEW p \in Processes, Logout(p) PROVE Agreement'
  <2>1. \A i \in 1..Len(families) : families'[i].gen = families[i].gen
    BY <1>7, LogoutGrows DEF Logout
  <2>2. QED
    BY <1>7, <2>1 DEF Logout, Proceeds
<1>8. ASSUME NEW p \in Processes, Ask(p) PROVE Agreement'
  BY <1>8, AskEffects DEF Proceeds, Back
<1>9. ASSUME NEW p \in Processes, SaveSession(p) PROVE Agreement'
  <2>1. CASE disturbed'
    BY <2>1
  <2>2. CASE ~disturbed'
    <3>1. p \in Requests /\ ~disturbed /\ sessionFile' = held[p] /\ Proceeds(p, "publish", held[p])
      BY <1>9, <2>2 DEF SaveSession, Disturbs, Stored, AfterSave
    <3>2. mu = p /\ stage[p] = "save"
      BY <1>9, <3>1 DEF SaveSession
    <3>3. QED
      BY <1>9, <3>1, <3>2 DEF SaveSession, Proceeds
  <2>3. QED
    BY <2>1, <2>2
<1>10. ASSUME NEW p \in Processes, PublishSession(p) PROVE Agreement'
  BY <1>10 DEF PublishSession, Proceeds, Back
<1>11. ASSUME NEW p \in Processes, DeleteSession(p) PROVE Agreement'
  BY <1>11 DEF DeleteSession, Disturbs, Back
<1>12. ASSUME CoreRestarts PROVE Agreement'
  BY <1>12 DEF CoreRestarts
<1>13. CASE UNCHANGED accountVars
  BY <1>13 DEF accountVars
<1>14. QED
  BY <1>1, <1>2, <1>3, <1>4, <1>5, <1>6, <1>7, <1>8, <1>9, <1>10, <1>11, <1>12, <1>13
     DEF AccountNext, ProcessStep

-----------------------------------------------------------------------------
(* The theorems.                                                            *)

\* The invariant holds from the start and every step keeps it.
LEMMA AccountInvariant == AccountSpec => []AccountInv
<1>1. AccountInit => AccountInv
  BY AccountInvInit
<1>2. AccountInv /\ [AccountNext]_accountVars => AccountInv'
  BY ProcessTypesStep, LockedStep, SessionTypesStep, ShownStep, AgreementStep DEF AccountInv
<1>3. QED
  BY <1>1, <1>2, PTL DEF AccountSpec

\* Every session in the file, in the Core's memory or in a process's hands was
\* issued by the service, with a generation it reached.
THEOREM AccountTypeCorrect == AccountSpec => []AccountTypeOK
<1>1. AccountInv => AccountTypeOK
  <2> SUFFICES ASSUME AccountInv PROVE AccountTypeOK
    OBVIOUS
  <2> USE DEF AccountInv
  <2>1. \A s \in Known : s \in Sessions /\ (s # NoSession => s.gen <= families[s.login].gen)
    BY DEF SessionTypes, Issued, Sessions, Generations, Known
  <2>2. shown \in Users \cup {NoUser}
    <3>1. memory # NoSession => families[memory.login] \in Families
      BY FamilyFacts DEF SessionTypes, Issued
    <3>2. QED
      BY <3>1 DEF Shown, UserOf, Families
  <2>3. QED
    BY <2>1, <2>2 DEF AccountTypeOK, Known, ProcessTypes, SessionTypes
<1>2. QED
  BY <1>1, AccountInvariant, PTL

\* The file, the Core's memory and what the Core shows are one session, unless
\* the history says that a store or a call failed half way or a command interfered.
THEOREM AccountSessionsAgree == AccountSpec => []SessionsAgree
<1>1. AccountInv => SessionsAgree
  BY DEF AccountInv, Shown, Agreement, Newest, SessionsAgree, CoreAndFileAgree, ShownIsHeld
<1>2. QED
  BY <1>1, AccountInvariant, PTL

\* A grant or capability that a Core request returns is issued in the name of
\* the user the Core shows at that moment, given that the service issues to the
\* user of the token it is shown.
THEOREM GrantsAreForShownUser == AccountSpec => IssuedForShownUser
<1>1. AccountInv /\ [AccountNext]_accountVars => [(issued = NoUser /\ issued' # NoUser) => issued' = shown]_accountVars
  <2> SUFFICES ASSUME AccountInv, AccountNext, issued = NoUser, issued' # NoUser PROVE issued' = shown
    OBVIOUS
  <2>1. ASSUME NEW p \in Processes, NEW act, NEW answer, NEW matches, Asked(p, act, answer, matches),
               answer.user = UserOf(held[p])
        PROVE  issued' = shown
    BY <2>1 DEF Asked, AccountInv, Shown
  <2>2. ASSUME NEW p \in Processes, Ask(p) PROVE issued' = shown
    <3>1. CASE IssueConnectionGrant(p)
      BY <2>1, <3>1 DEF IssueConnectionGrant, TokenUser
    <3>2. CASE IssueRouteAuthorization(p)
      BY <2>1, <3>2 DEF IssueRouteAuthorization, TokenUser
    <3>3. QED
      BY <2>2, <3>1, <3>2 DEF Ask, RequestEnrollment, CompleteEnrollment, VerifyUser
  <2>3. ASSUME NEW r \in Requests, SignIn(r) \/ SignOut(r) \/ AuthorizeWithAccount(r) PROVE FALSE
    BY <2>3 DEF SignIn, SignOut, AuthorizeWithAccount, BeginCall
  <2>4. ASSUME NEW c \in Commands, NEW act, NEW s, BeginCommand(c, act, s) PROVE FALSE
    BY <2>4 DEF BeginCommand
  <2>5. ASSUME NEW p \in Processes, ProcessStep(p) PROVE issued' = shown
    BY <2>2, <2>5 DEF ProcessStep, Login, EnsureFresh, FreshenToLogout, Logout, SaveSession, PublishSession, DeleteSession
  <2>6. QED
    BY <2>3, <2>4, <2>5 DEF AccountNext, RunAccountLogin, RunAccountStatus, RunAccountLogout, LoadSession,
         AutomaticConnectionGrant, AutomaticRouteAuthorization, RunAccountEnroll, RunAccountEnrollDevice,
         CommandDies, CoreRestarts
<1>2. QED
  BY <1>1, AccountInvariant, PTL DEF AccountSpec, IssuedForShownUser
=============================================================================
