--------------------------- MODULE AccountSession ---------------------------
(***************************************************************************)
(* The account session: the tokens in account-session.json, the copy the   *)
(* Core keeps in memory with the status it shows, and the account service  *)
(* that rotates the refresh token with every use.  Core requests           *)
(* (internal/coreapi/account_service.go, account_connection_authorizer.go) *)
(* hold AccountService.mu; the commands of cmd/wd work on the same file    *)
(* and take no lock.  A session is a login and a generation of its tokens. *)
(***************************************************************************)
EXTENDS Integers, Sequences

CONSTANTS
    Users,
    Requests,        \* callers of the Core
    Commands,        \* runs of cmd/wd, a process each
    MaxLogins,       \* bound: logins the service grants
    MaxGenerations,  \* bound: generations of one login's tokens
    MaxRestarts,     \* bound: restarts of the Core
    NoSession, NoUser, NoProcess

ASSUME AccountAssumption ==
    /\ {MaxLogins, MaxRestarts} \subseteq Nat /\ MaxGenerations \in Nat \ {0}
    /\ NoSession \notin [login : Nat, gen : Nat]
    /\ NoUser \notin Users /\ NoProcess \notin Requests \cup Commands /\ Requests \cap Commands = {}

Processes == Requests \cup Commands

VARIABLES
    families,       \* the service: user, newest generation and liveness of each login
    sessionFile,    \* account-session.json
    memory, shown,  \* AccountService.session; the user ReadService shows
    mu,             \* holder of AccountService.mu
    doing, stage,   \* what each process does and where it is
    held,           \* the session it works with
    issued,         \* the user in whose name the Core's last call got a grant or capability
    restarts,
    signedOut,      \* history: logins the Core signed out of, unless a command stored them since
    disturbed       \* history: a store or a call failed half way, or a command interfered

fileVars == <<sessionFile, signedOut>>
coreMemory == <<memory, shown>>
processVars == <<mu, doing, stage, held>>
accountVars == <<families, fileVars, coreMemory, processVars, issued, restarts, disturbed>>

\* The Core has started with the session of an earlier login, or with none.
AccountInit ==
    /\ shown \in Users \cup {NoUser}
    /\ families = IF shown = NoUser THEN <<>> ELSE <<[user |-> shown, gen |-> 1, live |-> TRUE]>>
    /\ sessionFile = (IF shown = NoUser THEN NoSession ELSE [login |-> 1, gen |-> 1])
    /\ memory = sessionFile /\ mu = NoProcess
    /\ doing = [p \in Processes |-> "nothing"] /\ stage = [p \in Processes |-> "idle"]
    /\ held = [p \in Processes |-> NoSession] /\ issued = NoUser
    /\ restarts = 0 /\ signedOut = {} /\ disturbed = FALSE

UserOf(s) == IF s = NoSession THEN NoUser ELSE families[s.login].user
LoginOf(s) == IF s = NoSession THEN {} ELSE {s.login}
\* The service accepts only the newest refresh token of a live login.
Accepted(s) == families[s.login].live /\ families[s.login].gen = s.gen

\* p goes on to a stage with session s.
Proceeds(p, to, s) ==
    /\ stage' = [stage EXCEPT ![p] = to] /\ held' = [held EXCEPT ![p] = s] /\ UNCHANGED <<mu, doing>>
\* p returns, with or without an error, and lets go of mu; a command is over.
Back(p) ==
    /\ stage' = [stage EXCEPT ![p] = IF p \in Requests THEN "idle" ELSE "over"] /\ held' = [held EXCEPT ![p] = NoSession]
    /\ doing' = [doing EXCEPT ![p] = "nothing"] /\ mu' = IF mu = p THEN NoProcess ELSE mu
\* What a command does to tokens or file, the Core does not know of.
Disturbs(p, failed) == disturbed' = (disturbed \/ failed \/ p \in Commands)

Starts(p, act, s) ==
    /\ stage[p] = "idle" /\ doing' = [doing EXCEPT ![p] = act] /\ held' = [held EXCEPT ![p] = s]
    /\ stage' = [stage EXCEPT ![p] =
                    IF act = "login" THEN "login" ELSE IF act = "logout" THEN "out" ELSE "fresh"]

-----------------------------------------------------------------------------
(* The Core's requests begin with mu and the session in memory.             *)

BeginCall(r, act, s) ==
    /\ r \in Requests /\ mu = NoProcess /\ Starts(r, act, s) /\ mu' = r /\ issued' = NoUser
    /\ UNCHANGED <<families, fileVars, coreMemory, restarts, disturbed>>
SignIn(r) == BeginCall(r, "login", NoSession)
\* Without a session in memory, SignOut skips the service.
SignOut(r) ==
    \/ memory # NoSession /\ BeginCall(r, "logout", memory)
    \/ /\ memory = NoSession /\ r \in Requests /\ mu = NoProcess /\ stage[r] = "idle"
       /\ mu' = r /\ doing' = [doing EXCEPT ![r] = "logout"] /\ stage' = [stage EXCEPT ![r] = "delete"]
       /\ UNCHANGED <<families, fileVars, coreMemory, held, issued, restarts, disturbed>>
\* IssueConnectionGrant and IssueRouteAuthorization of the Core.
AuthorizeWithAccount(r) == memory # NoSession /\ \E act \in {"grant", "route"} : BeginCall(r, act, memory)

-----------------------------------------------------------------------------
(* The commands begin with the file.                                        *)

BeginCommand(c, act, s) ==
    /\ c \in Commands /\ Starts(c, act, s)
    /\ UNCHANGED <<families, fileVars, coreMemory, mu, issued, restarts, disturbed>>
RunAccountLogin(c) == BeginCommand(c, "login", NoSession)
\* account.Load; without a file the command ends.
LoadSession(c, act) == sessionFile # NoSession /\ BeginCommand(c, act, sessionFile)
RunAccountStatus(c) == LoadSession(c, "status")
RunAccountLogout(c) == LoadSession(c, "logout")
AutomaticConnectionGrant(c) == LoadSession(c, "grant")
AutomaticRouteAuthorization(c) == LoadSession(c, "route")
RunAccountEnroll(c) == LoadSession(c, "enroll")
RunAccountEnrollDevice(c) == LoadSession(c, "device")

-----------------------------------------------------------------------------
(* The account service, reached over HTTP: a call is answered, refused, or  *)
(* its answer is lost after the service acted.                              *)

\* Client.Login, and sessionFromAuthResponse's new session.
Login(p) ==
    /\ stage[p] = "login"
    /\ \/ /\ Len(families) < MaxLogins
          /\ \E u \in Users : families' = Append(families, [user |-> u, gen |-> 1, live |-> TRUE])
          /\ \/ Proceeds(p, "save", [login |-> Len(families) + 1, gen |-> 1])
             \/ Back(p)
       \/ Back(p) /\ UNCHANGED families
    /\ UNCHANGED <<fileVars, coreMemory, issued, restarts, disturbed>>

\* Client.Refresh: the old token is spent, whether the answer arrives or not.
Refreshed(p, answered) ==
    LET s == held[p] IN
    /\ Accepted(s) /\ s.gen < MaxGenerations
    /\ families' = [families EXCEPT ![s.login].gen = s.gen + 1]
    /\ Disturbs(p, ~answered)

\* Client.EnsureFresh with two minutes to spare: the session as it is, or a
\* refreshed one that must be saved.
EnsureFresh(p) ==
    /\ stage[p] = "fresh"
    /\ \/ Proceeds(p, "ask", held[p]) /\ UNCHANGED <<families, disturbed>>
       \/ Refreshed(p, TRUE) /\ Proceeds(p, "save", [held[p] EXCEPT !.gen = @ + 1])
       \/ Refreshed(p, FALSE) /\ Back(p)
       \/ Back(p) /\ UNCHANGED <<families, disturbed>>
    /\ UNCHANGED <<fileVars, coreMemory, issued, restarts>>

\* Signing out refreshes an expired session and does not save it; an error
\* skips the remote logout.
FreshenToLogout(p) ==
    /\ stage[p] = "out"
    /\ \/ Proceeds(p, "logout", held[p]) /\ UNCHANGED <<families, disturbed>>
       \/ Refreshed(p, TRUE) /\ Proceeds(p, "logout", [held[p] EXCEPT !.gen = @ + 1])
       \/ Refreshed(p, FALSE) /\ Proceeds(p, "delete", held[p])
       \/ Proceeds(p, "delete", held[p]) /\ UNCHANGED <<families, disturbed>>
    /\ UNCHANGED <<fileVars, coreMemory, issued, restarts>>

\* Client.Logout with scope=local, best effort.
Logout(p) ==
    /\ stage[p] = "logout" /\ Proceeds(p, "delete", held[p])
    /\ \/ families' = [families EXCEPT ![held[p].login].live = FALSE]
       \/ UNCHANGED families
    /\ UNCHANGED <<fileVars, coreMemory, issued, restarts, disturbed>>

-----------------------------------------------------------------------------
(* Results.                                                                 *)

\* The edge functions issue to the user whose token the request carries
\* (auth.getUser): the client has no other say in it.
TokenUser(s) == UserOf(s)
\* What the client compares an answer with: its own request, never a user.
GrantClaims == {"client", "target", "permission"}
RouteClaims == {"route", "profile", "router", "lifetime"}
GrantMatches(answer) == GrantClaims \subseteq answer.echoed
RouteMatches(answer) == RouteClaims \subseteq answer.echoed
\* An enrollment challenge names its user, who must be the session's.
ChallengeMatches(answer, s) == answer = UserOf(s)

\* A request that is refused, or fails, comes to the same as an answer that
\* does not match.
Asked(p, act, answer, matches) ==
    /\ stage[p] = "ask" /\ doing[p] = act /\ Back(p)
    /\ issued' = IF p \in Requests /\ matches THEN answer.user ELSE issued
    /\ UNCHANGED <<families, fileVars, coreMemory, restarts, disturbed>>

IssueConnectionGrant(p) ==
    \E echoed \in SUBSET GrantClaims :
        LET answer == [user |-> TokenUser(held[p]), echoed |-> echoed]
        IN Asked(p, "grant", answer, GrantMatches(answer))
\* With an instant ahead of the clock, the capability is held back until then
\* (waitForRouteAuthorizationIssuedAt), unless the caller gives up.
IssueRouteAuthorization(p) ==
    \E echoed \in SUBSET RouteClaims, waited \in BOOLEAN :
        LET answer == [user |-> TokenUser(held[p]), echoed |-> echoed]
        IN Asked(p, "route", answer, RouteMatches(answer) /\ waited)
\* The challenge.  A client signs it at once, an agent in another run.
RequestEnrollment(p, answer) ==
    /\ stage[p] = "ask" /\ doing[p] \in {"enroll", "device"}
    /\ IF doing[p] = "enroll" /\ ChallengeMatches(answer, held[p]) THEN Proceeds(p, "prove", held[p]) ELSE Back(p)
    /\ UNCHANGED <<families, fileVars, coreMemory, issued, restarts, disturbed>>
\* The enrolled device, or an error, is only printed.
CompleteEnrollment(p) ==
    /\ (stage[p] = "prove" \/ (stage[p] = "ask" /\ doing[p] = "device")) /\ Back(p)
    /\ UNCHANGED <<families, fileVars, coreMemory, issued, restarts, disturbed>>
\* Client.VerifyUser: another user is an error, a changed email is saved.
VerifyUser(c, answer) ==
    /\ stage[c] = "ask" /\ doing[c] = "status"
    /\ \/ answer = UserOf(held[c]) /\ Proceeds(c, "resave", held[c])
       \/ Back(c)
    /\ UNCHANGED <<families, fileVars, coreMemory, issued, restarts, disturbed>>
Ask(p) ==
    \/ IssueConnectionGrant(p) \/ IssueRouteAuthorization(p) \/ CompleteEnrollment(p)
    \/ \E answer \in Users : RequestEnrollment(p, answer) \/ VerifyUser(p, answer)

-----------------------------------------------------------------------------
(* The file and the memory.                                                 *)

\* account.Save: temporary file and rename; a failed replacement on a system
\* that cannot rename over a file may have removed it.
Stored(s, cleared) == sessionFile' = s /\ signedOut' = signedOut \ cleared
NotStored == sessionFile' \in {sessionFile, NoSession} /\ UNCHANGED signedOut

AfterSave(p) ==
    IF p \in Requests THEN Proceeds(p, "publish", held[p])
    ELSE IF doing[p] = "login" \/ stage[p] = "resave" THEN Back(p) ELSE Proceeds(p, "ask", held[p])
SaveSession(p) ==
    /\ stage[p] \in {"save", "resave"}
    /\ \/ /\ Stored(held[p], IF p \in Commands THEN LoginOf(held[p]) ELSE {})
          /\ \/ AfterSave(p) /\ Disturbs(p, FALSE)
             \/ Back(p) /\ Disturbs(p, TRUE)            \* the file's mode could not be set
       \/ NotStored /\ Back(p) /\ Disturbs(p, TRUE)
    /\ UNCHANGED <<families, coreMemory, issued, restarts>>

PublishUnlocking(r) ==
    /\ stage[r] = "publish" /\ memory' = held[r] /\ shown' = UserOf(held[r])
    /\ IF doing[r] # "login"
       THEN /\ stage' = [stage EXCEPT ![r] = "ask"] /\ mu' = NoProcess /\ UNCHANGED <<held, doing>>
       ELSE Back(r)
    /\ UNCHANGED <<families, fileVars, issued, restarts, disturbed>>
\* SetAccountSession and AccountService.session.  Its error, a session without a
\* user, does not arise: sessionFromAuthResponse has refused such a session.
PublishSession(r) ==
    /\ stage[r] = "publish" /\ memory' = held[r] /\ shown' = UserOf(held[r])
    /\ IF doing[r] # "login" THEN Proceeds(r, "ask", held[r]) ELSE Back(r)
    /\ UNCHANGED <<families, fileVars, issued, restarts, disturbed>>

DeleteForgetfully(p) ==
    /\ stage[p] = "delete" /\ Back(p) /\ sessionFile' = NoSession
    /\ signedOut' = (IF p \in Requests THEN signedOut \cup LoginOf(memory) \cup LoginOf(sessionFile) ELSE signedOut)
    /\ (IF p \in Requests THEN shown' = NoUser ELSE UNCHANGED shown) /\ Disturbs(p, FALSE)
    /\ UNCHANGED <<families, memory, issued, restarts>>
\* account.Delete; the Core then clears its memory and status.
DeleteSession(p) ==
    /\ stage[p] = "delete" /\ Back(p)
    /\ \/ /\ sessionFile' = NoSession /\ Disturbs(p, FALSE)
          /\ IF p \in Requests
             THEN /\ memory' = NoSession /\ shown' = NoUser
                  /\ signedOut' = signedOut \cup LoginOf(memory) \cup LoginOf(sessionFile)
             ELSE UNCHANGED <<memory, shown, signedOut>>
       \/ UNCHANGED <<fileVars, coreMemory>> /\ Disturbs(p, TRUE)
    /\ UNCHANGED <<families, issued, restarts>>

\* The Core dies and starts again: OpenRuntime loads the file.
CoreRestarts ==
    /\ restarts < MaxRestarts /\ restarts' = restarts + 1
    /\ memory' = sessionFile /\ shown' = UserOf(sessionFile) /\ mu' = NoProcess
    /\ stage' = [p \in Processes |-> IF p \in Requests THEN "idle" ELSE stage[p]]
    /\ doing' = [p \in Processes |-> IF p \in Requests THEN "nothing" ELSE doing[p]]
    /\ held' = [p \in Processes |-> IF p \in Requests THEN NoSession ELSE held[p]]
    /\ disturbed' = (disturbed \/ \E r \in Requests : stage[r] \in {"save", "logout", "delete"})
    /\ UNCHANGED <<families, fileVars, issued>>
\* A command is interrupted.
CommandDies(c) ==
    /\ c \in Commands /\ stage[c] \notin {"idle", "over"} /\ Back(c)
    /\ UNCHANGED <<families, fileVars, coreMemory, issued, restarts, disturbed>>

-----------------------------------------------------------------------------
ProcessStep(p) ==
    \/ Login(p) \/ EnsureFresh(p) \/ FreshenToLogout(p) \/ Logout(p) \/ Ask(p)
    \/ SaveSession(p) \/ PublishSession(p) \/ DeleteSession(p)
AccountNext ==
    \/ \E r \in Requests : SignIn(r) \/ SignOut(r) \/ AuthorizeWithAccount(r)
    \/ \E c \in Commands :
          \/ RunAccountLogin(c) \/ RunAccountStatus(c) \/ RunAccountLogout(c)
          \/ AutomaticConnectionGrant(c) \/ AutomaticRouteAuthorization(c)
          \/ RunAccountEnroll(c) \/ RunAccountEnrollDevice(c) \/ CommandDies(c)
    \/ \E p \in Processes : ProcessStep(p)
    \/ CoreRestarts

\* The HTTP client has a timeout and file operations end: a process goes on.
AccountFairness == \A p \in Processes : WF_accountVars(ProcessStep(p))

AccountSpec == AccountInit /\ [][AccountNext]_accountVars

-----------------------------------------------------------------------------
Sessions == [login : 1..Len(families), gen : 1..MaxGenerations] \cup {NoSession}

\* Every session in the file, in the Core's memory or in a process's hands was
\* issued by the service, with a generation it reached.
AccountTypeOK ==
    /\ {sessionFile, memory} \cup {held[p] : p \in Processes} \subseteq Sessions
    /\ \A s \in ({sessionFile, memory} \cup {held[p] : p \in Processes}) \ {NoSession} :
          s.gen <= families[s.login].gen
    /\ mu \in Requests \cup {NoProcess} /\ shown \in Users \cup {NoUser}
    /\ signedOut \subseteq 1..Len(families) /\ restarts \in 0..MaxRestarts

\* Unless a store operation failed, an answer was lost, the Core died on the
\* way or a command interfered, an idle Core and the file hold the same
\* session, and its refresh token is the newest of the login: a later refresh
\* works (freshSessionLocked saves, publishes and keeps what it refreshed).
CoreAndFileAgree ==
    (mu = NoProcess /\ ~disturbed) =>
        /\ sessionFile = memory
        /\ memory # NoSession => memory.gen = families[memory.login].gen

\* A login the Core signed out of is neither stored nor used by the Core
\* again, whatever request or restart follows, until a command that was
\* still holding it writes it back (SignOut).
SignedOutStaysOut ==
    /\ LoginOf(sessionFile) \cap signedOut = {}
    /\ LoginOf(memory) \cap signedOut = {}

\* GetStatus names the user of the session an idle Core would act with.
ShownIsHeld == mu = NoProcess => shown = UserOf(memory)

\* A grant or route authorization a Core request returns was issued in the
\* name of the user the Core shows at that moment, though sign-ins and
\* sign-outs as other users run beside it.  Nothing in the answer is compared
\* with a user: the token the request carried decides, and whether that is the
\* token of the shown user is up to mu, the refresh and its publication.
IssuedForShownUser ==
    [][(issued = NoUser /\ issued' # NoUser) => issued' = shown]_accountVars

\* A Core request that has AccountService.mu gives it back.
AccountCallReturns == []<>(mu = NoProcess)

\* The file, the Core's memory and what the Core shows are one session.
SessionsAgree == CoreAndFileAgree /\ SignedOutStaysOut /\ ShownIsHeld
=============================================================================
