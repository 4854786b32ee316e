------------------------------- MODULE AuthLogin -------------------------------
(***************************************************************************)
(* POST /v1/auth/login end to end: handleAuthLogin decodes the request and *)
(* calls auth.Service.AuthenticateDevice (strategy "device") or            *)
(* AuthenticateEmail.  Both authenticate with Nakama, load the player's    *)
(* account from the repository or build it with NewPlayerAccount, mutate   *)
(* it (RegisterDevice for a device login, whose error is discarded, then   *)
(* RecordSession) and save the whole account back; any error is written as *)
(* 401, success as 200.  Each element of Requests is one concurrent login; *)
(* it names the device it registers and the session token Nakama issues.   *)
(*                                                                         *)
(* The repository is Nakama storage: it holds the accounts earlier logins  *)
(* saved, which may have been suspended there (PlayerAccount.Suspend has   *)
(* no caller in this repository).  Nakama refuses a blank device id (the   *)
(* runtime's beforeAuthenticateDevice hook) and a blank email.            *)
(***************************************************************************)
EXTENDS FiniteSets

CONSTANTS
    Requests,           \* concurrent logins (model values)
    Players,            \* player ids Nakama resolves logins to (model values)
    NoAccount,          \* GetByID's ErrNotFound
    ProviderFaults,     \* Nakama authentication may fail
    RepoFaults,         \* GetByID or Save may fail; Save may time out after writing
    SuspendedAccounts,  \* a stored account may be suspended
    Serialized          \* logins of one player never overlap

VARIABLES
    stored,  \* [Players -> Accounts \cup {NoAccount}]: the repository
    pc,      \* [Requests -> {"idle", "provider", "load", "save", "done"}]
    login,   \* [Requests -> Logins]: the decoded request
    acct,    \* [Requests -> Accounts \cup {NoAccount}]: the account object in hand
    status   \* [Requests -> {0, 200, 400, 401}]

vars == <<stored, pc, login, acct, status>>

Accounts == [suspended : BOOLEAN, devices : SUBSET Requests, sessions : SUBSET Requests]

\* device: Strategy == "device"; email: the email (vars["email"] for a device
\* login) is non-blank; deviceId: the device id is non-blank.
Logins == [device : BOOLEAN, player : Players, email : BOOLEAN, deviceId : BOOLEAN]

Suspension == IF SuspendedAccounts THEN BOOLEAN ELSE {FALSE}
RepoOutcomes == IF RepoFaults THEN {"ok", "failed", "timeout"} ELSE {"ok"}

InFlight(r) == pc[r] \in {"provider", "load", "save"}
MayStart(r, p) == Serialized => \A q \in Requests \ {r}: InFlight(q) => login[q].player # p
Finish(r, code) ==
    /\ pc' = [pc EXCEPT ![r] = "done"]
    /\ status' = [status EXCEPT ![r] = code]

\* NewPlayerAccount: the id is Nakama's; a blank email is ErrEmailRequired.
NewPlayerAccount(l) ==
    IF l.email THEN [suspended |-> FALSE, devices |-> {}, sessions |-> {}] ELSE NoAccount

\* RegisterDevice: ErrAccountSuspended, ErrDeviceInvalid, or the device added.
RegisterDevice(a, r) ==
    IF a.suspended \/ ~login[r].deviceId THEN a ELSE [a EXCEPT !.devices = @ \cup {r}]

\* RecordSession: Nakama's session token is appended, suspended or not.
RecordSession(a, r) == [a EXCEPT !.sessions = @ \cup {r}]

\* The account AuthenticateDevice or AuthenticateEmail saves.
Mutated(a, r) == RecordSession(IF login[r].device THEN RegisterDevice(a, r) ELSE a, r)

Init ==
    /\ stored \in [Players -> {NoAccount} \cup
                     [suspended : Suspension, devices : {{}}, sessions : {{}}]]
    /\ pc = [r \in Requests |-> "idle"]
    /\ login = [r \in Requests |-> CHOOSE l \in Logins : TRUE]
    /\ acct = [r \in Requests |-> NoAccount]
    /\ status = [r \in Requests |-> 0]

-----------------------------------------------------------------------------
\* handleAuthLogin: json Decode (400 on error), then the strategy's service call.
Receive(r) ==
    /\ pc[r] = "idle"
    /\ \E l \in Logins, decodes \in BOOLEAN:
          /\ MayStart(r, l.player)
          /\ login' = [login EXCEPT ![r] = l]
          /\ IF decodes THEN pc' = [pc EXCEPT ![r] = "provider"] /\ UNCHANGED status
                        ELSE Finish(r, 400)
    /\ UNCHANGED <<stored, acct>>

\* Auth.AuthenticateDevice / AuthenticateEmail; an error is a 401.
Authenticate(r) ==
    /\ pc[r] = "provider"
    /\ \E ok \in IF ProviderFaults THEN BOOLEAN ELSE {TRUE}:
          IF ok /\ (IF login[r].device THEN login[r].deviceId ELSE login[r].email)
             THEN pc' = [pc EXCEPT ![r] = "load"] /\ UNCHANGED status
             ELSE Finish(r, 401)
    /\ UNCHANGED <<stored, login, acct>>

\* Repo.GetByID; on ErrNotFound NewPlayerAccount; any other error, or a
\* failing NewPlayerAccount, is a 401.
Load(r) ==
    LET p == login[r].player IN
    /\ pc[r] = "load"
    /\ \E o \in RepoOutcomes \ {"timeout"}:
          LET a == IF stored[p] = NoAccount THEN NewPlayerAccount(login[r]) ELSE stored[p] IN
          IF o = "ok" /\ a # NoAccount
             THEN /\ acct' = [acct EXCEPT ![r] = a]
                  /\ pc' = [pc EXCEPT ![r] = "save"]
                  /\ UNCHANGED status
             ELSE Finish(r, 401) /\ UNCHANGED acct
    /\ UNCHANGED <<stored, login>>

\* RegisterDevice (device logins; its error is discarded), RecordSession,
\* then Repo.Save of the whole account (error: 401; success: 200).
Save(r) ==
    LET p == login[r].player IN
    /\ pc[r] = "save"
    /\ \E o \in RepoOutcomes:
          /\ stored' = IF o \in {"ok", "timeout"}
                          THEN [stored EXCEPT ![p] = Mutated(acct[r], r)]
                          ELSE stored
          /\ Finish(r, IF o = "ok" THEN 200 ELSE 401)
    /\ UNCHANGED <<login, acct>>

\* Every login has been answered.
Quiescent ==
    /\ \A r \in Requests: pc[r] = "done"
    /\ UNCHANGED vars

Next == (\E r \in Requests: Receive(r) \/ Authenticate(r) \/ Load(r) \/ Save(r)) \/ Quiescent

Spec == Init /\ [][Next]_vars

-----------------------------------------------------------------------------
TypeOK ==
    /\ stored \in [Players -> Accounts \cup {NoAccount}]
    /\ pc \in [Requests -> {"idle", "provider", "load", "save", "done"}]
    /\ login \in [Requests -> Logins]
    /\ acct \in [Requests -> Accounts \cup {NoAccount}]
    /\ status \in [Requests -> {0, 200, 400, 401}]

\* Spec 2: PlayerAccount operations fail with AccountSuspended while the
\* account is suspended.  No login whose loaded account is suspended is
\* answered 200 (AuthenticateDevice, AuthenticateEmail).
NoLoginWhileSuspended ==
    \A r \in Requests:
       status[r] = 200 => acct[r] # NoAccount /\ ~acct[r].suspended

=============================================================================
