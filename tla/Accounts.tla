------------------------------- MODULE Accounts -------------------------------
(***************************************************************************)
(* Account sign-in on the host: the checks of a credential (accounts/,     *)
(* lib.rs, local.rs, os.rs, ldap.rs, oidc.rs), the policy (policy.rs), the *)
(* devices registered to an account (registrations.rs), the throttle and   *)
(* the decision a session gets (host-core, HostControl, Gate, establish).  *)
(*                                                                         *)
(* A sign-in asks the throttle, checks the credential on a blocking        *)
(* thread and comes back: others sign in, settings change and the host is  *)
(* killed in between.  Directories, PAM, Kerberos, the provider and the    *)
(* cryptography are external: a check has any of the answers they give.    *)
(***************************************************************************)
EXTENDS Integers, Sequences, FiniteSets

CONSTANTS
  Devices,        \* clients' device keys
  Users,          \* user names
  Passwords,
  Tokens,         \* ID tokens the provider has signed
  Sources,        \* Config.password, in order: "local", "os", "ldap"
  Rules,          \* Policy.rules: [who, allow, windows]
  Windows,        \* app ids and titles the globs tell apart
  Pinned,         \* devices pinned by their PIN
  MAX_SIGN_IN_FAILURES, SIGN_IN_LOCKOUT,
  RegistrationTime,  \* registration_days
  KeyRefresh,        \* KEY_REFRESH
  EXPIRES, LEEWAY,   \* "exp" of every token, and validation.leeway
  MaxTime,        \* bound: the clock
  MaxSignIns,     \* bound: sign-ins begun
  MaxSettings     \* bound: changes of accounts, limits and settings, kills

Never == 0 - (SIGN_IN_LOCKOUT + KeyRefresh + 1)  \* no moment, long ago

\* A device paired by its PIN acts for no account.
NoAccount == [name |-> "none", groups |-> {}, method |-> "pin",
              provider |-> "none"]
NoUser == [password |-> "none", revoked |-> FALSE]
NoRegistration == [account |-> NoAccount, expires |-> 0]

VARIABLES
  clock,
  local,      \* LocalAccounts: each user, NoUser or its password
  localFile,  \* accounts.json
  registered, \* Registrations.devices: NoRegistration or a device's
  regFile,    \* agent-registrations.json, whole or torn
  limits,     \* HostControl.device_limits: windows a device is limited to
  throttle,   \* SignInThrottle
  used,       \* Verifier.used: tokens and when they expire
  keys,       \* Verifier.keys: whether they have the provider's, and since
  signIn,     \* each device's sign-in
  serving,    \* each device's session: its account and its decision
  seen        \* history: failures' times, registered tokens, counts

accountVars == <<clock, local, localFile, registered, regFile, limits,
                 throttle, used, keys, signIn, serving, seen>>

\* Every token expires at the same time and, as the device-code flow leaves it,
\* names no device.
\* There are finitely many devices, and sign-in is not paused before one failure.
ASSUME AccountsAssumption ==
  /\ IsFiniteSet(Devices)
  /\ {EXPIRES, LEEWAY, SIGN_IN_LOCKOUT, KeyRefresh} \subseteq Nat
  /\ MAX_SIGN_IN_FAILURES \in Nat \ {0}

NoSignIn == [phase |-> "none", credential |-> [method |-> "none"],
             account |-> NoAccount]
NotServing == [on |-> FALSE, account |-> NoAccount, windows |-> {}]

AccountsInit ==
  /\ clock = 0
  /\ local = [u \in Users |-> NoUser]
  /\ localFile = local
  /\ registered = [d \in Devices |-> NoRegistration]
  /\ regFile = [torn |-> FALSE, devices |-> registered]
  /\ limits = [d \in Devices |-> Windows]
  /\ throttle = [count |-> 0, since |-> Never, until |-> 0]
  /\ used = {}
  /\ keys = [known |-> FALSE, fetched |-> Never]
  /\ signIn = [d \in Devices |-> NoSignIn]
  /\ serving = [d \in Devices |-> NotServing]
  /\ seen = [failures |-> <<>>, by |-> [t \in Tokens |-> {}], signIns |-> 0,
             settings |-> 0]

-----------------------------------------------------------------------------
(* Policy: the first rule an entry of which matches decides; no rules      *)
(* admit everyone to everything, and no match refuses.                     *)
Matches(who, account) ==
  \/ who \in {"*", account.method}
  \/ /\ account # NoAccount
     /\ who \in {account.name, account.provider} \union account.groups

Decide(account) ==
  LET matching == {i \in DOMAIN Rules :
                     \E who \in Rules[i].who : Matches(who, account)}
      first == CHOOSE i \in matching : \A j \in matching : i <= j
  IN IF Rules = <<>> THEN [allow |-> TRUE, windows |-> Windows]
     ELSE IF matching = {} THEN [allow |-> FALSE, windows |-> {}]
     ELSE [allow |-> Rules[first].allow, windows |-> Rules[first].windows]

(* account_of: a registration that has not expired, of an account that     *)
(* still exists (only local ones are looked up).                           *)
Active(user) == local[user] # NoUser /\ ~local[user].revoked

Registered(d) == registered[d].expires > clock

AccountOf(d) ==
  IF Registered(d) /\ (registered[d].account.provider = "local" =>
                         Active(registered[d].account.name))
  THEN registered[d].account ELSE NoAccount

(* decision: what policy lets a device do, within the application's limit. *)
Decision(d) ==
  [Decide(AccountOf(d)) EXCEPT !.windows = @ \intersect limits[d]]

(* admitted: the devices that may resume.                                  *)
Admitted(d) == (d \in Pinned \/ AccountOf(d) # NoAccount) /\ Decision(d).allow

-----------------------------------------------------------------------------
(* A password with one source: the account it names, Unknown (the next     *)
(* source is asked) or Refused (wrong, or the source cannot be asked).     *)
Unknown == [NoAccount EXCEPT !.name = "unknown"]
Refused == [NoAccount EXCEPT !.name = "refused"]

AccountNamed(user, groups, provider) ==
  [name |-> user, groups |-> groups, method |-> "password",
   provider |-> provider]

LocalAnswer(user, password) ==
  IF local[user] = NoUser THEN Unknown
  ELSE IF ~local[user].revoked /\ local[user].password = password
  THEN AccountNamed(user, {}, "local") ELSE Refused

(* os::check_password: PAM authenticates and admits the account, or says   *)
(* it knows no such user; its groups come from the system.                 *)
OsAnswers(user) ==
  {Unknown, Refused}
    \union {AccountNamed(user, groups, "os") : groups \in {{}, {"staff"}}}

(* ldap::check_password: no answer, an empty password or a refused bind    *)
(* refuses and no entry is unknown; the groups of a user whose group       *)
(* search fails are none.                                                  *)
LdapGroups == {{}, {"staff"}}

LdapAnswers(user) ==
  {Unknown, Refused}
    \union {AccountNamed(user, groups, "ldap") : groups \in LdapGroups}

AnswersOf(source, user, password) ==
  CASE source = "local" -> {LocalAnswer(user, password)}
    [] source = "os" -> OsAnswers(user)
    [] source = "ldap" -> LdapAnswers(user)

(* check_password: the first source that knows the user decides.           *)
PasswordAnswers(user, password) ==
  LET from[i \in 1..Len(Sources) + 1] ==
        IF i > Len(Sources) THEN {Refused}
        ELSE LET answers == AnswersOf(Sources[i], user, password)
             IN (answers \ {Unknown})
                  \union IF Unknown \in answers THEN from[i + 1] ELSE {}
  IN from[1]

(* Verifier::verify of a token: its key, fetched again when it is not      *)
(* known (at most every KeyRefresh), then signature, audience, nonce and   *)
(* expiry; and the same token only once (use_once).                        *)
MayFetch == clock - keys.fetched >= KeyRefresh

TokenIsValid == EXPIRES + LEEWAY >= clock

Remembered == {e \in used : e.until + LEEWAY > clock}

OidcAccount(token) ==
  [name |-> CHOOSE u \in Users : TRUE, groups |-> {}, method |-> "oidc",
   provider |-> "corp"]

-----------------------------------------------------------------------------
(* SignInThrottle: whether sign-in is paused, and what a failure counts.   *)
Locked == clock < throttle.until

WindowOver == clock - throttle.since > SIGN_IN_LOCKOUT

(* A failure that pauses sign-in one failure too late.                     *)
CountedLate(failed) ==
  IF failed.count > MAX_SIGN_IN_FAILURES
  THEN [count |-> 0, since |-> Never, until |-> clock + SIGN_IN_LOCKOUT]
  ELSE failed

Counted(failed) ==
  IF failed.count >= MAX_SIGN_IN_FAILURES
  THEN [count |-> 0, since |-> Never, until |-> clock + SIGN_IN_LOCKOUT]
  ELSE failed

FailedSignIn ==
  LET began == IF WindowOver THEN [throttle EXCEPT !.count = 0, !.since = clock]
               ELSE throttle
  IN throttle' = Counted([began EXCEPT !.count = @ + 1])

-----------------------------------------------------------------------------
(* accept: a client in Account mode is sent the offer and sends its proof; *)
(* Gate::check refuses at once while sign-in is paused.                    *)
Credentials ==
  [method : {"password"}, user : Users, password : Passwords]
    \union [method : {"oidc"}, token : Tokens]

StartsSignIn(d) ==
  /\ signIn[d].phase = "none" /\ ~serving[d].on
  /\ seen.signIns < MaxSignIns /\ ~Locked
  /\ \E credential \in Credentials :
       signIn' = [signIn EXCEPT ![d] = [NoSignIn EXCEPT !.phase = "checking",
                                             !.credential = credential]]
  /\ seen' = [seen EXCEPT !.signIns = @ + 1]
  /\ UNCHANGED <<clock, local, localFile, registered, regFile, limits,
                 throttle, used, keys, serving>>

(* The check failed, or policy does not admit the account.                 *)
Refuses(d) ==
  /\ FailedSignIn
  /\ signIn' = [signIn EXCEPT ![d] = NoSignIn]
  /\ seen' = [seen EXCEPT !.failures = Append(@, clock)]

(* Gate::check comes back with an account.                                 *)
AcceptsOrRefuses(d, account) ==
  IF Decide(account).allow
  THEN /\ signIn' = [signIn EXCEPT ![d].phase = "accepted",
                                   ![d].account = account]
       /\ UNCHANGED <<throttle, seen>>
  ELSE Refuses(d)

ChecksPassword(d) ==
  LET credential == signIn[d].credential
  IN /\ signIn[d].phase = "checking" /\ credential.method = "password"
     /\ \E answer \in PasswordAnswers(credential.user, credential.password) :
          IF answer = Refused THEN Refuses(d) ELSE AcceptsOrRefuses(d, answer)
     /\ UNCHANGED <<clock, local, localFile, registered, regFile, limits, used,
                    keys, serving>>

(* The token's key, and its claims.                                        *)
VerifiesToken(d) ==
  LET token == signIn[d].credential.token
  IN /\ signIn[d].phase = "checking" /\ signIn[d].credential.method = "oidc"
     /\ \/ /\ keys.known \/ MayFetch
           /\ TokenIsValid
           /\ keys' = IF keys.known THEN keys
                      ELSE [known |-> TRUE, fetched |-> clock]
           /\ signIn' = [signIn EXCEPT ![d].phase = "verified"]
           /\ UNCHANGED <<throttle, seen>>
        \/ /\ Refuses(d)      \* no key, no answer, or a claim is not met
           /\ UNCHANGED keys
     /\ UNCHANGED <<clock, local, localFile, registered, regFile, limits, used,
                    serving>>

(* use_once.                                                               *)
UsesToken(d) ==
  LET token == signIn[d].credential.token
  IN /\ signIn[d].phase = "verified"
     /\ IF \E e \in Remembered : e.token = token
        THEN /\ used' = Remembered
             /\ Refuses(d)
        ELSE /\ used' = Remembered \union {[token |-> token, until |-> EXPIRES]}
             /\ AcceptsOrRefuses(d, OidcAccount(token))
     /\ UNCHANGED <<clock, local, localFile, registered, regFile, limits, keys,
                    serving>>

(* The client never came to the end of the exchange.                       *)
SignInGivenUp(d) ==
  /\ signIn[d].phase = "accepted"
  /\ signIn' = [signIn EXCEPT ![d] = NoSignIn]
  /\ UNCHANGED <<clock, local, localFile, registered, regFile, limits,
                 throttle, used, keys, serving, seen>>

(* establish: the device is registered to its account and the file is      *)
(* rewritten in place; the session's decision is the policy's.             *)
SessionDecision(account) == Decide(account)

Saved(devices) ==
  [torn |-> FALSE,
   devices |-> [d \in Devices |-> IF devices[d].expires > clock
                                  THEN devices[d] ELSE NoRegistration]]

Serves(d, account) ==
  serving' = [serving EXCEPT ![d] =
                [on |-> TRUE, account |-> account,
                 windows |-> SessionDecision(account).windows]]

SignedIn(d) ==
  LET account == signIn[d].account
  IN /\ signIn[d].phase = "accepted"
     /\ IF RegistrationTime = 0
        THEN UNCHANGED <<registered, regFile>>
        ELSE /\ registered' = [registered EXCEPT ![d] =
                   [account |-> account, expires |-> clock + RegistrationTime]]
             /\ regFile' = Saved(registered')
     /\ Serves(d, account)
     /\ seen' = IF signIn[d].credential.method = "oidc"
                THEN [seen EXCEPT !.by[signIn[d].credential.token] = @ \union {d}]
                ELSE seen
     /\ signIn' = [signIn EXCEPT ![d] = NoSignIn]
     /\ UNCHANGED <<clock, local, localFile, limits, throttle, used, keys>>

(* A device that resumes: admitted, then decided again.                    *)
Resumes(d) ==
  /\ ~serving[d].on /\ signIn[d].phase = "none" /\ Admitted(d)
  /\ Serves(d, AccountOf(d))
  /\ UNCHANGED <<clock, local, localFile, registered, regFile, limits,
                 throttle, used, keys, signIn, seen>>

SessionOver(d) ==
  /\ serving[d].on
  /\ serving' = [serving EXCEPT ![d] = NotServing]
  /\ UNCHANGED <<clock, local, localFile, registered, regFile, limits,
                 throttle, used, keys, signIn, seen>>

-----------------------------------------------------------------------------
(* The host's application: accounts made, removed and revoked (and saved), *)
(* a device forgotten, a device limited, settings applied.                 *)
MayChange == seen.settings < MaxSettings
Change == seen' = [seen EXCEPT !.settings = @ + 1]

SaveLocal == localFile' = local'

AddAccount(user, password) ==
  /\ MayChange /\ Change /\ local[user] = NoUser
  /\ local' = [local EXCEPT ![user] = [password |-> password, revoked |-> FALSE]]
  /\ SaveLocal
  /\ UNCHANGED <<clock, registered, regFile, limits, throttle, used, keys,
                 signIn, serving>>

RemoveAccount(user) ==
  /\ MayChange /\ Change /\ local[user] # NoUser
  /\ local' = [local EXCEPT ![user] = NoUser]
  /\ SaveLocal
  /\ UNCHANGED <<clock, registered, regFile, limits, throttle, used, keys,
                 signIn, serving>>

Unregister(d) ==
  /\ MayChange /\ Change /\ registered[d] # NoRegistration
  /\ registered' = [registered EXCEPT ![d] = NoRegistration]
  /\ regFile' = Saved(registered')
  /\ UNCHANGED <<clock, local, localFile, limits, throttle, used, keys, signIn,
                 serving>>

LimitDevice(d) ==
  /\ MayChange /\ Change
  /\ \E globs \in {Windows} \union {{w} : w \in Windows} :
       limits' = [limits EXCEPT ![d] = globs]
  /\ UNCHANGED <<clock, local, localFile, registered, regFile, throttle, used,
                 keys, signIn, serving>>

(* set_accounts with new settings: the accounts are opened again, with     *)
(* verifiers that have no keys and remember no tokens.                     *)
OpenAccounts ==
  /\ local' = localFile
  /\ used' = {}
  /\ keys' = [known |-> FALSE, fetched |-> Never]

SetAccounts ==
  /\ MayChange /\ Change /\ OpenAccounts
  /\ UNCHANGED <<clock, localFile, registered, regFile, limits, throttle,
                 signIn, serving>>

(* The provider signs with a new key: those fetched do not have it.        *)
ProviderRotates ==
  /\ MayChange /\ Change /\ keys.known
  /\ keys' = [keys EXCEPT !.known = FALSE]
  /\ UNCHANGED <<clock, local, localFile, registered, regFile, limits,
                 throttle, used, signIn, serving>>

(* The host is killed, perhaps while it writes the registrations, and      *)
(* starts again: a file that does not parse is no registration.            *)
HostRestarts ==
  /\ MayChange /\ Change
  /\ \E torn \in {regFile.torn, TRUE} :
       /\ regFile' = [regFile EXCEPT !.torn = torn]
       /\ registered' = IF torn THEN [d \in Devices |-> NoRegistration]
                        ELSE regFile.devices
  /\ OpenAccounts
  /\ limits' = [d \in Devices |-> Windows]
  /\ throttle' = [count |-> 0, since |-> Never, until |-> 0]
  /\ signIn' = [d \in Devices |-> NoSignIn]
  /\ serving' = [d \in Devices |-> NotServing]
  /\ UNCHANGED <<clock, localFile>>

Clock ==
  /\ clock < MaxTime
  /\ clock' = clock + 1
  /\ UNCHANGED <<local, localFile, registered, regFile, limits, throttle, used,
                 keys, signIn, serving, seen>>

AccountsNext ==
  \/ \E d \in Devices :
       \/ StartsSignIn(d) \/ ChecksPassword(d) \/ VerifiesToken(d)
       \/ UsesToken(d) \/ SignInGivenUp(d) \/ SignedIn(d) \/ Resumes(d)
       \/ SessionOver(d) \/ Unregister(d) \/ LimitDevice(d)
  \/ \E user \in Users : RemoveAccount(user)
                           \/ \E password \in Passwords : AddAccount(user, password)
  \/ SetAccounts \/ ProviderRotates \/ HostRestarts \/ Clock

AccountsSpec == AccountsInit /\ [][AccountsNext]_accountVars

-----------------------------------------------------------------------------
(* However the sign-ins of the devices overlap, no stretch of time as long *)
(* as the pause sees more than a handful of failures: the throttle is read *)
(* before a check and counts after it, so each device may add one to those *)
(* of two windows that meet (host-core: "a password guesser gets a handful *)
(* of tries a minute").                                                    *)
FailuresWithin(from) ==
  Cardinality({i \in DOMAIN seen.failures :
                 seen.failures[i] \in from..from + SIGN_IN_LOCKOUT - 1})

GuessesAreFew ==
  seen.settings = 0 =>
    \A from \in 0..MaxTime :
      FailuresWithin(from) <= 2 * MAX_SIGN_IN_FAILURES - 1
                                + Cardinality(Devices) - 1

(* A token registers one device only (ACCOUNTS.md), as long as the process *)
(* that remembers the tokens used runs on with the same settings, and until *)
(* the last second a token is valid: it is forgotten as that begins.        *)
Remembers == seen.settings = 0 /\ clock < EXPIRES + LEEWAY

TokenRegistersOneDevice ==
  Remembers => \A t \in Tokens : Cardinality(seen.by[t]) <= 1

-----------------------------------------------------------------------------
(***************************************************************************)
(* Signing in from a client: the offer a host is asked for and the host    *)
(* key the user confirms (client-core, sign_in_options, connect_account;   *)
(* transport, signaling.rs), the token of an OpenID provider, through the  *)
(* browser or with a code entered elsewhere (accounts/oidc.rs), and the    *)
(* Android viewer's flow of them (SignInFlow.kt, SignInPlan.kt).           *)
(*                                                                         *)
(* Each connection to an address may be answered by another machine.  The  *)
(* provider, the browser and the user are external.                        *)
(***************************************************************************)

CONSTANTS
  Machines,      \* host keys that may answer
  WITHIN,        \* how long one wait for the device code lasts
  INTERVAL,      \* the provider's interval between polls
  SLOWER,        \* what slow_down adds to it
  EXPIRY,        \* when the device code expires
  MaxWall,       \* bound: the clock
  MaxFlows       \* bound: sign-ins asked for, hosts forgotten

NoMachine == "no host"

ASSUME FlowAssumption ==
  /\ NoMachine \notin Machines
  /\ {INTERVAL, SLOWER, WITHIN, EXPIRY} \subseteq Nat

VARIABLES
  wall,
  pinnedHosts,  \* Client.trust
  flow,         \* the dialogs: their stage, the host shown and accepted
  attempts,     \* SignInAttempts: the counter and whether one is waiting
  browser,      \* the browser sign-in of each attempt begun
  code,         \* the device-code sign-in
  connecting,   \* connectAccount calls on the worker: the host each accepts
  told          \* history: hosts confirmed, hosts sent a credential, polls

flowVars == <<wall, pinnedHosts, flow, attempts, browser, code, connecting,
              told>>

NoFlow == [stage |-> "none", host |-> NoMachine, accept |-> NoMachine]

NoCode == [phase |-> "none", interval |-> 0, nextPoll |-> 0, expires |-> 0,
           deadline |-> 0, cancelled |-> FALSE, accept |-> NoMachine]

Tries == 1..MaxFlows

FlowInit ==
  /\ wall = 0
  /\ pinnedHosts = {}
  /\ flow = NoFlow
  /\ attempts = [counter |-> 0, waiting |-> FALSE]
  /\ browser = [a \in Tries |-> [phase |-> "none", accept |-> NoMachine]]
  /\ code = NoCode
  /\ connecting = {}
  /\ told = [flows |-> 0, confirmed |-> {}, sent |-> {}, lastPoll |-> 0,
             tooSoon |-> FALSE, stale |-> FALSE]

-----------------------------------------------------------------------------
(* signInOptions: the host that answers is asked for its offer, and says   *)
(* which key it has.                                                       *)
OfferedBy(h) == [stage |-> IF h \in pinnedHosts THEN "choose" ELSE "confirm",
                 host |-> h, accept |-> NoMachine]

(* signIn: no answer, or one whose signature is wrong, leaves the flow.    *)
AsksForOffer ==
  /\ flow.stage = "none" /\ told.flows < MaxFlows
  /\ told' = [told EXCEPT !.flows = @ + 1]
  /\ flow' \in {flow} \union {OfferedBy(h) : h \in Machines}
  /\ UNCHANGED <<wall, pinnedHosts, attempts, browser, code, connecting>>

(* confirmHost: the user compares the fingerprint with the host's.         *)
ConfirmsHost ==
  /\ flow.stage = "confirm"
  /\ \/ /\ flow' = [flow EXCEPT !.stage = "choose", !.accept = flow.host]
        /\ told' = [told EXCEPT !.confirmed = @ \union {flow.host}]
     \/ /\ flow' = NoFlow
        /\ UNCHANGED told
  /\ UNCHANGED <<wall, pinnedHosts, attempts, browser, code, connecting>>

(* chooseSignIn: a password, the browser, a code, or none of the methods   *)
(* the host takes.                                                         *)
ChoosesPassword ==
  /\ flow.stage = "choose"
  /\ flow' = NoFlow
  /\ connecting' \in {connecting, connecting \union {flow.accept}}
  /\ UNCHANGED <<wall, pinnedHosts, attempts, browser, code, told>>

-----------------------------------------------------------------------------
(* browserSignIn begins an attempt; its page is opened and its token       *)
(* awaited on the sign-in worker (BrowserSignIn::start), one at a time.    *)
WorkerIsFree(a) ==
  /\ \A b \in 1..a - 1 : browser[b].phase # "waiting"
  /\ code.phase \in {"none", "token"}

BeginsBrowser ==
  /\ flow.stage = "choose" /\ attempts.counter < MaxFlows
  /\ attempts' = [counter |-> attempts.counter + 1, waiting |-> TRUE]
  /\ browser' = [browser EXCEPT ![attempts.counter + 1] =
                   [phase |-> "waiting", accept |-> flow.accept]]
  /\ flow' = NoFlow
  /\ UNCHANGED <<wall, pinnedHosts, code, connecting, told>>

(* BrowserSignIn::finish: requests that are not its callback, or not of    *)
(* its state, are answered and it waits on; a callback brings the code,    *)
(* exchanged for the token, or the provider's refusal; or time is up.  The *)
(* result is posted to the main thread.                                    *)
BrowserFinishes(a) ==
  /\ browser[a].phase = "waiting" /\ WorkerIsFree(a)
  /\ \E result \in {"token", "failed"} :
       browser' = [browser EXCEPT ![a].phase = result]
  /\ UNCHANGED <<wall, pinnedHosts, flow, attempts, code, connecting, told>>

IsCurrent(a) == attempts.counter = a

(* A result taken whatever has happened since its attempt began.           *)
AnyWaiting(a) == attempts.waiting

TakesResult(a) == IsCurrent(a)

(* Back on the main thread: an attempt given up or followed by another     *)
(* changes nothing; the current one connects or says why not.              *)
BrowserPosted(a) ==
  /\ browser[a].phase \in {"token", "failed"}
  /\ browser' = [browser EXCEPT ![a].phase = "none"]
  /\ IF ~TakesResult(a) THEN UNCHANGED <<attempts, connecting, told>>
     ELSE IF browser[a].phase = "token"
     THEN /\ attempts' = [attempts EXCEPT !.waiting = FALSE]
          /\ connecting' = connecting \union {browser[a].accept}
          /\ told' = [told EXCEPT !.stale = @ \/ ~IsCurrent(a)]
     ELSE /\ attempts' = [counter |-> attempts.counter + 1, waiting |-> FALSE]
          /\ UNCHANGED <<connecting, told>>
  /\ UNCHANGED <<wall, pinnedHosts, flow, code>>

(* giveUpBrowserSignIn: Cancel; the worker waits on for its page.          *)
CancelsBrowser ==
  /\ attempts.waiting
  /\ attempts' = [counter |-> attempts.counter + 1, waiting |-> FALSE]
  /\ UNCHANGED <<wall, pinnedHosts, flow, browser, code, connecting, told>>

-----------------------------------------------------------------------------
(* deviceSignIn: DeviceSignIn::start asks the provider for a code.         *)
BeginsCode ==
  /\ flow.stage = "choose" /\ WorkerIsFree(MaxFlows + 1)
  /\ flow' = NoFlow
  /\ \/ /\ code' = [phase |-> "idle", interval |-> INTERVAL,
                    nextPoll |-> wall + INTERVAL, expires |-> wall + EXPIRY,
                    deadline |-> 0, cancelled |-> FALSE,
                    accept |-> flow.accept]
        /\ told' = [told EXCEPT !.lastPoll = wall]
     \/ UNCHANGED <<code, told>>
  /\ UNCHANGED <<wall, pinnedHosts, attempts, browser, connecting>>

(* awaitDeviceSignIn: one wait after another until there is a token or the *)
(* user cancels.                                                           *)
CodeWaits ==
  /\ code.phase = "idle" /\ ~code.cancelled
  /\ code' = [code EXCEPT !.phase = "waiting", !.deadline = wall + WITHIN]
  /\ UNCHANGED <<wall, pinnedHosts, flow, attempts, browser, connecting, told>>

(* DeviceSignIn::wait: expired, no poll due within this wait, or a poll.   *)
CodeExpires ==
  /\ code.phase = "waiting" /\ wall >= code.expires
  /\ code' = NoCode
  /\ UNCHANGED <<wall, pinnedHosts, flow, attempts, browser, connecting, told>>

CodeWaitOver ==
  /\ code.phase = "waiting" /\ wall < code.expires
  /\ code.nextPoll > code.deadline /\ wall >= code.deadline
  /\ code' = [code EXCEPT !.phase = "idle"]
  /\ UNCHANGED <<wall, pinnedHosts, flow, attempts, browser, connecting, told>>

(* After slow_down the next poll is the new interval away.                 *)
Slower == [code EXCEPT !.interval = @ + SLOWER,
                       !.nextPoll = wall + code.interval + SLOWER]

SlowsDown == Slower

AfterPoll(next) ==
  [next EXCEPT !.phase = IF wall >= code.deadline THEN "idle" ELSE "waiting"]

CodePolls ==
  /\ code.phase = "waiting" /\ wall < code.expires /\ wall >= code.nextPoll
  /\ told' = [told EXCEPT !.lastPoll = wall,
                          !.tooSoon = @ \/ wall < told.lastPoll + code.interval]
  /\ \/ code' = AfterPoll([code EXCEPT !.nextPoll = wall + code.interval])
     \/ code' = AfterPoll(SlowsDown)
     \/ code' = [code EXCEPT !.phase = "token"]
     \/ code' = NoCode                      \* refused, or no answer
  /\ UNCHANGED <<wall, pinnedHosts, flow, attempts, browser, connecting>>

CancelsCode ==
  /\ code.phase # "none" /\ ~code.cancelled
  /\ code' = [code EXCEPT !.cancelled = TRUE]
  /\ UNCHANGED <<wall, pinnedHosts, flow, attempts, browser, connecting, told>>

(* The loop is left: a token connects, even one that came as the user      *)
(* cancelled; none says the sign-in is cancelled.                          *)
CodePosted ==
  /\ \/ /\ code.phase = "token"
        /\ connecting' = connecting \union {code.accept}
     \/ /\ code.phase = "idle" /\ code.cancelled
        /\ UNCHANGED connecting
  /\ code' = NoCode
  /\ UNCHANGED <<wall, pinnedHosts, flow, attempts, browser, told>>

-----------------------------------------------------------------------------
(* connect in Account mode: the credential is made and sent only to a host *)
(* that is trusted or is the one accepted; a signed-in host is pinned.     *)
MaySend(h, accept) == h \in pinnedHosts \/ h = accept

SendsTo(h, accept) == MaySend(h, accept)

ConnectsAccount ==
  \E accept \in connecting :
    /\ connecting' = connecting \ {accept}
    /\ \/ UNCHANGED <<pinnedHosts, told>>
       \/ \E h \in Machines :
            /\ SendsTo(h, accept)
            /\ told' = [told EXCEPT !.sent = @ \union {h}]
            /\ pinnedHosts' \in {pinnedHosts, pinnedHosts \union {h}}
    /\ UNCHANGED <<wall, flow, attempts, browser, code>>

(* The user removes a host from the trusted ones.                          *)
ForgetsHost ==
  /\ told.flows < MaxFlows
  /\ \E h \in pinnedHosts : pinnedHosts' = pinnedHosts \ {h}
  /\ told' = [told EXCEPT !.flows = @ + 1]
  /\ UNCHANGED <<wall, flow, attempts, browser, code, connecting>>

WallClock ==
  /\ wall < MaxWall /\ code.phase # "none"
  /\ wall' = wall + 1
  /\ UNCHANGED <<pinnedHosts, flow, attempts, browser, code, connecting, told>>

FlowNext ==
  \/ AsksForOffer \/ ConfirmsHost \/ ChoosesPassword
  \/ BeginsBrowser \/ CancelsBrowser
  \/ \E a \in Tries : BrowserFinishes(a) \/ BrowserPosted(a)
  \/ BeginsCode \/ CodeWaits \/ CodeExpires \/ CodeWaitOver \/ CodePolls
  \/ CancelsCode \/ CodePosted
  \/ ConnectsAccount \/ ForgetsHost \/ WallClock

FlowSpec == FlowInit /\ [][FlowNext]_flowVars

-----------------------------------------------------------------------------
(* Whatever machine answers each connection, a credential goes only to one *)
(* whose key the user confirmed: in this flow, or before, when it was      *)
(* pinned (ACCOUNTS.md, "The client must know the host first").            *)
CredentialsGoToKnownHosts == told.sent \subseteq told.confirmed

(* The provider is never polled before its interval, slow_down included,   *)
(* has passed, and a token from an attempt that was given up or followed   *)
(* by another signs nobody in.                                             *)
PollsAreSpaced == ~told.tooSoon
NoStaleToken == ~told.stale

(* Signing in, at both ends: guesses are few and a token registers one     *)
(* device (host-core lib.rs, registrations.rs); a credential goes only to  *)
(* a host the user confirmed, the provider is not polled too soon, and no  *)
(* token of an attempt that is over signs anybody in (SignInFlow.kt).      *)
SignInsAreSound ==
  /\ GuessesAreFew
  /\ TokenRegistersOneDevice
  /\ CredentialsGoToKnownHosts
  /\ PollsAreSpaced
  /\ NoStaleToken
=============================================================================
