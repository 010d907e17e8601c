------------------------------ MODULE Sessions ------------------------------
(***************************************************************************)
(* Who may command the operator: the identity tables                       *)
(* (src/src/core/identity/index.ts), the web server's login, logout and    *)
(* chat routes (src/src/web/server.ts), the bearer check of                *)
(* OperatorApiHandler and the profile check of OwnerCommandReceiver.       *)
(* Between two awaits a handler is one step; the login waits for the       *)
(* provider, a chat request for its body and then for its command.  The    *)
(* tables survive the process, OAuth states and requests do not.           *)
(***************************************************************************)
EXTENDS Naturals

CONSTANTS
    Owner,       \* owner ids
    LoginOwner,  \* the one a login is mapped to
    Account,     \* user id of the migrated, authorized account
    Configured,  \* the bearer token of the configuration
    LoginToken,  \* random tokens of login sessions
    State,       \* random OAuth states
    Request,     \* requests that may be under way at once
    None,        \* no token, no state
    MaxStarts    \* bound on the starts of the process

Token == {Configured} \cup LoginToken
User == Owner \cup {Account}

ASSUME SessionsAssumption ==
    /\ LoginOwner \in Owner /\ Account \notin Owner
    /\ Configured \notin LoginToken
    /\ None \notin Token \cup State
    /\ MaxStarts \in Nat

VARIABLES
    phase,    \* of the process
    profile,  \* the owner it was started for
    starts,
    status,   \* user_identities.status; NONE is a missing row
    member,   \* users with an ACTIVE membership of the workspace
    session,  \* sessions: no row, a row before its expires_at, a row after it
    userOf,   \* user_id of the row
    ownerOf,  \* owner_id of the row
    states,   \* authStates, in memory
    pc,       \* per request: what it waits for
    oauth,    \* the state a callback came with
    sent,     \* the tokens in the cookie and the header of a chat request
    owner,    \* the owner of its command
    seen,     \* history: states handed out
    origin,   \* history: the state a login session was opened for
    ended     \* history: tokens whose session was revoked or has expired

processVars == <<phase, profile, starts>>
userVars == <<status, member>>
rowVars == <<session, userOf, ownerOf>>
requestVars == <<pc, oauth, sent, owner>>
vars == <<processVars, userVars, rowVars, states, requestVars, seen, origin, ended>>
-----------------------------------------------------------------------------
TypeOK ==
    /\ phase \in {"down", "up", "stopping"}
    /\ profile \in Owner /\ starts \in 0..MaxStarts
    /\ status \in [User -> {"NONE", "ACTIVE", "DISABLED"}]
    /\ member \subseteq User
    /\ session \in [Token -> {"none", "live", "lapsed"}]
    /\ userOf \in [Token -> User] /\ ownerOf \in [Token -> Owner]
    /\ states \subseteq State
    /\ pc \in [Request -> {"idle", "exchange", "body", "command"}]
    /\ oauth \in [Request -> State \cup {None}]
    /\ sent \in [Request -> SUBSET Token]
    /\ owner \in [Request -> Owner \cup {None}]
    /\ seen \subseteq State
    /\ origin \in [LoginToken -> State \cup {None}]
    /\ ended \subseteq Token

Init ==
    /\ phase = "down" /\ profile = LoginOwner /\ starts = 0
    /\ status = [u \in User |-> "NONE"] /\ member = {}
    /\ session = [t \in Token |-> "none"]
    /\ userOf = [t \in Token |-> Account]
    /\ ownerOf = [t \in Token |-> LoginOwner]
    /\ states = {}
    /\ pc = [r \in Request |-> "idle"]
    /\ oauth = [r \in Request |-> None]
    /\ sent = [r \in Request |-> {}]
    /\ owner = [r \in Request |-> None]
    /\ seen = {}
    /\ origin = [t \in LoginToken |-> None]
    /\ ended = {}
-----------------------------------------------------------------------------
(* The identity tables. *)

\* Users that are created, ACTIVE, unless they are there.
AddUsers(U) ==
    status' = [u \in User |-> IF u \in U /\ status[u] = "NONE" THEN "ACTIVE" ELSE status[u]]

\* createSession: a row with a new time to live.
OpenSession(t, u, o) ==
    /\ session' = [session EXCEPT ![t] = "live"]
    /\ userOf' = [userOf EXCEPT ![t] = u]
    /\ ownerOf' = [ownerOf EXCEPT ![t] = o]

\* getSession deletes the rows it finds expired.
Reap(T) ==
    session' = [t \in Token |-> IF t \in T /\ session[t] = "lapsed" THEN "none" ELSE session[t]]

\* What getSession of the server finds.
Active(t) == session[t] = "live" /\ status[userOf[t]] = "ACTIVE"

\* Tokens that somebody can send.
Known == {Configured} \cup {t \in LoginToken : origin[t] # None}

\* The session expires with time.
Lapse(t) ==
    /\ session[t] = "live"
    /\ session' = [session EXCEPT ![t] = "lapsed"]
    /\ ended' = ended \cup {t}
    /\ UNCHANGED <<processVars, userVars, userOf, ownerOf, states, requestVars, seen, origin>>

\* Users and memberships are withdrawn, and users allowed again, in the database.
Administrate(u) ==
    /\ status[u] # "NONE"
    /\ \/ /\ status' \in {[status EXCEPT ![u] = s] : s \in {"ACTIVE", "DISABLED"}}
          /\ UNCHANGED member
       \/ /\ member' = member \ {u}
          /\ UNCHANGED status
    /\ UNCHANGED <<processVars, rowVars, states, requestVars, seen, origin, ended>>
-----------------------------------------------------------------------------
(* The process. *)

\* bootstrapOperatorApplication and the constructor of the server: the profile
\* is set, a configured token is registered (a row that is there and has not
\* expired stays as it is), the account migrated.  Both renew memberships.
Start(o, configured) ==
    LET arrived == {Account} \cup (IF configured THEN {o} ELSE {}) IN
    /\ phase = "down" /\ starts < MaxStarts
    /\ phase' = "up" /\ profile' = o /\ starts' = starts + 1
    /\ AddUsers(arrived)
    /\ member' = member \cup arrived
    /\ IF configured /\ session[Configured] # "live"
       THEN OpenSession(Configured, o, o) /\ ended' = ended \ {Configured}
       ELSE UNCHANGED <<rowVars, ended>>
    /\ UNCHANGED <<states, requestVars, seen, origin>>

\* What a process that is gone takes with it.
Forget ==
    /\ phase' = "down"
    /\ states' = {}
    /\ pc' = [r \in Request |-> "idle"]
    /\ oauth' = [r \in Request |-> None]
    /\ sent' = [r \in Request |-> {}]
    /\ owner' = [r \in Request |-> None]
    /\ UNCHANGED <<profile, starts, userVars, rowVars, seen, origin, ended>>

Crash == phase # "down" /\ Forget

\* stop: no request is accepted any more, those under way end first.
Stop ==
    /\ phase = "up"
    /\ phase' = "stopping"
    /\ UNCHANGED <<profile, starts, userVars, rowVars, states, requestVars, seen, origin, ended>>

Stopped ==
    /\ phase = "stopping"
    /\ \A r \in Request : pc[r] = "idle"
    /\ Forget
-----------------------------------------------------------------------------
(* Login. *)

\* The request is answered.
End(r) ==
    /\ pc' = [pc EXCEPT ![r] = "idle"]
    /\ oauth' = [oauth EXCEPT ![r] = None]
    /\ sent' = [sent EXCEPT ![r] = {}]
    /\ owner' = [owner EXCEPT ![r] = None]

\* GET /auth/google
LoginStart(s) ==
    /\ phase = "up"
    /\ s \notin seen
    /\ states' = states \cup {s} /\ seen' = seen \cup {s}
    /\ UNCHANGED <<processVars, userVars, rowVars, requestVars, origin, ended>>

\* Mutant: the state is not deleted.
CallbackKeepsState(r, s) ==
    /\ phase = "up" /\ pc[r] = "idle"
    /\ s \in states
    /\ pc' = [pc EXCEPT ![r] = "exchange"]
    /\ oauth' = [oauth EXCEPT ![r] = s]
    /\ UNCHANGED <<processVars, userVars, rowVars, states, sent, owner, seen, origin, ended>>

\* GET /auth/google/callback: the state is looked up and deleted before the
\* code is exchanged and the id token verified.
Callback(r, s) ==
    /\ phase = "up" /\ pc[r] = "idle"
    /\ s \in states
    /\ states' = states \ {s}
    /\ pc' = [pc EXCEPT ![r] = "exchange"]
    /\ oauth' = [oauth EXCEPT ![r] = s]
    /\ UNCHANGED <<processVars, userVars, rowVars, sent, owner, seen, origin, ended>>

\* The exchange or the verification fails, another account logs in, or the
\* user is disabled: nothing but the provider binding is written.
LoginFails(r) ==
    /\ pc[r] = "exchange"
    /\ End(r)
    /\ UNCHANGED <<processVars, userVars, rowVars, states, seen, origin, ended>>

\* createSession of the server: the session is the account's, the owner the
\* one it is mapped to, and registerBearerToken makes that owner a user and a
\* member; it finds the session there.
Login(r, t) ==
    /\ pc[r] = "exchange"
    /\ t \in LoginToken \ Known
    /\ status[Account] = "ACTIVE"
    /\ OpenSession(t, Account, LoginOwner)
    /\ AddUsers({LoginOwner})
    /\ member' = member \cup {LoginOwner}
    /\ origin' = [origin EXCEPT ![t] = oauth[r]]
    /\ End(r)
    /\ UNCHANGED <<processVars, states, seen, ended>>
-----------------------------------------------------------------------------
(* Logout and /auth/me. *)

\* extractSessionFromRequest: the cookie goes before the header.
Chosen(c, b) == IF c # None THEN c ELSE b

\* Mutant: only the cookie is cleared.
LogoutClearsCookie(c, b) ==
    LET t == Chosen(c, b) IN
    /\ phase # "down" /\ t \in Token
    /\ session[t] = "lapsed" \/ Active(t)
    /\ ended' = ended \cup {t}
    /\ UNCHANGED <<processVars, userVars, rowVars, states, requestVars, seen, origin>>

\* POST /auth/logout answers success in any case; the row of a disabled user
\* stays where it is.
Logout(c, b) ==
    LET t == Chosen(c, b) IN
    /\ phase # "down" /\ t \in Token
    /\ session[t] = "lapsed" \/ Active(t)
    /\ session' = [session EXCEPT ![t] = "none"]
    /\ ended' = ended \cup {t}
    /\ UNCHANGED <<processVars, userVars, userOf, ownerOf, states, requestVars, seen, origin>>

AuthMe(c, b) ==
    LET t == Chosen(c, b) IN
    /\ phase # "down" /\ t \in Token
    /\ session[t] = "lapsed"
    /\ Reap({t})
    /\ UNCHANGED <<processVars, userVars, userOf, ownerOf, states, requestVars,
                   seen, origin, ended>>
-----------------------------------------------------------------------------
(* POST /api/v1/operator/chat *)

Arrive(r, c, b) ==
    /\ phase = "up" /\ pc[r] = "idle"
    /\ pc' = [pc EXCEPT ![r] = "body"]
    /\ sent' = [sent EXCEPT ![r] = {c, b} \ {None}]
    /\ UNCHANGED <<processVars, userVars, rowVars, states, oauth, owner, seen, origin, ended>>

\* Two credentials must name one session; one is taken as it is.
Credentials(r, t) == sent[r] = {t}

\* getAuthenticatedOwnerId: the session, its user and the membership.
Authenticated(t) == Active(t) /\ userOf[t] \in member

\* receiveCommand compares the owner with the profile of the process.
Served(t) == ownerOf[t] = profile

\* Mutant: the profile is not compared.
ReceiveAnyOwner(r, t) ==
    /\ pc[r] = "body"
    /\ Credentials(r, t)
    /\ Authenticated(t)
    /\ pc' = [pc EXCEPT ![r] = "command"]
    /\ owner' = [owner EXCEPT ![r] = ownerOf[t]]
    /\ UNCHANGED <<processVars, userVars, rowVars, states, oauth, sent, seen, origin, ended>>

\* The body is read, the session is good for the workspace, the owner in the
\* body is not another one: the command is interpreted and carried out.
Receive(r, t) ==
    /\ pc[r] = "body"
    /\ Credentials(r, t)
    /\ Authenticated(t) /\ Served(t)
    /\ pc' = [pc EXCEPT ![r] = "command"]
    /\ owner' = [owner EXCEPT ![r] = ownerOf[t]]
    /\ UNCHANGED <<processVars, userVars, rowVars, states, oauth, sent, seen, origin, ended>>

\* Any other answer, before or after the credentials were looked up.
Refuse(r) ==
    /\ pc[r] = "body"
    /\ End(r)
    /\ \E T \in {{}, sent[r]} : Reap(T)
    /\ UNCHANGED <<processVars, userVars, userOf, ownerOf, states, seen, origin, ended>>

\* The command ends, or fails and is answered with 500.
Answer(r) ==
    /\ pc[r] = "command"
    /\ End(r)
    /\ UNCHANGED <<processVars, userVars, rowVars, states, seen, origin, ended>>
-----------------------------------------------------------------------------
\* The tokens a browser or a program sends, if any.
Sendable == Known \cup {None}

Next ==
    \/ \E o \in Owner, configured \in BOOLEAN : Start(o, configured)
    \/ Crash \/ Stop \/ Stopped
    \/ \E s \in State : LoginStart(s)
    \/ \E c, b \in Sendable : Logout(c, b) \/ AuthMe(c, b)
    \/ \E r \in Request :
          \/ \E s \in State : Callback(r, s)
          \/ LoginFails(r)
          \/ \E t \in LoginToken : Login(r, t)
          \/ \E c, b \in Sendable : Arrive(r, c, b)
          \/ \E t \in Token : Receive(r, t)
          \/ Refuse(r)
          \/ Answer(r)
    \/ \E t \in Token : Lapse(t)
    \/ \E u \in User : Administrate(u)

Spec == Init /\ [][Next]_vars
-----------------------------------------------------------------------------
(* Properties. *)

\* No command is taken under a session that was revoked or has expired, even
\* if the request had begun before and even by a process started since.  (The
\* configured token gets a new session at the start that finds it without one.)
EndedStaysEnded ==
    [][\A r \in Request : pc[r] = "body" /\ pc'[r] = "command"
           => sent[r] \cap ended = {}]_vars

\* However often a callback is delivered, and whatever else goes on while the
\* code is exchanged, one OAuth state opens at most one session.
OneSessionPerState ==
    \A t1, t2 \in LoginToken : origin[t1] = origin[t2] /\ origin[t1] # None => t1 = t2

\* A command under way is the command of the owner the running process serves,
\* though sessions outlive the process that opened them, and nothing the
\* request was sent with names another session.
CommandForOwner ==
    \A r \in Request :
        pc[r] = "command" => owner[r] = profile /\ \E t \in Token : sent[r] = {t}
=============================================================================
