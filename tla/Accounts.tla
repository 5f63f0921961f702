------------------------------ MODULE Accounts ------------------------------
(***************************************************************************)
(* Accounts and sessions: registration, login and logout of                *)
(* internal/handlers/auth.go, the two forms of internal/handlers/settings  *)
(* and the session map of internal/auth/session.go, which a restart of the *)
(* server empties.  A step is one SQL statement or one critical section of *)
(* the map with the local code after it, or the arrival of an answer that  *)
(* sets the cookie.  A form that local validation refuses reaches neither  *)
(* and is left out, like names and roles, which nothing here depends on.   *)
(***************************************************************************)
EXTENDS Integers, Sequences

CONSTANTS
    Request,        \* requests that may be in progress at the same time
    Browser,        \* cookie jars
    Mailbox,        \* addresses regardless of case
    Password,       \* a hash stands for the password it verifies
    Life,           \* lifetime of a session (7 days)
    MaxUsers,       \* bound: accounts ever made
    MaxTokens,      \* bound: sessions ever opened
    MaxChanges,     \* bound: passwords an account ever has
    MaxTime         \* bound: the clock stops here

ASSUME AccountsAssumption == Life \in Nat

VARIABLES
    users,          \* existing account -> row
    lastUser,       \* accounts are named in the order of insertion
    store,          \* Manager.store: token -> session
    lastToken,      \* tokens are random: each is new, after a restart too
    cookie,         \* browser -> token, 0 when it has none
    now,
    req,            \* request -> its state, [pc |-> "idle"] when unused
    past,           \* history: account -> the passwords it has had, in order
    ended           \* history: token -> what took it out of the store

vars == <<users, lastUser, store, lastToken, cookie, now, req, past, ended>>
accounts == <<users, lastUser, past>>
sessions == <<store, lastToken, ended>>

\* An address as it is typed: a mailbox in lower or in mixed case.
Email == [box: Mailbox, lower: BOOLEAN]

\* Mutant: an address is kept as typed.
LowerNot(e) == e

\* strings.ToLower, which all three forms apply before any statement.
Lower(e) == [e EXCEPT !.lower = TRUE]

User == [email: [box: Mailbox, lower: {TRUE}], password: Password]
Session == [user: Nat, expires: Nat]

IdleReq     == [pc: {"idle"}]
LoginReq    == [pc: {"loginFind"}, browser: Browser, email: Email, password: Password]
RegisterReq == [pc: {"exists", "insert"}, browser: Browser, email: Email, password: Password]
OpenReq     == [pc: {"open"}, browser: Browser, user: Nat]
ReplyReq    == [pc: {"reply"}, browser: Browser, token: Nat]
LogoutReq   == [pc: {"logout"}, browser: Browser, token: Nat]
ProfileReq  == [pc: {"session", "load", "taken", "saveProfile"}, form: {"profile"},
                token: Nat, user: Nat, email: Email]
PasswordReq == [pc: {"session", "load", "savePassword"}, form: {"password"},
                token: Nat, user: Nat, current: Password, new: Password, seen: Nat]

AccountsTypeOK ==
    /\ lastUser \in Nat /\ lastToken \in Nat /\ now \in Nat
    /\ users \in [1 .. lastUser -> User]
    /\ DOMAIN store \subseteq 1 .. lastToken
    /\ store \in [DOMAIN store -> Session]
    /\ cookie \in [Browser -> 0 .. lastToken]
    /\ req \in [Request -> IdleReq \cup LoginReq \cup RegisterReq \cup OpenReq \cup ReplyReq
                           \cup LogoutReq \cup ProfileReq \cup PasswordReq]
    /\ past \in [1 .. lastUser -> Seq(Password)]
    /\ DOMAIN ended \subseteq 1 .. lastToken
    /\ \A t \in DOMAIN store : store[t].user \in DOMAIN users

\* The seed: one account, the administrator's.
Init ==
    /\ \E e \in Email, p \in Password :
          /\ e.lower
          /\ users = [u \in {1} |-> [email |-> e, password |-> p]]
          /\ past = [u \in {1} |-> <<p>>]
    /\ lastUser = 1
    /\ store = [t \in {} |-> {}]
    /\ lastToken = 0
    /\ cookie = [b \in Browser |-> 0]
    /\ now = 0
    /\ req = [r \in Request |-> [pc |-> "idle"]]
    /\ ended = [t \in {} |-> {}]

-----------------------------------------------------------------------------
At(r, pc) == req[r].pc = pc

Become(r, state) == req' = [req EXCEPT ![r] = state]

Begin(r, state) == At(r, "idle") /\ Become(r, state) /\ UNCHANGED <<accounts, sessions, cookie, now>>

Goto(r, pc) == req' = [req EXCEPT ![r].pc = pc]

Answer(r) == Become(r, [pc |-> "idle"])

\* f with x mapped to v, x new or not.
With(f, x, v) == [y \in DOMAIN f \cup {x} |-> IF y = x THEN v ELSE f[y]]

-----------------------------------------------------------------------------
(* UserRepo *)

\* users.email is UNIQUE: the address may be written to row u (0: to a new one).
EmailKey(e, u) == \A v \in DOMAIN users \ {u} : users[v].email # e

\* At most one row, by the key.
FindByEmail(e) == {u \in DOMAIN users : users[u].email = e}

EmailExists(e) == \E u \in DOMAIN users : users[u].email = e

EmailTakenByOther(e, u) == \E v \in DOMAIN users \ {u} : users[v].email = e

\* Mutant: no key on the address, EmailExists is the only guard.
CreateUserUnkeyed(e, p) ==
    /\ users' = With(users, lastUser + 1, [email |-> e, password |-> p])
    /\ past' = With(past, lastUser + 1, <<p>>)
    /\ lastUser' = lastUser + 1

CreateUser(e, p) ==
    /\ EmailKey(e, 0)
    /\ users' = With(users, lastUser + 1, [email |-> e, password |-> p])
    /\ past' = With(past, lastUser + 1, <<p>>)
    /\ lastUser' = lastUser + 1

UpdateProfile(u, e) ==
    /\ EmailKey(e, u)
    /\ users' = [users EXCEPT ![u].email = e]
    /\ UNCHANGED <<lastUser, past>>

\* The password it replaces is not asked for.
UpdatePassword(u, p) ==
    /\ users' = [users EXCEPT ![u].password = p]
    /\ past' = [past EXCEPT ![u] = Append(@, p)]
    /\ UNCHANGED lastUser

-----------------------------------------------------------------------------
(* POST /login and /register *)

BeginLogin(r, b, e, p) ==
    Begin(r, [pc |-> "loginFind", browser |-> b, email |-> Lower(e), password |-> p])

\* FindByEmail and VerifyPassword.
FindLogin(r) ==
    LET known == {u \in FindByEmail(req[r].email) : users[u].password = req[r].password} IN
    /\ At(r, "loginFind")
    /\ \/ \E u \in known : Become(r, [pc |-> "open", browser |-> req[r].browser, user |-> u])
       \/ known = {} /\ Answer(r)
    /\ UNCHANGED <<accounts, sessions, cookie, now>>

BeginRegister(r, b, e, p) ==
    Begin(r, [pc |-> "exists", browser |-> b, email |-> Lower(e), password |-> p])

CheckExists(r) ==
    /\ At(r, "exists")
    /\ IF EmailExists(req[r].email) THEN Answer(r) ELSE Goto(r, "insert")
    /\ UNCHANGED <<accounts, sessions, cookie, now>>

\* The key refuses the second of two registrations that both passed the check.
InsertUser(r) ==
    /\ At(r, "insert")
    /\ lastUser < MaxUsers
    /\ \/ /\ CreateUser(req[r].email, req[r].password)
          /\ Become(r, [pc |-> "open", browser |-> req[r].browser, user |-> lastUser'])
       \/ ~EmailKey(req[r].email, 0) /\ UNCHANGED accounts /\ Answer(r)
    /\ UNCHANGED <<sessions, cookie, now>>

RegisterStep(r) == CheckExists(r) \/ InsertUser(r)

\* Manager.Login: the session is in the map before its cookie is sent.
OpenSession(r) ==
    LET t == lastToken + 1 IN
    /\ At(r, "open")
    /\ lastToken < MaxTokens
    /\ store' = With(store, t, [user |-> req[r].user, expires |-> now + Life])
    /\ lastToken' = t
    /\ Become(r, [pc |-> "reply", browser |-> req[r].browser, token |-> t])
    /\ UNCHANGED <<accounts, ended, cookie, now>>

\* The answer arrives: answers of one browser may overtake each other.
Reply(r) ==
    /\ At(r, "reply")
    /\ cookie' = [cookie EXCEPT ![req[r].browser] = req[r].token]
    /\ Answer(r)
    /\ UNCHANGED <<accounts, sessions, now>>

-----------------------------------------------------------------------------
(* /logout: Manager.Logout *)

BeginLogout(r, b) == Begin(r, [pc |-> "logout", browser |-> b, token |-> cookie[b]])

\* Mutant: the cookie is cleared, the session stays.
DropSessionKept(r) ==
    LET t == req[r].token IN
    /\ At(r, "logout")
    /\ UNCHANGED store
    /\ ended' = IF t \in DOMAIN store THEN With(ended, t, "logout") ELSE ended
    /\ Become(r, [pc |-> "reply", browser |-> req[r].browser, token |-> 0])
    /\ UNCHANGED <<accounts, lastToken, cookie, now>>

\* Mutant: every session of the user goes, not this one only.
DropSessionAll(r) ==
    LET t == req[r].token IN
    /\ At(r, "logout")
    /\ store' = [s \in {s \in DOMAIN store : ~(t \in DOMAIN store /\ store[s].user = store[t].user)}
                    |-> store[s]]
    /\ ended' = IF t \in DOMAIN store THEN With(ended, t, "logout") ELSE ended
    /\ Become(r, [pc |-> "reply", browser |-> req[r].browser, token |-> 0])
    /\ UNCHANGED <<accounts, lastToken, cookie, now>>

DropSession(r) ==
    LET t == req[r].token IN
    /\ At(r, "logout")
    /\ store' = [s \in DOMAIN store \ {t} |-> store[s]]
    /\ ended' = IF t \in DOMAIN store THEN With(ended, t, "logout") ELSE ended
    /\ Become(r, [pc |-> "reply", browser |-> req[r].browser, token |-> 0])
    /\ UNCHANGED <<accounts, lastToken, cookie, now>>

-----------------------------------------------------------------------------
(* POST /settings behind requireUser: the profile and the password form *)

BeginProfile(r, b, e) ==
    Begin(r, [pc |-> "session", form |-> "profile", token |-> cookie[b], user |-> 0,
              email |-> Lower(e)])

BeginPassword(r, b, old, p) ==
    Begin(r, [pc |-> "session", form |-> "password", token |-> cookie[b], user |-> 0,
              current |-> old, new |-> p, seen |-> 0])

\* Manager.CurrentUserID: a session is good up to and including its last moment.
CheckSession(r) ==
    LET t == req[r].token IN
    /\ At(r, "session")
    /\ IF t \in DOMAIN store /\ now <= store[t].expires
       THEN req' = [req EXCEPT ![r].pc = "load", ![r].user = store[t].user]
       ELSE Answer(r)
    /\ UNCHANGED <<accounts, sessions, cookie, now>>

\* withUser reads the row and the profile form compares the address with it:
\* an address the user has already is not looked for again.
LoadForProfile(r) ==
    /\ At(r, "load") /\ req[r].form = "profile"
    /\ Goto(r, IF req[r].email = users[req[r].user].email THEN "saveProfile" ELSE "taken")
    /\ UNCHANGED <<accounts, sessions, cookie, now>>

CheckTaken(r) ==
    /\ At(r, "taken")
    /\ IF EmailTakenByOther(req[r].email, req[r].user) THEN Answer(r) ELSE Goto(r, "saveProfile")
    /\ UNCHANGED <<accounts, sessions, cookie, now>>

\* The UPDATE fails if another row has the address by now.
SaveProfile(r) ==
    LET q == req[r] IN
    /\ At(r, "saveProfile")
    /\ UpdateProfile(q.user, q.email) \/ (~EmailKey(q.email, q.user) /\ UNCHANGED accounts)
    /\ Answer(r)
    /\ UNCHANGED <<sessions, cookie, now>>

ProfileStep(r) == LoadForProfile(r) \/ CheckTaken(r) \/ SaveProfile(r)

\* Mutant: the current password is not asked for.
LoadForPasswordUnverified(r) ==
    LET u == req[r].user IN
    /\ At(r, "load") /\ req[r].form = "password"
    /\ req' = [req EXCEPT ![r].pc = "savePassword", ![r].seen = Len(past[u])]
    /\ UNCHANGED <<accounts, sessions, cookie, now>>

\* withUser reads the row and the password form verifies its hash.
LoadForPassword(r) ==
    LET u == req[r].user IN
    /\ At(r, "load") /\ req[r].form = "password"
    /\ IF users[u].password = req[r].current
       THEN req' = [req EXCEPT ![r].pc = "savePassword", ![r].seen = Len(past[u])]
       ELSE Answer(r)
    /\ UNCHANGED <<accounts, sessions, cookie, now>>

SavePassword(r) ==
    /\ At(r, "savePassword")
    /\ Len(past[req[r].user]) < MaxChanges
    /\ UpdatePassword(req[r].user, req[r].new)
    /\ Answer(r)
    /\ UNCHANGED <<sessions, cookie, now>>

PasswordStep(r) == LoadForPassword(r) \/ SavePassword(r)

-----------------------------------------------------------------------------
\* A failed statement, a closed connection or an answer that does not arrive.
Abort(r) == ~At(r, "idle") /\ Answer(r) /\ UNCHANGED <<accounts, sessions, cookie, now>>

\* The map is in memory; the requests in progress end with the server.
Restart ==
    /\ store' = [t \in {} |-> {}]
    /\ ended' = [t \in DOMAIN ended \cup DOMAIN store |->
                    IF t \in DOMAIN store THEN "restart" ELSE ended[t]]
    /\ req' = [r \in Request |-> [pc |-> "idle"]]
    /\ UNCHANGED <<accounts, lastToken, cookie, now>>

\* The browser drops the cookie: it has expired or the user clears it.
Forget(b) ==
    /\ cookie' = [cookie EXCEPT ![b] = 0]
    /\ UNCHANGED <<accounts, sessions, now, req>>

Tick == now < MaxTime /\ now' = now + 1 /\ UNCHANGED <<accounts, sessions, cookie, req>>

Submit(r) ==
    \E b \in Browser :
        \/ \E e \in Email, p \in Password : BeginLogin(r, b, e, p)
        \/ \E e \in Email, p \in Password : BeginRegister(r, b, e, p)
        \/ BeginLogout(r, b)
        \/ \E e \in Email : BeginProfile(r, b, e)
        \/ \E old, p \in Password : BeginPassword(r, b, old, p)

Proceed(r) ==
    \/ FindLogin(r)
    \/ RegisterStep(r)
    \/ OpenSession(r)
    \/ DropSession(r)
    \/ Reply(r)
    \/ CheckSession(r)
    \/ ProfileStep(r)
    \/ PasswordStep(r)

Next ==
    \/ \E r \in Request : Submit(r) \/ Proceed(r) \/ Abort(r)
    \/ \E b \in Browser : Forget(b)
    \/ Restart
    \/ Tick

Spec == Init /\ [][Next]_vars

-----------------------------------------------------------------------------
\* No two accounts share a mailbox, in whatever case the address is typed and
\* however the checks of registration and of the profile form interleave.
OneAccountPerMailbox ==
    \A u, v \in DOMAIN users : u # v => users[u].email.box # users[v].email.box

\* A password is replaced only for a request that sent the password the account
\* had when the request was let in, though others may have replaced it since.
KnewPassword ==
    [][\A u \in DOMAIN users :
           past'[u] # past[u] =>
               \E r \in Request :
                   /\ At(r, "savePassword") /\ req[r].user = u /\ req'[r] # req[r]
                   /\ req[r].current = past[u][req[r].seen]
                   /\ users'[u].password = req[r].new]_vars

\* A session that was logged out or lost is not back in the map, even if its
\* answer or other requests with its token are still on the way.
EndedStaysOut == \A t \in DOMAIN ended : t \notin DOMAIN store

\* A cookie stops working only by a logout with it, a restart or its age: what
\* other requests of the user or of the browser do does not end its session.
SignedOutForReason ==
    \A b \in Browser :
        cookie[b] # 0 => cookie[b] \in DOMAIN store \/ cookie[b] \in DOMAIN ended
=============================================================================
