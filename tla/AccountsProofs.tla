--------------------------- MODULE AccountsProofs ---------------------------
(***************************************************************************)
(* Theorems about accounts and sessions, for any requests, browsers,       *)
(* mailboxes and passwords and without the bounds of the runs.             *)
(***************************************************************************)
EXTENDS Accounts, SequenceTheorems, TLAPS

RequestState ==
    IdleReq \cup LoginReq \cup RegisterReq \cup OpenReq \cup ReplyReq \cup LogoutReq
            \cup ProfileReq \cup PasswordReq

\* What a request in the state q relies on: the account it has found and the
\* token it carries exist, the address it will write is in lower case, and the
\* password it was let in with was the account's seen-th.
Known(q) ==
    /\ q.pc \in {"open", "load", "taken", "saveProfile", "savePassword"} => q.user \in 1 .. lastUser
    /\ q.pc \in {"reply", "logout", "session"} => q.token \in 0 .. lastToken
    /\ \/ q.pc \in {"exists", "insert", "taken", "saveProfile"}
       \/ q.pc \in {"session", "load"} /\ q.form = "profile"
       => q.email.lower
    /\ q.pc = "savePassword" =>
          /\ q.seen \in 1 .. Len(past[q.user])
          /\ q.current = past[q.user][q.seen]

\* The password of an account is the last it was given.
LastPassword ==
    \A u \in DOMAIN users : Len(past[u]) >= 1 /\ users[u].password = past[u][Len(past[u])]

\* A token handed out is in the map or has been taken out of it.
TokensKept == 1 .. lastToken \subseteq DOMAIN store \cup DOMAIN ended

AccountsInv ==
    /\ AccountsTypeOK
    /\ \A r \in Request : Known(req[r])
    /\ LastPassword
    /\ TokensKept
    /\ OneAccountPerMailbox
    /\ EndedStaysOut

-----------------------------------------------------------------------------
(* Requests *)

\* Accounts and tokens only become more, and passwords are appended.
Grows ==
    /\ lastUser' \in Nat /\ lastUser' >= lastUser
    /\ lastToken' \in Nat /\ lastToken' >= lastToken
    /\ \A u \in 1 .. lastUser :
          /\ Len(past'[u]) \in Nat /\ Len(past'[u]) >= Len(past[u])
          /\ \A i \in 1 .. Len(past[u]) : past'[u][i] = past[u][i]

LEMMA KnownStays ==
    ASSUME AccountsTypeOK, Grows, NEW q, Known(q)
    PROVE  Known(q)'
<1>1. lastUser \in Nat /\ lastToken \in Nat /\ \A u \in 1 .. lastUser : Len(past[u]) \in Nat
  BY LenProperties DEF AccountsTypeOK
<1>2. \A u \in 1 .. lastUser : u \in 1 .. lastUser'
  BY <1>1 DEF Grows
<1>3. q.pc \in {"open", "load", "taken", "saveProfile", "savePassword"} => q.user \in 1 .. lastUser'
  BY <1>2 DEF Known
<1>4. q.pc \in {"reply", "logout", "session"} => q.token \in 0 .. lastToken'
  BY <1>1 DEF Known, Grows
<1>5. ASSUME q.pc = "savePassword"
      PROVE  q.seen \in 1 .. Len(past'[q.user]) /\ q.current = past'[q.user][q.seen]
  <2>1. /\ q.user \in 1 .. lastUser
        /\ q.seen \in 1 .. Len(past[q.user])
        /\ q.current = past[q.user][q.seen]
    BY <1>5 DEF Known
  <2>. PICK u \in 1 .. lastUser : u = q.user
    BY <2>1
  <2>2. /\ Len(past'[u]) \in Nat /\ Len(past'[u]) >= Len(past[u])
        /\ \A i \in 1 .. Len(past[u]) : past'[u][i] = past[u][i]
    BY DEF Grows
  <2>3. q.seen \in 1 .. Len(past'[u])
    BY <1>1, <2>1, <2>2
  <2>. QED  BY <2>1, <2>2, <2>3
<1>. QED  BY <1>3, <1>4, <1>5 DEF Known

LEMMA NothingGrows ==
    ASSUME AccountsTypeOK, UNCHANGED <<accounts, lastToken>>
    PROVE  Grows
<1>1. \A u \in 1 .. lastUser : Len(past[u]) \in Nat
  BY LenProperties DEF AccountsTypeOK
<1>. QED  BY <1>1 DEF AccountsTypeOK, accounts, Grows

\* One request takes the state d, the others stay as they are.
LEMMA RequestMoves ==
    ASSUME AccountsTypeOK, \A q \in Request : Known(req[q]), Grows,
           NEW r \in Request, NEW d \in RequestState, Known(d)', Become(r, d)
    PROVE  /\ req' \in [Request -> RequestState]
           /\ \A q \in Request : Known(req[q])'
<1>1. req \in [Request -> RequestState]
  BY DEF AccountsTypeOK, RequestState
<1>2. req' \in [Request -> RequestState] /\ req'[r] = d /\ \A q \in Request \ {r} : req'[q] = req[q]
  BY <1>1 DEF Become
<1>3. ASSUME NEW q \in Request PROVE Known(req[q])'
  <2>1. CASE q = r
    BY <1>2, <2>1 DEF Known
  <2>2. CASE q # r
    <3>. PICK e : e = req[q]
      OBVIOUS
    <3>1. Known(e)'
      BY KnownStays
    <3>2. req'[q] = e
      BY <1>2, <2>2
    <3>. QED  BY <3>1, <3>2 DEF Known
  <2>. QED  BY <2>1, <2>2
<1>. QED  BY <1>2, <1>3

LEMMA KindOfRequest ==
    ASSUME AccountsTypeOK, NEW r \in Request
    PROVE  /\ req[r] \in RequestState
           /\ req[r].pc = "loginFind" => req[r] \in LoginReq
           /\ req[r].pc \in {"exists", "insert"} => req[r] \in RegisterReq
           /\ req[r].pc = "open" => req[r] \in OpenReq
           /\ req[r].pc = "reply" => req[r] \in ReplyReq
           /\ req[r].pc = "logout" => req[r] \in LogoutReq
           /\ req[r].pc \in {"taken", "saveProfile"} => req[r] \in ProfileReq
           /\ req[r].pc = "savePassword" => req[r] \in PasswordReq
           /\ req[r].pc \in {"session", "load"} => req[r] \in ProfileReq \cup PasswordReq
           /\ req[r].pc \in {"session", "load"} /\ req[r].form = "profile" => req[r] \in ProfileReq
           /\ req[r].pc \in {"session", "load"} /\ req[r].form = "password" => req[r] \in PasswordReq
<1>1. req[r] \in RequestState
  BY DEF AccountsTypeOK, RequestState
<1>. QED
  BY <1>1 DEF RequestState, IdleReq, LoginReq, RegisterReq, OpenReq, ReplyReq, LogoutReq,
              ProfileReq, PasswordReq

\* A step that only moves a request, and perhaps the clock.
LEMMA OnlyRequest ==
    ASSUME AccountsInv, NEW r \in Request, NEW d \in RequestState, Known(d), Become(r, d),
           UNCHANGED <<accounts, sessions, cookie, now>>
    PROVE  AccountsInv'
<1>1. Grows
  BY NothingGrows DEF AccountsInv, sessions
<1>2. Known(d)'
  BY <1>1, KnownStays DEF AccountsInv
<1>3. req' \in [Request -> RequestState] /\ \A q \in Request : Known(req[q])'
  BY <1>1, <1>2, RequestMoves DEF AccountsInv
<1>4. AccountsTypeOK'
  BY <1>3 DEF AccountsInv, AccountsTypeOK, accounts, sessions, RequestState
<1>5. (LastPassword /\ TokensKept /\ OneAccountPerMailbox /\ EndedStaysOut)'
  BY DEF AccountsInv, LastPassword, TokensKept, OneAccountPerMailbox, EndedStaysOut,
         accounts, sessions
<1>. QED  BY <1>3, <1>4, <1>5 DEF AccountsInv

LEMMA IdleMoves == [pc |-> "idle"] \in RequestState /\ Known([pc |-> "idle"])
BY DEF RequestState, IdleReq, Known

LEMMA OnlyAnswer ==
    ASSUME AccountsInv, NEW r \in Request, Answer(r), UNCHANGED <<accounts, sessions, cookie, now>>
    PROVE  AccountsInv'
BY IdleMoves, OnlyRequest DEF Answer

-----------------------------------------------------------------------------
(* Steps that read *)

LEMMA LowerEmail == \A e \in Email : Lower(e) \in Email /\ Lower(e).lower
BY DEF Email, Lower

LEMMA SubmitInv ==
    ASSUME AccountsInv, NEW r \in Request, Submit(r)
    PROVE  AccountsInv'
<1>. PICK b \in Browser :
        \/ \E e \in Email, p \in Password : BeginLogin(r, b, e, p)
        \/ \E e \in Email, p \in Password : BeginRegister(r, b, e, p)
        \/ BeginLogout(r, b)
        \/ \E e \in Email : BeginProfile(r, b, e)
        \/ \E old, p \in Password : BeginPassword(r, b, old, p)
  BY DEF Submit
<1>1. cookie[b] \in 0 .. lastToken /\ cookie[b] \in Nat /\ lastToken \in Nat
  BY DEF AccountsInv, AccountsTypeOK
<1>2. ASSUME NEW d \in RequestState, Known(d), Begin(r, d) PROVE AccountsInv'
  BY <1>2, OnlyRequest DEF Begin
<1>3. ASSUME NEW e \in Email, NEW p \in Password, BeginLogin(r, b, e, p) PROVE AccountsInv'
  <2>. DEFINE d == [pc |-> "loginFind", browser |-> b, email |-> Lower(e), password |-> p]
  <2>1. d \in RequestState /\ Known(d)
    BY LowerEmail DEF RequestState, LoginReq, Known
  <2>. HIDE DEF d
  <2>. QED  BY <1>2, <1>3, <2>1 DEF BeginLogin, d
<1>4. ASSUME NEW e \in Email, NEW p \in Password, BeginRegister(r, b, e, p) PROVE AccountsInv'
  <2>. DEFINE d == [pc |-> "exists", browser |-> b, email |-> Lower(e), password |-> p]
  <2>1. d \in RequestState /\ Known(d)
    BY LowerEmail DEF RequestState, RegisterReq, Known
  <2>. HIDE DEF d
  <2>. QED  BY <1>2, <1>4, <2>1 DEF BeginRegister, d
<1>5. CASE BeginLogout(r, b)
  <2>. DEFINE d == [pc |-> "logout", browser |-> b, token |-> cookie[b]]
  <2>1. d \in RequestState /\ Known(d)
    BY <1>1 DEF RequestState, LogoutReq, Known
  <2>. HIDE DEF d
  <2>. QED  BY <1>2, <1>5, <2>1 DEF BeginLogout, d
<1>6. ASSUME NEW e \in Email, BeginProfile(r, b, e) PROVE AccountsInv'
  <2>. DEFINE d == [pc |-> "session", form |-> "profile", token |-> cookie[b], user |-> 0,
                    email |-> Lower(e)]
  <2>1. d \in RequestState /\ Known(d)
    BY <1>1, LowerEmail DEF RequestState, ProfileReq, Known
  <2>. HIDE DEF d
  <2>. QED  BY <1>2, <1>6, <2>1 DEF BeginProfile, d
<1>7. ASSUME NEW old \in Password, NEW p \in Password, BeginPassword(r, b, old, p)
      PROVE  AccountsInv'
  <2>. DEFINE d == [pc |-> "session", form |-> "password", token |-> cookie[b], user |-> 0,
                    current |-> old, new |-> p, seen |-> 0]
  <2>1. d \in RequestState /\ Known(d)
    BY <1>1 DEF RequestState, PasswordReq, Known
  <2>. HIDE DEF d
  <2>. QED  BY <1>2, <1>7, <2>1 DEF BeginPassword, d
<1>. QED  BY <1>3, <1>4, <1>5, <1>6, <1>7

LEMMA ReadInv ==
    ASSUME AccountsInv, NEW r \in Request,
           \/ FindLogin(r) \/ CheckExists(r) \/ CheckSession(r)
           \/ LoadForProfile(r) \/ CheckTaken(r) \/ LoadForPassword(r)
    PROVE  AccountsInv'
<1>. DEFINE q == req[r]
<1>0. UNCHANGED <<accounts, sessions, cookie, now>> /\ AccountsTypeOK /\ Known(q)
  BY DEF FindLogin, CheckExists, CheckSession, LoadForProfile, CheckTaken, LoadForPassword,
         AccountsInv
<1>1. ASSUME Answer(r) PROVE AccountsInv'
  BY <1>0, <1>1, OnlyAnswer
<1>2. ASSUME NEW d \in RequestState, Known(d), Become(r, d) PROVE AccountsInv'
  BY <1>0, <1>2, OnlyRequest
<1>3. CASE FindLogin(r) /\ ~Answer(r)
  <2>1. PICK u \in FindByEmail(q.email) :
           Become(r, [pc |-> "open", browser |-> q.browser, user |-> u])
    BY <1>3 DEF FindLogin
  <2>. DEFINE d == [pc |-> "open", browser |-> q.browser, user |-> u]
  <2>2. u \in 1 .. lastUser /\ u \in Nat /\ q.browser \in Browser
    BY <1>0, <1>3, KindOfRequest DEF FindByEmail, AccountsTypeOK, FindLogin, At, LoginReq
  <2>3. d \in RequestState /\ Known(d)
    BY <2>2 DEF RequestState, OpenReq, Known
  <2>. HIDE DEF d
  <2>. QED  BY <1>2, <2>1, <2>3 DEF d
<1>4. CASE CheckExists(r) /\ ~Answer(r)
  <2>. DEFINE d == [q EXCEPT !.pc = "insert"]
  <2>1. Become(r, d) /\ q \in RegisterReq
    BY <1>0, <1>4, KindOfRequest DEF CheckExists, Goto, Become, AccountsTypeOK, At
  <2>2. d \in RequestState /\ Known(d)
    BY <1>0, <1>4, <2>1 DEF RequestState, RegisterReq, Known, CheckExists, At
  <2>. QED  BY <1>2, <2>1, <2>2
<1>5. CASE CheckSession(r) /\ ~Answer(r)
  <2>. DEFINE u == store[q.token].user
              d == [q EXCEPT !.pc = "load", !.user = u]
  <2>1. Become(r, d) /\ q.token \in DOMAIN store
    BY <1>0, <1>5 DEF CheckSession, Become, AccountsTypeOK
  <2>2. u \in 1 .. lastUser /\ u \in Nat
    BY <1>0, <2>1 DEF AccountsTypeOK
  <2>. HIDE DEF u
  <2>3. q.pc = "session"
    BY <1>5 DEF CheckSession, At
  <2>4. CASE q \in ProfileReq
    <3>1. d \in ProfileReq /\ Known(d)
      BY <1>0, <2>2, <2>3, <2>4 DEF ProfileReq, Known
    <3>. QED  BY <1>2, <2>1, <3>1 DEF RequestState
  <2>5. CASE q \in PasswordReq
    <3>1. d \in PasswordReq /\ Known(d)
      BY <1>0, <2>2, <2>3, <2>5 DEF PasswordReq, Known
    <3>. QED  BY <1>2, <2>1, <3>1 DEF RequestState
  <2>. QED  BY <1>0, <2>3, <2>4, <2>5, KindOfRequest
<1>6. CASE (LoadForProfile(r) \/ CheckTaken(r)) /\ ~Answer(r)
  <2>1. PICK pc \in {"taken", "saveProfile"} : Become(r, [q EXCEPT !.pc = pc])
    BY <1>0, <1>6 DEF LoadForProfile, CheckTaken, Goto, Become, AccountsTypeOK
  <2>. DEFINE d == [q EXCEPT !.pc = pc]
  <2>2. q \in ProfileReq
    BY <1>0, <1>6, KindOfRequest DEF LoadForProfile, CheckTaken, At
  <2>3. d \in RequestState /\ Known(d)
    BY <1>0, <1>6, <2>2 DEF RequestState, ProfileReq, Known, LoadForProfile, CheckTaken, At
  <2>. QED  BY <1>2, <2>1, <2>3
<1>7. CASE LoadForPassword(r) /\ ~Answer(r)
  <2>. DEFINE u == q.user
              d == [q EXCEPT !.pc = "savePassword", !.seen = Len(past[u])]
  <2>1. Become(r, d) /\ users[u].password = q.current /\ q \in PasswordReq /\ u \in 1 .. lastUser
    BY <1>0, <1>7, KindOfRequest DEF LoadForPassword, Become, AccountsTypeOK, At, Known
  <2>2. Len(past[u]) \in Nat /\ Len(past[u]) >= 1 /\ users[u].password = past[u][Len(past[u])]
    BY <2>1, LenProperties DEF AccountsInv, AccountsTypeOK, LastPassword
  <2>3. /\ d \in PasswordReq /\ d.pc = "savePassword" /\ d.user = u /\ d.seen = Len(past[u])
        /\ d.current = q.current
    BY <2>1, <2>2 DEF PasswordReq
  <2>4. Known(d)
    <3>. HIDE DEF d, u
    <3>1. Len(past[u]) \in 1 .. Len(past[u])
      BY <2>2
    <3>2. d.seen \in 1 .. Len(past[d.user]) /\ d.current = past[d.user][d.seen]
      BY <2>1, <2>2, <2>3, <3>1
    <3>3. d.user \in 1 .. lastUser
      BY <2>1, <2>3
    <3>. QED  BY <2>3, <3>2, <3>3 DEF Known
  <2>. QED  BY <1>2, <2>1, <2>3, <2>4 DEF RequestState
<1>. QED  BY <1>1, <1>3, <1>4, <1>5, <1>6, <1>7

-----------------------------------------------------------------------------
(* Steps that write *)

\* A step that writes accounts: the sessions stay.
LEMMA AccountsWritten ==
    ASSUME AccountsInv, Grows, NEW r \in Request, NEW d \in RequestState, Known(d)', Become(r, d),
           UNCHANGED <<sessions, cookie, now>>,
           users' \in [1 .. lastUser' -> User], past' \in [1 .. lastUser' -> Seq(Password)],
           LastPassword', OneAccountPerMailbox'
    PROVE  AccountsInv'
<1>1. req' \in [Request -> RequestState] /\ \A q \in Request : Known(req[q])'
  BY RequestMoves DEF AccountsInv
<1>2. \A u \in 1 .. lastUser : u \in 1 .. lastUser'
  BY DEF AccountsInv, AccountsTypeOK, Grows
<1>3. \A t \in DOMAIN store : store[t].user \in 1 .. lastUser /\ DOMAIN users = 1 .. lastUser
  BY DEF AccountsInv, AccountsTypeOK
<1>4. AccountsTypeOK'
  BY <1>1, <1>2, <1>3 DEF AccountsInv, AccountsTypeOK, sessions, RequestState, Grows
<1>5. (TokensKept /\ EndedStaysOut)'
  BY DEF AccountsInv, TokensKept, EndedStaysOut, sessions
<1>. QED  BY <1>1, <1>4, <1>5 DEF AccountsInv

\* A step that writes sessions: the accounts stay.
LEMMA SessionsWritten ==
    ASSUME AccountsInv, UNCHANGED <<accounts, now>>,
           lastToken' \in Nat, cookie' \in [Browser -> 0 .. lastToken'],
           DOMAIN store' \subseteq 1 .. lastToken', store' \in [DOMAIN store' -> Session],
           DOMAIN ended' \subseteq 1 .. lastToken',
           \A t \in DOMAIN store' : store'[t].user \in 1 .. lastUser,
           req' \in [Request -> RequestState], \A q \in Request : Known(req[q])',
           TokensKept', EndedStaysOut'
    PROVE  AccountsInv'
<1>1. AccountsTypeOK'
  BY DEF AccountsInv, AccountsTypeOK, accounts, RequestState
<1>2. (LastPassword /\ OneAccountPerMailbox)'
  BY DEF AccountsInv, LastPassword, OneAccountPerMailbox, accounts
<1>. QED  BY <1>1, <1>2 DEF AccountsInv

\* The UNIQUE key on the lower-case address is a key on the mailbox.
LEMMA MailboxKey ==
    ASSUME AccountsTypeOK, NEW e \in Email, e.lower, NEW u \in Nat, EmailKey(e, u)
    PROVE  \A v \in DOMAIN users \ {u} : users[v].email.box # e.box
<1>1. SUFFICES ASSUME NEW v \in DOMAIN users \ {u}, users[v].email.box = e.box
               PROVE  users[v].email = e
  BY DEF EmailKey
<1>2. users[v].email \in [box: Mailbox, lower: {TRUE}]
  BY DEF AccountsTypeOK, User
<1>3. e = [box |-> e.box, lower |-> TRUE]
  BY DEF Email
<1>4. users[v].email = [box |-> users[v].email.box, lower |-> TRUE]
  BY <1>2
<1>. QED  BY <1>1, <1>3, <1>4

LEMMA LowerRow ==
    ASSUME NEW e \in Email, e.lower, NEW p \in Password
    PROVE  [email |-> e, password |-> p] \in User
BY DEF Email, User

LEMMA InsertInv ==
    ASSUME AccountsInv, NEW r \in Request, InsertUser(r)
    PROVE  AccountsInv'
<1>. DEFINE q == req[r]
            n == lastUser + 1
<1>. PICK d : d = [pc |-> "open", browser |-> q.browser, user |-> n]
  OBVIOUS
<1>0. /\ AccountsTypeOK /\ Known(q) /\ q \in RegisterReq /\ q.pc = "insert"
      /\ UNCHANGED <<sessions, cookie, now>>
  BY KindOfRequest DEF AccountsInv, InsertUser, At
<1>1. CASE Answer(r) /\ UNCHANGED accounts
  BY <1>0, <1>1, OnlyAnswer
<1>2. CASE /\ CreateUser(q.email, q.password)
           /\ Become(r, [pc |-> "open", browser |-> q.browser, user |-> lastUser'])
  <2>1. q.email \in Email /\ q.email.lower /\ q.password \in Password /\ q.browser \in Browser
    BY <1>0 DEF RegisterReq, Known
  <2>2. EmailKey(q.email, 0) /\ lastUser' = n /\ lastUser \in Nat /\ lastToken \in Nat
    BY <1>0, <1>2 DEF CreateUser, AccountsTypeOK
  <2>. DEFINE row == [email |-> q.email, password |-> q.password]
  <2>3. row \in User
    BY <2>1, LowerRow
  <2>. HIDE DEF row
  <2>4. DOMAIN users = 1 .. lastUser /\ DOMAIN past = 1 .. lastUser /\ 1 .. n = 1 .. lastUser \cup {n}
    BY <1>0, <2>2 DEF AccountsTypeOK
  <2>5. users' = [u \in 1 .. n |-> IF u = n THEN row ELSE users[u]]
    BY <1>2, <2>4 DEF CreateUser, With, row
  <2>6. past' = [u \in 1 .. n |-> IF u = n THEN <<q.password>> ELSE past[u]]
    BY <1>2, <2>4 DEF CreateUser, With
  <2>7. users' \in [1 .. n -> User]
    BY <1>0, <2>3, <2>4, <2>5 DEF AccountsTypeOK
  <2>8. <<q.password>> \in Seq(Password) /\ Len(<<q.password>>) = 1 /\ <<q.password>>[1] = q.password
    BY <2>1
  <2>9. past' \in [1 .. n -> Seq(Password)]
    BY <1>0, <2>4, <2>6, <2>8 DEF AccountsTypeOK
  <2>10. Grows
    <3>1. \A u \in 1 .. lastUser : past'[u] = past[u] /\ Len(past[u]) \in Nat
      BY <1>0, <2>2, <2>4, <2>6, LenProperties DEF AccountsTypeOK
    <3>. QED  BY <1>0, <2>2, <3>1 DEF Grows, sessions
  <2>11. LastPassword'
    <3>1. users'[n].password = q.password /\ past'[n] = <<q.password>>
      BY <2>2, <2>5, <2>6 DEF row
    <3>2. \A u \in 1 .. lastUser : users'[u] = users[u] /\ past'[u] = past[u]
      BY <2>2, <2>5, <2>6
    <3>3. DOMAIN users' = 1 .. lastUser \cup {n}
      BY <2>4, <2>5
    <3>4. ASSUME NEW u \in DOMAIN users'
          PROVE  Len(past'[u]) >= 1 /\ users'[u].password = past'[u][Len(past'[u])]
      <4>1. CASE u = n
        <5>. HIDE DEF n
        <5>1. Len(past'[n]) = 1 /\ past'[n][1] = q.password
          BY <2>8, <3>1
        <5>2. Len(past'[n]) >= 1 /\ past'[n][Len(past'[n])] = q.password
          BY <5>1
        <5>. QED  BY <3>1, <4>1, <5>2
      <4>2. CASE u \in 1 .. lastUser
        BY <2>4, <3>2, <4>2 DEF AccountsInv, LastPassword
      <4>. QED  BY <3>3, <4>1, <4>2
    <3>. QED  BY <3>4 DEF LastPassword
  <2>12. OneAccountPerMailbox'
    <3>1. \A u \in 1 .. lastUser : users'[u] = users[u] /\ users[u].email.box # q.email.box
      BY <1>0, <2>1, <2>2, <2>4, <2>5, MailboxKey
    <3>2. users'[n].email = q.email /\ DOMAIN users' = 1 .. lastUser \cup {n}
      BY <2>2, <2>4, <2>5 DEF row
    <3>. QED  BY <2>4, <3>1, <3>2 DEF AccountsInv, OneAccountPerMailbox
  <2>13. d \in RequestState /\ Known(d)'
    BY <2>1, <2>2 DEF RequestState, OpenReq, Known
  <2>14. Become(r, d)
    BY <1>2, <2>2
  <2>. QED  BY <1>0, <2>2, <2>7, <2>9, <2>10, <2>11, <2>12, <2>13, <2>14, AccountsWritten
<1>. QED  BY <1>1, <1>2 DEF InsertUser

LEMMA SaveProfileInv ==
    ASSUME AccountsInv, NEW r \in Request, SaveProfile(r)
    PROVE  AccountsInv'
<1>. DEFINE q == req[r]
            w == q.user
<1>0. /\ AccountsTypeOK /\ Known(q) /\ q \in ProfileReq /\ q.pc = "saveProfile"
      /\ UNCHANGED <<sessions, cookie, now>> /\ Answer(r)
  BY KindOfRequest DEF AccountsInv, SaveProfile, At
<1>1. CASE UNCHANGED accounts
  BY <1>0, <1>1, OnlyAnswer
<1>2. CASE UpdateProfile(w, q.email)
  <2>1. q.email \in Email /\ q.email.lower /\ w \in 1 .. lastUser /\ w \in Nat
    BY <1>0 DEF ProfileReq, Known
  <2>2. EmailKey(q.email, w) /\ UNCHANGED <<lastUser, past>> /\ users' = [users EXCEPT ![w].email = q.email]
    BY <1>2 DEF UpdateProfile
  <2>3. DOMAIN users = 1 .. lastUser /\ DOMAIN users' = 1 .. lastUser
    BY <1>0, <2>2 DEF AccountsTypeOK
  <2>4. users[w] \in User /\ users'[w] = [users[w] EXCEPT !.email = q.email]
    BY <1>0, <2>1, <2>2, <2>3 DEF AccountsTypeOK
  <2>5. users'[w] \in User /\ users'[w].email = q.email /\ users'[w].password = users[w].password
    BY <2>1, <2>4 DEF User, Email
  <2>6. \A u \in 1 .. lastUser \ {w} : users'[u] = users[u]
    BY <2>2, <2>3
  <2>7. users' \in [1 .. lastUser' -> User]
    <3>1. \A u \in 1 .. lastUser : users'[u] \in User
      BY <1>0, <2>5, <2>6 DEF AccountsTypeOK
    <3>2. users' = [u \in 1 .. lastUser |-> users'[u]]
      BY <1>0, <2>2 DEF AccountsTypeOK
    <3>. QED  BY <2>2, <3>1, <3>2
  <2>8. past' \in [1 .. lastUser' -> Seq(Password)]
    BY <1>0, <2>2 DEF AccountsTypeOK
  <2>9. Grows
    <3>1. \A u \in 1 .. lastUser : Len(past[u]) \in Nat
      BY <1>0, LenProperties DEF AccountsTypeOK
    <3>. QED  BY <1>0, <2>2, <3>1 DEF Grows, sessions, AccountsTypeOK
  <2>10. LastPassword'
    <3>1. \A u \in 1 .. lastUser : users'[u].password = users[u].password
      BY <2>5, <2>6
    <3>. QED  BY <2>2, <2>3, <3>1 DEF AccountsInv, LastPassword
  <2>11. OneAccountPerMailbox'
    <3>1. \A u \in 1 .. lastUser \ {w} : users[u].email.box # q.email.box
      BY <1>0, <2>1, <2>2, <2>3, MailboxKey
    <3>. QED  BY <2>3, <2>5, <2>6, <3>1 DEF AccountsInv, OneAccountPerMailbox
  <2>12. Known([pc |-> "idle"])'
    BY DEF Known
  <2>. QED  BY <1>0, <2>7, <2>8, <2>9, <2>10, <2>11, <2>12, IdleMoves, AccountsWritten DEF Answer
<1>. QED  BY <1>0, <1>1, <1>2 DEF SaveProfile

\* The history of a password that is replaced.
LEMMA PasswordAppended ==
    ASSUME AccountsInv, NEW r \in Request, SavePassword(r)
    PROVE  LET q == req[r] IN
           /\ q.user \in 1 .. lastUser /\ q.new \in Password /\ UNCHANGED lastUser
           /\ past' \in [1 .. lastUser -> Seq(Password)]
           /\ past'[q.user] = Append(past[q.user], q.new)
           /\ Len(past[q.user]) \in Nat /\ Len(past'[q.user]) = Len(past[q.user]) + 1
           /\ \A i \in 1 .. Len(past[q.user]) : past'[q.user][i] = past[q.user][i]
           /\ past'[q.user][Len(past[q.user]) + 1] = q.new
           /\ \A u \in 1 .. lastUser \ {q.user} : past'[u] = past[u] /\ users'[u] = users[u]
           /\ users' \in [1 .. lastUser -> User]
           /\ users'[q.user].password = q.new /\ users'[q.user].email = users[q.user].email
<1>. DEFINE q == req[r]
            w == q.user
<1>1. AccountsTypeOK /\ Known(q) /\ q \in PasswordReq /\ q.pc = "savePassword"
  BY KindOfRequest DEF AccountsInv, SavePassword, At
<1>2. /\ users' = [users EXCEPT ![w].password = q.new]
      /\ past' = [past EXCEPT ![w] = Append(@, q.new)] /\ UNCHANGED lastUser
  BY DEF SavePassword, UpdatePassword
<1>3. w \in 1 .. lastUser /\ q.new \in Password
  BY <1>1 DEF PasswordReq, Known
<1>. HIDE DEF w, q
<1>4. past[w] \in Seq(Password) /\ Len(past[w]) \in Nat /\ DOMAIN past = 1 .. lastUser
  BY <1>1, <1>3, LenProperties DEF AccountsTypeOK
<1>5. past'[w] = Append(past[w], q.new) /\ \A u \in 1 .. lastUser \ {w} : past'[u] = past[u]
  BY <1>2, <1>3, <1>4
<1>6. /\ Append(past[w], q.new) \in Seq(Password)
      /\ Len(Append(past[w], q.new)) = Len(past[w]) + 1
      /\ \A i \in 1 .. Len(past[w]) : Append(past[w], q.new)[i] = past[w][i]
      /\ Append(past[w], q.new)[Len(past[w]) + 1] = q.new
  BY <1>3, <1>4, AppendProperties
<1>7. past' \in [1 .. lastUser -> Seq(Password)]
  BY <1>1, <1>2, <1>6 DEF AccountsTypeOK
<1>8. users[w] \in User /\ users'[w] = [users[w] EXCEPT !.password = q.new]
  BY <1>1, <1>2, <1>3 DEF AccountsTypeOK
<1>9. users'[w] \in User /\ users'[w].password = q.new /\ users'[w].email = users[w].email
  BY <1>3, <1>8 DEF User
<1>10. users' \in [1 .. lastUser -> User] /\ \A u \in 1 .. lastUser \ {w} : users'[u] = users[u]
  <2>1. users \in [1 .. lastUser -> User] /\ \A u \in 1 .. lastUser \ {w} : users'[u] = users[u]
    BY <1>1, <1>2 DEF AccountsTypeOK
  <2>2. \A u \in 1 .. lastUser : users'[u] \in User
    BY <1>9, <2>1
  <2>3. users' = [u \in 1 .. lastUser |-> users'[u]]
    BY <1>2, <2>1
  <2>. QED  BY <2>1, <2>2, <2>3
<1>11. /\ past'[w] = Append(past[w], q.new)
       /\ Len(past[w]) \in Nat /\ Len(past'[w]) = Len(past[w]) + 1
       /\ \A i \in 1 .. Len(past[w]) : past'[w][i] = past[w][i]
       /\ past'[w][Len(past[w]) + 1] = q.new
  BY <1>4, <1>5, <1>6
<1>. QED  BY <1>2, <1>3, <1>5, <1>7, <1>9, <1>10, <1>11 DEF w, q

LEMMA SavePasswordInv ==
    ASSUME AccountsInv, NEW r \in Request, SavePassword(r)
    PROVE  AccountsInv'
<1>. DEFINE w == req[r].user
<1>0. AccountsTypeOK /\ UNCHANGED <<sessions, cookie, now>> /\ Answer(r)
  BY DEF AccountsInv, SavePassword
<1>1. /\ w \in 1 .. lastUser /\ UNCHANGED lastUser
      /\ past' \in [1 .. lastUser -> Seq(Password)] /\ users' \in [1 .. lastUser -> User]
      /\ Len(past[w]) \in Nat /\ Len(past'[w]) = Len(past[w]) + 1
      /\ \A i \in 1 .. Len(past[w]) : past'[w][i] = past[w][i]
      /\ users'[w].password = past'[w][Len(past[w]) + 1] /\ users'[w].email = users[w].email
      /\ \A u \in 1 .. lastUser \ {w} : past'[u] = past[u] /\ users'[u] = users[u]
  BY PasswordAppended
<1>. HIDE DEF w
<1>2. \A u \in 1 .. lastUser : Len(past[u]) \in Nat
  BY <1>0, LenProperties DEF AccountsTypeOK
<1>3. Grows
  <2>1. ASSUME NEW u \in 1 .. lastUser
        PROVE  /\ Len(past'[u]) \in Nat /\ Len(past'[u]) >= Len(past[u])
               /\ \A i \in 1 .. Len(past[u]) : past'[u][i] = past[u][i]
    BY <1>1, <1>2
  <2>. QED  BY <1>0, <1>1, <2>1 DEF Grows, sessions, AccountsTypeOK
<1>4. LastPassword'
  <2>1. DOMAIN users' = 1 .. lastUser /\ DOMAIN users = 1 .. lastUser
    BY <1>0, <1>1 DEF AccountsTypeOK
  <2>. QED  BY <1>1, <2>1 DEF AccountsInv, LastPassword
<1>5. OneAccountPerMailbox'
  <2>1. DOMAIN users' = 1 .. lastUser /\ DOMAIN users = 1 .. lastUser
    BY <1>0, <1>1 DEF AccountsTypeOK
  <2>2. \A u \in 1 .. lastUser : users'[u].email = users[u].email
    BY <1>1
  <2>. QED  BY <2>1, <2>2 DEF AccountsInv, OneAccountPerMailbox
<1>6. Known([pc |-> "idle"])'
  BY DEF Known
<1>. QED  BY <1>0, <1>1, <1>3, <1>4, <1>5, <1>6, IdleMoves, AccountsWritten DEF Answer

LEMMA OpenInv ==
    ASSUME AccountsInv, NEW r \in Request, OpenSession(r)
    PROVE  AccountsInv'
<1>. DEFINE q == req[r]
            t == lastToken + 1
            s == [user |-> q.user, expires |-> now + Life]
<1>. PICK d : d = [pc |-> "reply", browser |-> q.browser, token |-> t]
  OBVIOUS
<1>1. /\ AccountsTypeOK /\ Known(q) /\ q \in OpenReq /\ q.pc = "open"
      /\ lastToken \in Nat /\ now \in Nat /\ lastUser \in Nat
  BY KindOfRequest DEF AccountsInv, OpenSession, At, AccountsTypeOK
<1>2. /\ store' = With(store, t, s) /\ lastToken' = t /\ Become(r, d)
      /\ UNCHANGED <<accounts, ended, cookie, now>>
  BY DEF OpenSession
<1>3. q.user \in 1 .. lastUser /\ q.user \in Nat /\ q.browser \in Browser
  BY <1>1 DEF OpenReq, Known
<1>4. s \in Session /\ s.user \in 1 .. lastUser
  BY <1>1, <1>3, AccountsAssumption DEF Session
<1>. HIDE DEF s
<1>5. /\ DOMAIN store' = DOMAIN store \cup {t} /\ store'[t] = s
      /\ \A x \in DOMAIN store \ {t} : store'[x] = store[x]
      /\ store' = [x \in DOMAIN store' |-> store'[x]]
  BY <1>2 DEF With
<1>6. DOMAIN store \subseteq 1 .. lastToken /\ DOMAIN ended \subseteq 1 .. lastToken
  BY <1>1 DEF AccountsTypeOK
<1>7. 1 .. t = 1 .. lastToken \cup {t} /\ t \notin 1 .. lastToken
  BY <1>1
<1>8. Grows
  <2>1. \A u \in 1 .. lastUser : Len(past[u]) \in Nat
    BY <1>1, LenProperties DEF AccountsTypeOK
  <2>. QED  BY <1>1, <1>2, <2>1 DEF Grows, accounts
<1>9. d \in RequestState /\ Known(d)'
  BY <1>1, <1>2, <1>3 DEF RequestState, ReplyReq, Known
<1>10. req' \in [Request -> RequestState] /\ \A x \in Request : Known(req[x])'
  BY <1>1, <1>2, <1>8, <1>9, RequestMoves DEF AccountsInv
<1>11. \A x \in DOMAIN store' : store'[x] \in Session /\ store'[x].user \in 1 .. lastUser
  BY <1>1, <1>4, <1>5 DEF AccountsTypeOK
<1>12. store' \in [DOMAIN store' -> Session]
  BY <1>5, <1>11
<1>13. cookie' \in [Browser -> 0 .. lastToken']
  <2>1. 0 .. lastToken \subseteq 0 .. t
    BY <1>1
  <2>. QED  BY <1>1, <1>2, <2>1 DEF AccountsTypeOK
<1>14. (TokensKept /\ EndedStaysOut)'
  BY <1>2, <1>5, <1>6, <1>7 DEF AccountsInv, TokensKept, EndedStaysOut
<1>15. /\ lastToken' \in Nat /\ DOMAIN store' \subseteq 1 .. lastToken'
       /\ DOMAIN ended' \subseteq 1 .. lastToken'
  BY <1>1, <1>2, <1>5, <1>6, <1>7
<1>. QED  BY <1>2, <1>10, <1>11, <1>12, <1>13, <1>14, <1>15, SessionsWritten

LEMMA LogoutInv ==
    ASSUME AccountsInv, NEW r \in Request, DropSession(r)
    PROVE  AccountsInv'
<1>. DEFINE q == req[r]
            t == q.token
<1>. PICK d : d = [pc |-> "reply", browser |-> q.browser, token |-> 0]
  OBVIOUS
<1>1. /\ AccountsTypeOK /\ q \in LogoutReq /\ lastToken \in Nat
  BY KindOfRequest DEF AccountsInv, DropSession, At, AccountsTypeOK
<1>2. /\ store' = [x \in DOMAIN store \ {t} |-> store[x]] /\ Become(r, d)
      /\ ended' = IF t \in DOMAIN store THEN With(ended, t, "logout") ELSE ended
      /\ UNCHANGED <<accounts, lastToken, cookie, now>>
  BY DEF DropSession
<1>3. /\ DOMAIN store' = DOMAIN store \ {t} /\ \A x \in DOMAIN store' : store'[x] = store[x]
      /\ DOMAIN ended' = DOMAIN ended \cup ({t} \cap DOMAIN store)
  BY <1>2 DEF With
<1>4. Grows /\ d \in RequestState
  BY <1>1, <1>2, NothingGrows DEF RequestState, ReplyReq, LogoutReq
<1>5. Known(d)'
  BY <1>1, <1>2 DEF Known
<1>6. req' \in [Request -> RequestState] /\ \A x \in Request : Known(req[x])'
  BY <1>1, <1>2, <1>4, <1>5, RequestMoves DEF AccountsInv
<1>7. (TokensKept /\ EndedStaysOut)'
  BY <1>2, <1>3 DEF AccountsInv, TokensKept, EndedStaysOut
<1>8. /\ DOMAIN store' \subseteq 1 .. lastToken' /\ DOMAIN ended' \subseteq 1 .. lastToken'
      /\ cookie' \in [Browser -> 0 .. lastToken'] /\ lastToken' \in Nat
  BY <1>1, <1>2, <1>3 DEF AccountsTypeOK
<1>9. /\ \A x \in DOMAIN store' : store'[x].user \in 1 .. lastUser
      /\ store' \in [DOMAIN store' -> Session]
  BY <1>1, <1>2, <1>3 DEF AccountsTypeOK
<1>. QED  BY <1>2, <1>6, <1>7, <1>8, <1>9, SessionsWritten

LEMMA ReplyInv ==
    ASSUME AccountsInv, NEW r \in Request, Reply(r)
    PROVE  AccountsInv'
<1>1. /\ req[r] \in ReplyReq /\ Known(req[r]) /\ req[r].pc = "reply"
      /\ UNCHANGED <<accounts, sessions, now>> /\ AccountsTypeOK
  BY KindOfRequest DEF AccountsInv, Reply, At
<1>2. cookie' \in [Browser -> 0 .. lastToken'] /\ lastToken' \in Nat
  BY <1>1 DEF Reply, ReplyReq, Known, AccountsTypeOK, sessions
<1>3. req' \in [Request -> RequestState] /\ \A x \in Request : Known(req[x])'
  <2>1. Grows
    BY <1>1, NothingGrows DEF sessions
  <2>2. Known([pc |-> "idle"])'
    BY DEF Known
  <2>. QED  BY <1>1, <2>1, <2>2, IdleMoves, RequestMoves DEF Reply, Answer, AccountsInv
<1>4. (TokensKept /\ EndedStaysOut)'
  BY <1>1 DEF AccountsInv, TokensKept, EndedStaysOut, sessions
<1>5. /\ DOMAIN store' \subseteq 1 .. lastToken' /\ DOMAIN ended' \subseteq 1 .. lastToken'
      /\ store' \in [DOMAIN store' -> Session]
      /\ \A x \in DOMAIN store' : store'[x].user \in 1 .. lastUser
  BY <1>1 DEF AccountsTypeOK, sessions
<1>. QED  BY <1>1, <1>2, <1>3, <1>4, <1>5, SessionsWritten

\* The cookie changes, or the clock, and no request moves.
LEMMA NoRequestInv ==
    ASSUME AccountsInv, UNCHANGED <<accounts, sessions, req>>,
           now' \in Nat, cookie' \in [Browser -> 0 .. lastToken]
    PROVE  AccountsInv'
<1>1. Grows
  BY NothingGrows DEF AccountsInv, sessions
<1>2. \A q \in Request : Known(req[q])'
  BY DEF AccountsInv, Known, accounts, sessions
<1>3. AccountsTypeOK'
  BY DEF AccountsInv, AccountsTypeOK, accounts, sessions
<1>. QED
  BY <1>2, <1>3 DEF AccountsInv, LastPassword, TokensKept, OneAccountPerMailbox, EndedStaysOut,
                    accounts, sessions

LEMMA RestartInv ==
    ASSUME AccountsInv, Restart
    PROVE  AccountsInv'
<1>1. AccountsTypeOK /\ UNCHANGED <<accounts, lastToken, cookie, now>>
  BY DEF AccountsInv, Restart
<1>2. /\ DOMAIN store' = {} /\ DOMAIN ended' = DOMAIN ended \cup DOMAIN store
      /\ store' \in [DOMAIN store' -> Session]
  BY DEF Restart
<1>3. req' \in [Request -> RequestState] /\ \A q \in Request : Known(req[q])'
  BY IdleMoves DEF Restart, Known
<1>4. (TokensKept /\ EndedStaysOut)'
  BY <1>1, <1>2 DEF AccountsInv, TokensKept, EndedStaysOut
<1>5. /\ cookie' \in [Browser -> 0 .. lastToken'] /\ lastToken' \in Nat
      /\ DOMAIN ended' \subseteq 1 .. lastToken'
  BY <1>1, <1>2 DEF AccountsTypeOK
<1>. QED  BY <1>1, <1>2, <1>3, <1>4, <1>5, SessionsWritten

-----------------------------------------------------------------------------
(* The invariant *)

LEMMA AccountsInvInit ==
    ASSUME Init
    PROVE  AccountsInv
<1>. PICK e \in Email, p \in Password :
        /\ e.lower
        /\ users = [u \in {1} |-> [email |-> e, password |-> p]]
        /\ past = [u \in {1} |-> <<p>>]
  BY DEF Init
<1>1. [email |-> e, password |-> p] \in User
  BY LowerRow
<1>2. 1 .. lastUser = {1} /\ lastUser = 1 /\ lastToken = 0 /\ now = 0
  BY DEF Init
<1>3. <<p>> \in Seq(Password) /\ Len(<<p>>) = 1 /\ <<p>>[1] = p
  OBVIOUS
<1>4. users \in [1 .. lastUser -> User] /\ past \in [1 .. lastUser -> Seq(Password)]
  BY <1>1, <1>2, <1>3
<1>5. DOMAIN store = {} /\ DOMAIN ended = {} /\ store \in [DOMAIN store -> Session]
  BY DEF Init
<1>6. req \in [Request -> RequestState] /\ \A q \in Request : Known(req[q])
  BY IdleMoves DEF Init, Known
<1>7. cookie \in [Browser -> 0 .. lastToken]
  BY <1>2 DEF Init
<1>8. AccountsTypeOK
  BY <1>2, <1>4, <1>5, <1>6, <1>7 DEF AccountsTypeOK, RequestState
<1>9. LastPassword
  <2>1. users[1].password = p /\ past[1] = <<p>> /\ DOMAIN users = {1}
    OBVIOUS
  <2>2. Len(past[1]) >= 1 /\ past[1][Len(past[1])] = p
    BY <1>3, <2>1
  <2>. QED  BY <2>1, <2>2 DEF LastPassword
<1>10. TokensKept /\ OneAccountPerMailbox /\ EndedStaysOut
  BY <1>2, <1>5 DEF TokensKept, OneAccountPerMailbox, EndedStaysOut
<1>. QED  BY <1>6, <1>8, <1>9, <1>10 DEF AccountsInv

LEMMA AccountsInvNext ==
    ASSUME AccountsInv, [Next]_vars
    PROVE  AccountsInv'
<1>1. ASSUME NEW r \in Request, Submit(r) PROVE AccountsInv'
  BY <1>1, SubmitInv
<1>2. ASSUME NEW r \in Request, Proceed(r) PROVE AccountsInv'
  BY <1>2, ReadInv, InsertInv, OpenInv, LogoutInv, ReplyInv, SaveProfileInv, SavePasswordInv
     DEF Proceed, RegisterStep, ProfileStep, PasswordStep
<1>3. ASSUME NEW r \in Request, Abort(r) PROVE AccountsInv'
  BY <1>3, OnlyAnswer DEF Abort
<1>4. ASSUME NEW b \in Browser, Forget(b) PROVE AccountsInv'
  <2>1. cookie' \in [Browser -> 0 .. lastToken] /\ now' \in Nat
    BY <1>4 DEF Forget, AccountsInv, AccountsTypeOK
  <2>. QED  BY <1>4, <2>1, NoRequestInv DEF Forget
<1>5. CASE Tick
  BY <1>5, NoRequestInv DEF Tick, AccountsInv, AccountsTypeOK
<1>6. CASE UNCHANGED vars
  BY <1>6, NoRequestInv DEF vars, accounts, sessions, AccountsInv, AccountsTypeOK
<1>. QED  BY <1>1, <1>2, <1>3, <1>4, <1>5, <1>6, RestartInv DEF Next

\* A token is in the map or known to have ended, the rows are those of distinct
\* mailboxes, and each request knows the account it works on.
THEOREM AccountsInvHolds == Spec => []AccountsInv
<1>1. Init => AccountsInv
  BY AccountsInvInit
<1>2. AccountsInv /\ [Next]_vars => AccountsInv'
  BY AccountsInvNext
<1>. QED  BY <1>1, <1>2, PTL DEF Spec

-----------------------------------------------------------------------------
(* Theorems *)

\* Accounts, sessions, cookies and requests stay of their types: no cookie holds
\* a token that was never handed out and no session is of an account without a row.
THEOREM AccountsTypeCorrect == Spec => []AccountsTypeOK
BY AccountsInvHolds, PTL DEF AccountsInv

\* However the checks of two registrations or of two profile forms interleave, no
\* two accounts come to share a mailbox in whatever case it is typed: the forms
\* lower the address before each statement, so the UNIQUE key of the column is a
\* key on the mailbox.
THEOREM MailboxesAreUnique == Spec => []OneAccountPerMailbox
BY AccountsInvHolds, PTL DEF AccountsInv

\* Manager.Login takes a new token each time, so a session that a logout or a
\* restart has taken out of the map never comes back, whatever answers and
\* requests with its token are still on the way.
THEOREM EndedSessionsStayOut == Spec => []EndedStaysOut
BY AccountsInvHolds, PTL DEF AccountsInv

\* A cookie stops working only by a logout with it, by a restart or by its age.
THEOREM SignedOutOnlyForReason == Spec => []SignedOutForReason
<1>1. AccountsInv => SignedOutForReason
  <2>. SUFFICES ASSUME AccountsInv, NEW b \in Browser, cookie[b] # 0
                PROVE  cookie[b] \in DOMAIN store \/ cookie[b] \in DOMAIN ended
    BY DEF SignedOutForReason
  <2>1. cookie[b] \in 1 .. lastToken
    BY DEF AccountsInv, AccountsTypeOK
  <2>. QED  BY <2>1 DEF AccountsInv, TokensKept
<1>. QED  BY <1>1, AccountsInvHolds, PTL

\* A step that replaces no password.
LEMMA PastKept ==
    ASSUME AccountsInv, [Next]_vars, \A r \in Request : ~SavePassword(r)
    PROVE  \A u \in DOMAIN users : past'[u] = past[u]
<1>1. AccountsTypeOK
  BY DEF AccountsInv
<1>2. ASSUME NEW r \in Request, Submit(r) \/ Abort(r) PROVE UNCHANGED past
  BY <1>2 DEF Submit, Abort, BeginLogin, BeginRegister, BeginLogout, BeginProfile, BeginPassword,
              Begin, accounts
<1>3. ASSUME NEW r \in Request, Proceed(r) PROVE UNCHANGED past \/ InsertUser(r)
  BY <1>3 DEF Proceed, RegisterStep, ProfileStep, PasswordStep, FindLogin, CheckExists, OpenSession,
              DropSession, Reply, CheckSession, LoadForProfile, CheckTaken, SaveProfile,
              UpdateProfile, LoadForPassword, accounts
<1>4. ASSUME NEW r \in Request, InsertUser(r) PROVE \A u \in DOMAIN users : past'[u] = past[u]
  <2>1. CASE UNCHANGED accounts
    BY <2>1 DEF accounts
  <2>2. CASE past' = With(past, lastUser + 1, <<req[r].password>>)
    BY <1>1, <2>2 DEF With, AccountsTypeOK
  <2>. QED  BY <1>4, <2>1, <2>2 DEF InsertUser, CreateUser
<1>5. (\E b \in Browser : Forget(b)) \/ Restart \/ Tick \/ UNCHANGED vars => UNCHANGED past
  BY DEF Forget, Restart, Tick, vars, accounts
<1>. QED  BY <1>2, <1>3, <1>4, <1>5 DEF Next

\* The password form writes without asking again: whatever other requests did to
\* the account in between, the request that replaces a password has sent the one
\* the account had when it was let in.
THEOREM PasswordsAreKnown == Spec => KnewPassword
<1>. DEFINE Asked(u) ==
              \E r \in Request :
                  /\ At(r, "savePassword") /\ req[r].user = u /\ req'[r] # req[r]
                  /\ req[r].current = past[u][req[r].seen]
                  /\ users'[u].password = req[r].new
            Replaced == \A u \in DOMAIN users : past'[u] # past[u] => Asked(u)
<1>1. ASSUME AccountsInv, [Next]_vars PROVE Replaced
  <2>1. CASE \A r \in Request : ~SavePassword(r)
    BY <1>1, <2>1, PastKept
  <2>2. ASSUME NEW r \in Request, SavePassword(r) PROVE Replaced
    <3>1. /\ req[r] \in PasswordReq /\ Known(req[r]) /\ req[r].pc = "savePassword"
          /\ DOMAIN users = 1 .. lastUser /\ r \in DOMAIN req
      BY <1>1, <2>2, KindOfRequest DEF AccountsInv, AccountsTypeOK, SavePassword, At
    <3>2. req'[r] # req[r]
      <4>1. req'[r] = [pc |-> "idle"]
        BY <2>2, <3>1 DEF SavePassword, Answer, Become
      <4>. QED  BY <3>1, <4>1
    <3>3. /\ \A u \in 1 .. lastUser \ {req[r].user} : past'[u] = past[u]
          /\ users'[req[r].user].password = req[r].new
      BY <1>1, <2>2, PasswordAppended
    <3>. QED  BY <3>1, <3>2, <3>3 DEF Known, At
  <2>. QED  BY <1>1, <2>1, <2>2
<1>2. ASSUME AccountsInv, [Next]_vars PROVE [Replaced]_vars
  BY <1>1, <1>2
<1>3. AccountsInv /\ [Next]_vars => [Replaced]_vars
  BY <1>2
<1>4. Spec => [][Replaced]_vars
  BY <1>3, AccountsInvHolds, PTL DEF Spec
<1>. QED  BY <1>4 DEF KnewPassword
=============================================================================
