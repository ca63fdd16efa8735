--------------------------------- MODULE Auth ---------------------------------
(***************************************************************************)
(* Signing in: routers/auth.py and services/auth.py over the tables users, *)
(* user_identities and auth_sessions of models.py.                         *)
(*                                                                         *)
(* A flow is one tab's way through Google and back.  The tabs of a browser *)
(* share its cookies: the state of the login begun last, and the session.  *)
(* A callback reads the identity, then perhaps the user, and writes both   *)
(* with the session in one transaction at its end.  Cookies change when a  *)
(* response arrives.  A Google account (Sub) keeps its subject for ever    *)
(* but may change its address, which somebody else may then take.          *)
(***************************************************************************)
EXTENDS Integers, FiniteSetsExt

CONSTANTS
  Browser, Tab,
  Sub,         \* Google's subject identifiers
  Email,
  NoEmail,     \* a profile or an account without an address
  NoTab,       \* no state cookie
  NoUser,      \* no such row, nobody found
  Allowed,     \* what AUTH_ALLOWED_EMAILS is when it is set
  MaxUser, MaxToken,  \* bounds on ids and on logins
  MaxMoves     \* bound on address changes at Google

Flow == Browser \X Tab
UserId == 1..MaxUser
Token == 1..MaxToken
Address == Email \cup {NoEmail}

ASSUME AuthNames ==
  NoEmail \notin Email /\ NoTab \notin Tab /\ NoUser \notin Email \cup {NoEmail} \cup UserId
ASSUME AuthBounds ==
  /\ MaxUser \in Nat /\ MaxToken \in Nat /\ MaxMoves \in Nat
  /\ Allowed \subseteq Email

VARIABLES
  allowed, allowAll,  \* AUTH_ALLOWED_EMAILS and AUTH_ALLOW_ALL_SIGNINS
  mail,      \* the address each Google account has now
  users,     \* the users table: id -> address
  identity,  \* the user_identities table: subject -> user and address
  session,   \* the auth_sessions table, by token
  flow,      \* where each tab is
  state,     \* each browser's state cookie: the tab whose token it holds
  cookie,    \* each browser's session cookie (0: none)
  leaving,   \* browsers with a logout answered but not yet arrived
  moves

vars == <<allowed, allowAll, mail, users, identity, session, flow, state, cookie,
          leaving, moves>>
tables == <<users, identity, session>>
world == <<allowed, allowAll, mail, moves>>

NoIdentity == [user |-> NoUser, email |-> NoEmail]

\* A session row: whose it is and whether it is unused, valid, or over (deleted,
\* or past its expires_at, which no query distinguishes); sub is the Google account
\* it was issued to, which the row forgets.
NoSession == [user |-> NoUser, sub |-> NoUser, is |-> "unused"]

\* A flow remembers the profile, the user row found and both addresses it
\* loaded; token is the session made; overtaken says that another login or the
\* clock touched the browser's state cookie since this login began.
Idle == [pc |-> "idle", sub |-> NoUser, email |-> NoEmail, found |-> NoUser,
         linked |-> FALSE, userMail |-> NoEmail, idMail |-> NoEmail,
         token |-> 0, overtaken |-> FALSE]

Known == {u \in UserId : users[u] # NoUser}
NextUser == Cardinality(Known) + 1
Unused == {t \in Token : session[t].is = "unused"}
NextToken == Min(Unused)

Init ==
  /\ allowed \in {Allowed, {}}
  /\ allowAll \in IF allowed = {} THEN BOOLEAN ELSE {FALSE}  \* not read otherwise
  /\ mail \in [Sub -> Address]
  /\ \A s, t \in Sub : s # t => mail[s] # mail[t]
  /\ users = [u \in UserId |-> NoUser]
  /\ identity = [s \in Sub |-> NoIdentity]
  /\ session = [t \in Token |-> NoSession]
  /\ flow = [f \in Flow |-> Idle]
  /\ state = [b \in Browser |-> NoTab]
  /\ cookie = [b \in Browser |-> 0]
  /\ leaving = [b \in Browser |-> FALSE]
  /\ moves = 0

-----------------------------------------------------------------------------

\* Flow f becomes g, and the other tabs waiting in its browser are overtaken.
Overtake(f, g) ==
  flow' = [h \in Flow |->
    IF h = f THEN g
    ELSE IF h[1] = f[1] /\ flow[h].pc = "google"
    THEN [flow[h] EXCEPT !.overtaken = TRUE] ELSE flow[h]]

\* start_google_login: the tab goes to Google, its state into the cookie.
Start(f) ==
  /\ flow[f].pc \in {"idle", "refused"}
  /\ Overtake(f, [Idle EXCEPT !.pc = "google"])
  /\ state' = [state EXCEPT ![f[1]] = f[2]]
  /\ UNCHANGED <<world, tables, cookie, leaving>>

\* Any redirect with an auth_error clears the state cookie, whosever it is.
ErrorRedirect(f, g) ==
  /\ Overtake(f, g)
  /\ state' = [state EXCEPT ![f[1]] = NoTab]
  /\ UNCHANGED <<world, tables, cookie, leaving>>

\* The callback comes back with an error: the user cancelled.
Cancel(f) == flow[f].pc = "google" /\ ErrorRedirect(f, Idle)

\* Mutant: the state that was sent is not compared with the cookie's.
Refuse_Always(f) ==
  /\ flow[f].pc = "google"
  /\ ErrorRedirect(f, [flow[f] EXCEPT !.pc = "refused"])

\* invalid_state: the browser's cookie is not this flow's.
Refuse(f) ==
  /\ flow[f].pc = "google"
  /\ state[f[1]] # f[2]
  /\ ErrorRedirect(f, [flow[f] EXCEPT !.pc = "refused"])

\* The state matches: the code is about to be exchanged.
Accept(f) ==
  /\ flow[f].pc = "google"
  /\ state[f[1]] = f[2]
  /\ flow' = [flow EXCEPT ![f].pc = "exchange"]
  /\ UNCHANGED <<world, tables, state, cookie, leaving>>

\* The cookie's ten minutes are over.
StateExpires(b) ==
  /\ state[b] # NoTab
  /\ state' = [state EXCEPT ![b] = NoTab]
  /\ flow' = [h \in Flow |->
       IF h[1] = b /\ flow[h].pc = "google"
       THEN [flow[h] EXCEPT !.overtaken = TRUE] ELSE flow[h]]
  /\ UNCHANGED <<world, tables, cookie, leaving>>

\* email_is_allowed
EmailIsAllowed(e) ==
  IF allowed = {} THEN allowAll ELSE e \in allowed

\* AuthError from Google, or an address that may not sign in.
NotSignedIn(f) ==
  /\ flow[f].pc = "exchange"
  /\ ErrorRedirect(f, Idle)

\* fetch_google_profile and ensure_email_allowed.
FetchProfile(f, s) ==
  /\ flow[f].pc = "exchange"
  /\ EmailIsAllowed(mail[s])
  /\ flow' = [flow EXCEPT ![f].pc = "identity", ![f].sub = s, ![f].email = mail[s]]
  /\ UNCHANGED <<world, tables, state, cookie, leaving>>

\* The identity of this subject, joined with its user.
ReadIdentity(f) ==
  LET id == identity[flow[f].sub] IN
  /\ flow[f].pc = "identity"
  /\ flow' = [flow EXCEPT ![f] =
       IF id # NoIdentity
       THEN [@ EXCEPT !.pc = "store", !.linked = TRUE, !.found = id.user,
                      !.idMail = id.email, !.userMail = users[id.user]]
       ELSE [@ EXCEPT !.pc = IF flow[f].email = NoEmail THEN "store" ELSE "user"]]
  /\ UNCHANGED <<world, tables, state, cookie, leaving>>

\* Otherwise the user with this address.
ReadUser(f) ==
  LET holders == {u \in Known : users[u] = flow[f].email} IN
  /\ flow[f].pc = "user"
  /\ flow' = [flow EXCEPT ![f] =
       IF holders = {} THEN [@ EXCEPT !.pc = "store"]
       ELSE [@ EXCEPT !.pc = "store", !.found = Min(holders),
                      !.userMail = flow[f].email]]
  /\ UNCHANGED <<world, tables, state, cookie, leaving>>

-----------------------------------------------------------------------------
(* What one transaction writes. *)

\* The user of the login: the one found, or a new row.
Account(f) == IF flow[f].found = NoUser THEN NextUser ELSE flow[f].found

\* The address the user row has after the login: an attribute set to the value
\* it was loaded with is not written.
NewAddress(f) ==
  LET g == flow[f] IN
  IF g.found = NoUser THEN g.email
  ELSE IF g.email \in {NoEmail, g.userMail} THEN users[g.found] ELSE g.email

\* Mutants: the identity keeps its address; it goes to whoever has the address
\* now; the user's id is read before the flush that gives it one.
NewIdentity_Frozen(f) ==
  LET g == flow[f] IN
  IF g.linked THEN identity[g.sub]
  ELSE [user |-> Account(f), email |-> g.email]
NewIdentity_ByAddress(f) ==
  LET g == flow[f]
      holders == {u \in Known : users[u] = g.email} IN
  [user |-> IF holders # {} THEN Min(holders) ELSE Account(f), email |-> g.email]
NewIdentity_Unflushed(f) ==
  LET g == flow[f] IN
  IF g.linked
  THEN [identity[g.sub] EXCEPT !.email = IF g.email = g.idMail THEN @ ELSE g.email]
  ELSE [user |-> g.found, email |-> g.email]

\* The identity row after the login.
NewIdentity(f) ==
  LET g == flow[f] IN
  IF g.linked
  THEN [identity[g.sub] EXCEPT !.email = IF g.email = g.idMail THEN @ ELSE g.email]
  ELSE [user |-> Account(f), email |-> g.email]

\* uq_user_identities_provider_user or uq_users_email rejects the write.
Taken(f) ==
  \/ ~flow[f].linked /\ identity[flow[f].sub] # NoIdentity
  \/ /\ NewAddress(f) # NoEmail
     /\ \E u \in Known \ {Account(f)} : users[u] = NewAddress(f)

\* Mutant: the session is made for the user of the browser's last session.
Store_OldSession(f) ==
  /\ flow[f].pc = "store"
  /\ ~Taken(f)
  /\ Account(f) \in UserId
  /\ Unused # {}
  /\ users' = [users EXCEPT ![Account(f)] = NewAddress(f)]
  /\ identity' = [identity EXCEPT ![flow[f].sub] = NewIdentity(f)]
  /\ session' = [session EXCEPT ![NextToken] =
       [user |-> IF cookie[f[1]] # 0 THEN session[cookie[f[1]]].user ELSE Account(f),
        sub |-> flow[f].sub, is |-> "valid"]]
  /\ flow' = [flow EXCEPT ![f].pc = "answer", ![f].token = NextToken]
  /\ UNCHANGED <<world, state, cookie, leaving>>

\* upsert_google_user, create_session and the commit.
Store(f) ==
  /\ flow[f].pc = "store"
  /\ ~Taken(f)
  /\ Account(f) \in UserId
  /\ Unused # {}
  /\ users' = [users EXCEPT ![Account(f)] = NewAddress(f)]
  /\ identity' = [identity EXCEPT ![flow[f].sub] = NewIdentity(f)]
  /\ session' = [session EXCEPT ![NextToken] =
       [user |-> Account(f), sub |-> flow[f].sub, is |-> "valid"]]
  /\ flow' = [flow EXCEPT ![f].pc = "answer", ![f].token = NextToken]
  /\ UNCHANGED <<world, state, cookie, leaving>>

\* Mutant: the new user is committed before its identity is inserted.
Conflict_Early(f) ==
  /\ flow[f].pc = "store"
  /\ Taken(f)
  /\ flow' = [flow EXCEPT ![f] = Idle]
  /\ users' = IF flow[f].found = NoUser /\ NextUser \in UserId
                 /\ \A u \in Known : users[u] # flow[f].email
              THEN [users EXCEPT ![NextUser] = flow[f].email] ELSE users
  /\ UNCHANGED <<world, identity, session, state, cookie, leaving>>

\* IntegrityError is nobody's except: a 500 without cookies, all rolled back.
Conflict(f) ==
  /\ flow[f].pc = "store"
  /\ Taken(f)
  /\ flow' = [flow EXCEPT ![f] = Idle]
  /\ UNCHANGED <<world, tables, state, cookie, leaving>>

\* The success redirect arrives: it sets the session and clears the state.
Arrive(f) ==
  /\ flow[f].pc = "answer"
  /\ Overtake(f, Idle)
  /\ cookie' = [cookie EXCEPT ![f[1]] = flow[f].token]
  /\ state' = [state EXCEPT ![f[1]] = NoTab]
  /\ UNCHANGED <<world, tables, leaving>>

-----------------------------------------------------------------------------

\* logout: the row of the token that was sent is deleted, expired or not ...
Logout(b) ==
  /\ cookie[b] # 0
  /\ ~leaving[b]
  /\ session' = [session EXCEPT ![cookie[b]].is = "over"]
  /\ leaving' = [leaving EXCEPT ![b] = TRUE]
  /\ UNCHANGED <<world, users, identity, flow, state, cookie>>

\* ... and the answer clears the cookie the browser has by then.
LoggedOut(b) ==
  /\ leaving[b]
  /\ cookie' = [cookie EXCEPT ![b] = 0]
  /\ leaving' = [leaving EXCEPT ![b] = FALSE]
  /\ UNCHANGED <<world, tables, flow, state>>

\* expires_at passes; nothing deletes the row.
SessionExpires(t) ==
  /\ session[t].is = "valid"
  /\ session' = [session EXCEPT ![t].is = "over"]
  /\ UNCHANGED <<world, users, identity, flow, state, cookie, leaving>>

\* user_for_session_token
UserForToken(t) ==
  IF t \in Token /\ session[t].is = "valid" THEN session[t].user ELSE NoUser

\* The account's address changes at Google, to one that is free there.
Move(s, e) ==
  /\ moves < MaxMoves
  /\ \A t \in Sub : mail[t] # e
  /\ mail' = [mail EXCEPT ![s] = e]
  /\ moves' = moves + 1
  /\ UNCHANGED <<allowed, allowAll, tables, flow, state, cookie, leaving>>

\* "database is locked": a 500 for this request only.
LockTimeout(f) ==
  /\ flow[f].pc = "store"
  /\ flow' = [flow EXCEPT ![f] = Idle]
  /\ UNCHANGED <<world, tables, state, cookie, leaving>>

\* The server is killed: callbacks and answers in flight are lost.
Crash ==
  /\ flow' = [f \in Flow |->
       IF flow[f].pc \in {"google", "refused"} THEN flow[f] ELSE Idle]
  /\ leaving' = [b \in Browser |-> FALSE]
  /\ UNCHANGED <<world, tables, state, cookie>>

Callback(f) ==
  \/ Refuse(f) \/ Accept(f) \/ NotSignedIn(f)
  \/ \E s \in Sub : FetchProfile(f, s)
  \/ ReadIdentity(f) \/ ReadUser(f)
  \/ Store(f) \/ Conflict(f) \/ Arrive(f)

Next ==
  \/ \E f \in Flow : Start(f) \/ Cancel(f) \/ Callback(f) \/ LockTimeout(f)
  \/ \E b \in Browser : Logout(b) \/ LoggedOut(b) \/ StateExpires(b)
  \/ \E t \in Token : SessionExpires(t)
  \/ \E s \in Sub, e \in Address : Move(s, e)
  \/ Crash

Spec == Init /\ [][Next]_vars

-----------------------------------------------------------------------------

\* The tables, cookies and flows are well typed: nothing half read is stored.
TypeOK ==
  /\ allowed \in {Allowed, {}}
  /\ allowAll \in BOOLEAN
  /\ mail \in [Sub -> Address]
  /\ users \in [UserId -> Address \cup {NoUser}]
  /\ identity \in [Sub -> [user: UserId, email: Address] \cup {NoIdentity}]
  /\ session \in [Token ->
       [user: UserId, sub: Sub, is: {"valid", "over"}]
         \cup {NoSession}]
  /\ flow \in [Flow ->
       [pc: {"idle", "google", "refused", "exchange", "identity", "user",
             "store", "answer"},
        sub: Sub \cup {NoUser}, email: Address, found: UserId \cup {NoUser},
        linked: BOOLEAN, userMail: Address, idMail: Address,
        token: Token \cup {0}, overtaken: BOOLEAN]]
  /\ state \in [Browser -> Tab \cup {NoTab}]
  /\ cookie \in [Browser -> Token \cup {0}]
  /\ leaving \in [Browser -> BOOLEAN]
  /\ moves \in 0..MaxMoves

\* A session authenticates the account its Google subject is linked to,
\* whatever other logins of that subject or address ran at the same time.
SessionOfItsAccount ==
  \A t \in Token :
    UserForToken(t) # NoUser => identity[session[t].sub].user = UserForToken(t)

\* However first logins race or fail, no account is left without an identity.
NoEmptyAccount == \A u \in Known : \E s \in Sub : identity[s].user = u

\* The account of a single Google subject has the address that subject's row
\* has, although logins with an older and a newer address may cross: both rows
\* are written or neither.  (With profiles without an address the two may part.)
AddressIsCurrent ==
  \A s \in Sub :
    /\ allowed # {}
    /\ identity[s] # NoIdentity
    /\ \A r \in Sub \ {s} : identity[r].user # identity[s].user
    => users[identity[s].user] = identity[s].email

\* A login is refused as invalid_state only if another login of the same
\* browser, or its ten minutes, came between.
OnlyOvertakenRefused == \A f \in Flow : flow[f].pc = "refused" => flow[f].overtaken

\* A Google subject stays linked to the account it was first linked to, also
\* when its address changes to or from one that another account has.
IdentityKept ==
  [][\A s \in Sub : identity[s] # NoIdentity => identity'[s].user = identity[s].user]_vars

=============================================================================
