----------------------------- MODULE AuthProofs -----------------------------
(***************************************************************************)
(* Theorems about Auth, for every set of browsers, tabs, Google accounts   *)
(* and addresses and all bounds on ids, logins and moves.                  *)
(***************************************************************************)
EXTENDS Auth, FiniteSetTheorems, WellFoundedInduction, TLAPS

\* What a tab may be doing.
FlowState ==
  [pc: {"idle", "google", "refused", "exchange", "identity", "user", "store", "answer"},
   sub: Sub \cup {NoUser}, email: Address, found: UserId \cup {NoUser},
   linked: BOOLEAN, userMail: Address, idMail: Address,
   token: Token \cup {0}, overtaken: BOOLEAN]

\* s is the only Google account linked to its account here.
Sole(s) ==
  identity[s] # NoIdentity /\ \A r \in Sub \ {s} : identity[r].user # identity[s].user

\* What a flow has read is still true of the tables, as far as it never changes:
\* the account found exists, and an identity found is linked to it.  If it is the
\* account's only one, both had the same address.
FlowOK(g) ==
  /\ g.pc \notin {"store", "answer"} => ~g.linked /\ g.found = NoUser
  /\ g.pc \in {"identity", "user", "store", "answer"} =>
       g.sub \in Sub /\ (allowed # {} => g.email \in Email)
  /\ g.found # NoUser => g.found \in Known
  /\ g.linked => /\ identity[g.sub] # NoIdentity
                 /\ g.found = identity[g.sub].user
                 /\ allowed # {} /\ Sole(g.sub) => g.userMail = g.idMail
  /\ g.pc = "answer" => g.token \in Token /\ session[g.token].is # "unused"

FlowInv == \A f \in Flow : FlowOK(flow[f])

\* A session, once made, is for the account that its subject is linked to; only
\* such sessions are in cookies.
SessionInv ==
  /\ \A t \in Token : session[t].is # "unused" =>
       /\ identity[session[t].sub] # NoIdentity
       /\ identity[session[t].sub].user = session[t].user
  /\ \A b \in Browser : cookie[b] # 0 => session[cookie[b]].is # "unused"

\* Accounts are numbered as they come, and identities are linked to them.
AccountInv ==
  /\ \E n \in 0..MaxUser : Known = 1..n
  /\ \A s \in Sub : identity[s] # NoIdentity => identity[s].user \in Known
  /\ NoEmptyAccount
  /\ AddressIsCurrent

\* The induction for all but the state cookie.
AuthInv == TypeOK /\ FlowInv /\ SessionInv /\ AccountInv

-----------------------------------------------------------------------------
(* Ids. *)

\* A non-empty set of naturals has a minimum.
LEMMA MinIsMember ==
  ASSUME NEW S \in SUBSET Nat, S # {}
  PROVE  Min(S) \in S
  <1>1. \E x \in S : \A y \in S : ~(<<y, x>> \in OpToRel(<, Nat))
    BY WFMin, NatLessThanWellFounded
  <1>2. PICK x \in S : \A y \in S : ~(y < x)
    BY <1>1 DEF OpToRel
  <1>3. \A y \in S : x <= y
    BY <1>2
  <1> QED BY <1>3 DEF Min

\* The id of a new account is the next one.
LEMMA NextUserIsNew ==
  ASSUME AccountInv
  PROVE  /\ NextUser \notin Known
         /\ NextUser \in UserId => \E n \in 0..MaxUser : Known \cup {NextUser} = 1..n
  <1>1. PICK n \in 0..MaxUser : Known = 1..n
    BY DEF AccountInv
  <1>2. n \in Nat /\ MaxUser \in Nat
    BY AuthBounds
  <1>3. Cardinality(1..n) = n
    BY <1>2, FS_Interval
  <1>4. NextUser = n + 1
    BY <1>1, <1>3 DEF NextUser
  <1>5. (1..n) \cup {n + 1} = 1..(n + 1)
    BY <1>2
  <1> QED BY <1>1, <1>2, <1>4, <1>5 DEF UserId

-----------------------------------------------------------------------------
(* Steps that read. *)

\* An idle flow knows nothing.
LEMMA IdleOK == Idle \in FlowState /\ FlowOK(Idle)
  BY DEF Idle, FlowState, FlowOK, Address

\* A step that changes flows only, and the cookies of states, keeps the invariant
\* if the flows do.
LEMMA FlowsOnly ==
  ASSUME AuthInv, flow' \in [Flow -> FlowState], \A f \in Flow : FlowOK(flow'[f]),
         state' \in [Browser -> Tab \cup {NoTab}],
         UNCHANGED <<allowed, allowAll, mail, moves, tables>>,
         cookie' = cookie, leaving' \in [Browser -> BOOLEAN]
  PROVE  AuthInv'
  <1>1. TypeOK'
    BY DEF AuthInv, TypeOK, FlowState, tables
  <1>2. FlowInv'
    BY DEF FlowInv, FlowOK, Known, Sole, tables
  <1>3. SessionInv' /\ AccountInv'
    BY DEF AuthInv, SessionInv, AccountInv, NoEmptyAccount, AddressIsCurrent, Known, tables
  <1> QED BY <1>1, <1>2, <1>3 DEF AuthInv

\* Being overtaken changes nothing that was read.
LEMMA OvertakenOK ==
  ASSUME NEW g \in FlowState, FlowOK(g)
  PROVE  /\ [g EXCEPT !.overtaken = TRUE] \in FlowState
         /\ FlowOK([g EXCEPT !.overtaken = TRUE])
  <1>1. PICK k : k = [g EXCEPT !.overtaken = TRUE]
    OBVIOUS
  <1>2. /\ k \in FlowState /\ k.pc = g.pc /\ k.sub = g.sub /\ k.email = g.email
        /\ k.found = g.found /\ k.linked = g.linked /\ k.userMail = g.userMail
        /\ k.idMail = g.idMail /\ k.token = g.token
    BY <1>1 DEF FlowState
  <1>3. FlowOK(k)
    BY <1>2 DEF FlowOK
  <1> QED BY <1>1, <1>2, <1>3

\* A flow changes and the other tabs of its browser are overtaken.
LEMMA OvertakeOK ==
  ASSUME AuthInv, NEW f \in Flow, NEW g \in FlowState, FlowOK(g), Overtake(f, g)
  PROVE  flow' \in [Flow -> FlowState] /\ \A h \in Flow : FlowOK(flow'[h])
  <1> SUFFICES ASSUME NEW h \in Flow PROVE flow'[h] \in FlowState /\ FlowOK(flow'[h])
    BY DEF Overtake
  <1>1. flow[h] \in FlowState /\ FlowOK(flow[h])
    BY DEF AuthInv, FlowInv, TypeOK, FlowState
  <1>2. \/ flow'[h] = g
        \/ flow'[h] = flow[h]
        \/ flow'[h] = [flow[h] EXCEPT !.overtaken = TRUE]
    BY DEF Overtake
  <1> QED BY <1>1, <1>2, OvertakenOK

\* A flow changes, alone.
LEMMA OneFlow ==
  ASSUME AuthInv, NEW f \in Flow, NEW g \in FlowState, FlowOK(g),
         flow' = [flow EXCEPT ![f] = g]
  PROVE  flow' \in [Flow -> FlowState] /\ \A h \in Flow : FlowOK(flow'[h])
  <1>1. flow \in [Flow -> FlowState] /\ \A h \in Flow : FlowOK(flow[h])
    BY DEF AuthInv, FlowInv, TypeOK, FlowState
  <1> QED BY <1>1

\* Before the profile nothing has been read: a login may be accepted, refused or
\* dropped.
LEMMA SameReading ==
  ASSUME NEW g \in FlowState, NEW p \in {"idle", "google", "refused", "exchange"},
         FlowOK(g), g.pc \in {"google", "exchange"}
  PROVE  [g EXCEPT !.pc = p] \in FlowState /\ FlowOK([g EXCEPT !.pc = p])
  <1>1. /\ [g EXCEPT !.pc = p].pc = p /\ [g EXCEPT !.pc = p].linked = g.linked
        /\ [g EXCEPT !.pc = p].found = g.found
        /\ [g EXCEPT !.pc = p] \in FlowState
    BY DEF FlowState
  <1> QED BY <1>1 DEF FlowOK

\* Steps before anything is read, and those that give a login up.
LEMMA EarlySteps ==
  ASSUME AuthInv, NEW f \in Flow,
         Start(f) \/ Cancel(f) \/ Refuse(f) \/ Accept(f) \/ NotSignedIn(f)
           \/ Conflict(f) \/ LockTimeout(f)
  PROVE  AuthInv'
  <1>1. flow[f] \in FlowState /\ FlowOK(flow[f]) /\ f[1] \in Browser /\ f[2] \in Tab
    BY DEF AuthInv, FlowInv, TypeOK, FlowState, Flow
  <1>2. state \in [Browser -> Tab \cup {NoTab}] /\ leaving \in [Browser -> BOOLEAN]
    BY DEF AuthInv, TypeOK
  <1>3. CASE Start(f)
    <2>1. LET g == [Idle EXCEPT !.pc = "google"] IN g \in FlowState /\ FlowOK(g)
      BY DEF Idle, FlowState, FlowOK, Address
    <2> QED BY <1>1, <1>2, <1>3, <2>1, OvertakeOK, FlowsOnly DEF Start, world
  <1>4. CASE Cancel(f) \/ NotSignedIn(f)
    BY <1>1, <1>2, <1>4, IdleOK, OvertakeOK, FlowsOnly
       DEF Cancel, NotSignedIn, ErrorRedirect, world
  <1>5. CASE Refuse(f)
    BY <1>1, <1>2, <1>5, SameReading, OvertakeOK, FlowsOnly DEF Refuse, ErrorRedirect, world
  <1>6. CASE Accept(f)
    BY <1>1, <1>2, <1>6, SameReading, OneFlow, FlowsOnly DEF Accept, world
  <1>7. CASE Conflict(f) \/ LockTimeout(f)
    BY <1>1, <1>2, <1>7, IdleOK, OneFlow, FlowsOnly DEF Conflict, LockTimeout, world
  <1> QED BY <1>3, <1>4, <1>5, <1>6, <1>7

\* The clock clears a state cookie, and a killed server forgets its callbacks.
LEMMA ClockAndCrash ==
  ASSUME AuthInv, Crash \/ \E b \in Browser : StateExpires(b)
  PROVE  AuthInv'
  <1>1. /\ state \in [Browser -> Tab \cup {NoTab}] /\ leaving \in [Browser -> BOOLEAN]
        /\ flow \in [Flow -> FlowState] /\ \A h \in Flow : FlowOK(flow[h])
    BY DEF AuthInv, FlowInv, TypeOK, FlowState
  <1>2. CASE Crash
    <2>1. flow' \in [Flow -> FlowState] /\ \A h \in Flow : FlowOK(flow'[h])
      BY <1>1, <1>2, IdleOK DEF Crash
    <2> QED BY <1>1, <1>2, <2>1, FlowsOnly DEF Crash, world
  <1>3. CASE \E b \in Browser : StateExpires(b)
    <2>1. PICK b \in Browser : StateExpires(b)
      BY <1>3
    <2>2. ASSUME NEW h \in Flow
          PROVE  flow'[h] \in FlowState /\ FlowOK(flow'[h])
      BY <1>1, <2>1, <2>2, OvertakenOK DEF StateExpires
    <2>3. flow' \in [Flow -> FlowState]
      BY <2>1, <2>2 DEF StateExpires
    <2>4. state' \in [Browser -> Tab \cup {NoTab}]
      BY <1>1, <2>1 DEF StateExpires
    <2> QED BY <1>1, <2>1, <2>2, <2>3, <2>4, FlowsOnly DEF StateExpires, world
  <1> QED BY <1>2, <1>3

\* The profile: an address that may sign in, of some Google account.
LEMMA FetchProfileKeeps ==
  ASSUME AuthInv, NEW f \in Flow, NEW s \in Sub, FetchProfile(f, s)
  PROVE  AuthInv'
  <1>1. flow \in [Flow -> FlowState] /\ FlowOK(flow[f]) /\ mail[s] \in Address
    BY DEF AuthInv, FlowInv, TypeOK, FlowState
  <1>2. PICK g : g = [flow[f] EXCEPT !.pc = "identity", !.sub = s, !.email = mail[s]]
    OBVIOUS
  <1>3. /\ g \in FlowState /\ g.pc = "identity" /\ g.sub = s /\ g.email = mail[s]
        /\ g.found = flow[f].found /\ g.linked = flow[f].linked
    BY <1>1, <1>2 DEF FlowState
  <1>4. flow[f].pc = "exchange" /\ (allowed # {} => mail[s] \in Email)
    BY AuthBounds DEF FetchProfile, EmailIsAllowed, AuthInv, TypeOK
  <1>5. FlowOK(g)
    BY <1>1, <1>3, <1>4 DEF FlowOK
  <1>6. flow' = [flow EXCEPT ![f] = g]
    BY <1>1, <1>2 DEF FetchProfile
  <1> QED BY <1>3, <1>5, <1>6, OneFlow, FlowsOnly DEF FetchProfile, world, AuthInv, TypeOK

\* What it means to be linked.
LEMMA Linked ==
  ASSUME AuthInv, NEW s \in Sub, identity[s] # NoIdentity
  PROVE  /\ identity[s] \in [user: UserId, email: Address]
         /\ identity[s].user \in Known /\ identity[s].user # NoUser
         /\ users[identity[s].user] \in Address
  BY AuthNames DEF AuthInv, TypeOK, AccountInv, Known

\* The identity of the subject and its user's row, read together.
LEMMA ReadIdentityKeeps ==
  ASSUME AuthInv, NEW f \in Flow, ReadIdentity(f)
  PROVE  AuthInv'
  <1> DEFINE id == identity[flow[f].sub]
             linked == [flow[f] EXCEPT !.pc = "store", !.linked = TRUE, !.found = id.user,
                          !.idMail = id.email, !.userMail = users[id.user]]
             unlinked == [flow[f] EXCEPT
                            !.pc = IF flow[f].email = NoEmail THEN "store" ELSE "user"]
  <1>1. /\ flow \in [Flow -> FlowState] /\ flow[f] \in FlowState /\ FlowOK(flow[f])
        /\ flow[f].pc = "identity" /\ flow[f].sub \in Sub
    BY DEF AuthInv, FlowInv, TypeOK, FlowState, ReadIdentity, FlowOK
  <1>2. CASE id # NoIdentity
    <2>1. PICK g : g = linked
      OBVIOUS
    <2>2. /\ id \in [user: UserId, email: Address]
          /\ id.user \in Known /\ id.user # NoUser /\ users[id.user] \in Address
      BY <1>1, <1>2, Linked
    <2>3. /\ g \in FlowState /\ g.pc = "store" /\ g.sub = flow[f].sub
          /\ g.email = flow[f].email /\ g.found = id.user /\ g.linked
          /\ g.userMail = users[id.user] /\ g.idMail = id.email
      BY <1>1, <2>1, <2>2 DEF FlowState
    <2>4. allowed # {} /\ Sole(g.sub) => g.userMail = g.idMail
      BY <1>1, <2>3 DEF AuthInv, AccountInv, AddressIsCurrent, Sole
    <2>5. FlowOK(g)
      BY <1>1, <1>2, <2>2, <2>3, <2>4 DEF FlowOK
    <2>6. flow' = [flow EXCEPT ![f] = g]
      BY <1>1, <1>2, <2>1 DEF ReadIdentity
    <2> QED BY <2>3, <2>5, <2>6, OneFlow, FlowsOnly
            DEF ReadIdentity, world, AuthInv, TypeOK
  <1>3. CASE id = NoIdentity
    <2>1. PICK g : g = unlinked
      OBVIOUS
    <2>2. /\ g \in FlowState /\ g.pc \in {"store", "user"} /\ g.sub = flow[f].sub
          /\ g.email = flow[f].email /\ g.found = flow[f].found
          /\ g.linked = flow[f].linked
      BY <1>1, <2>1 DEF FlowState
    <2>3. FlowOK(g)
      BY <1>1, <2>2 DEF FlowOK
    <2>4. flow' = [flow EXCEPT ![f] = g]
      BY <1>1, <1>3, <2>1 DEF ReadIdentity
    <2> QED BY <2>2, <2>3, <2>4, OneFlow, FlowsOnly
            DEF ReadIdentity, world, AuthInv, TypeOK
  <1> QED BY <1>2, <1>3

\* The user with the profile's address.
LEMMA ReadUserKeeps ==
  ASSUME AuthInv, NEW f \in Flow, ReadUser(f)
  PROVE  AuthInv'
  <1> DEFINE holders == {u \in Known : users[u] = flow[f].email}
  <1>1. /\ flow \in [Flow -> FlowState] /\ flow[f] \in FlowState /\ FlowOK(flow[f])
        /\ flow[f].pc = "user"
    BY DEF AuthInv, FlowInv, TypeOK, FlowState, ReadUser
  <1>2. holders # {} => Min(holders) \in Known
    <2>1. holders \in SUBSET Nat
      BY AuthBounds DEF Known, UserId
    <2> QED BY <2>1, MinIsMember
  <1>3. PICK g : g = IF holders = {} THEN [flow[f] EXCEPT !.pc = "store"]
                     ELSE [flow[f] EXCEPT !.pc = "store", !.found = Min(holders),
                                          !.userMail = flow[f].email]
    OBVIOUS
  <1>4. /\ g \in FlowState /\ g.pc = "store" /\ g.sub = flow[f].sub
        /\ g.email = flow[f].email /\ g.linked = flow[f].linked
        /\ g.found = IF holders = {} THEN flow[f].found ELSE Min(holders)
    <2>1. CASE holders = {}
      BY <1>1, <1>3, <2>1 DEF FlowState
    <2>2. CASE holders # {}
      <3>1. Min(holders) \in UserId
        BY <1>2, <2>2 DEF Known
      <3> QED BY <1>1, <1>3, <2>2, <3>1 DEF FlowState
    <2> QED BY <2>1, <2>2
  <1>5. FlowOK(g)
    BY <1>1, <1>2, <1>4 DEF FlowOK
  <1>6. flow' = [flow EXCEPT ![f] = g]
    BY <1>1, <1>3 DEF ReadUser
  <1> QED BY <1>4, <1>5, <1>6, OneFlow, FlowsOnly DEF ReadUser, world, AuthInv, TypeOK

-----------------------------------------------------------------------------
(* Steps on the cookies and the tables. *)

\* The answer brings the browser a session that was made.
LEMMA ArriveKeeps ==
  ASSUME AuthInv, NEW f \in Flow, Arrive(f)
  PROVE  AuthInv'
  <1>1. /\ flow[f] \in FlowState /\ FlowOK(flow[f]) /\ f[1] \in Browser
        /\ flow[f].token \in Token /\ session[flow[f].token].is # "unused"
    BY DEF AuthInv, FlowInv, TypeOK, FlowState, Flow, Arrive, FlowOK
  <1>2. flow' \in [Flow -> FlowState] /\ \A h \in Flow : FlowOK(flow'[h])
    BY <1>1, IdleOK, OvertakeOK DEF Arrive
  <1>3. TypeOK'
    BY <1>1, <1>2 DEF AuthInv, TypeOK, FlowState, Arrive, world, tables
  <1>4. FlowInv'
    BY <1>2 DEF FlowInv, FlowOK, Known, Sole, Arrive, world, tables
  <1>5. AccountInv'
    BY DEF AuthInv, AccountInv, NoEmptyAccount, AddressIsCurrent, Known, Arrive,
           world, tables
  <1>6. SessionInv'
    BY <1>1 DEF AuthInv, SessionInv, TypeOK, Arrive, tables
  <1> QED BY <1>3, <1>4, <1>5, <1>6 DEF AuthInv

\* A session is deleted or expires.
LEMMA SessionEnds ==
  ASSUME AuthInv, NEW t \in Token, session[t].is # "unused",
         session' = [session EXCEPT ![t].is = "over"], cookie' = cookie,
         UNCHANGED <<world, users, identity, flow, state>>,
         leaving' \in [Browser -> BOOLEAN]
  PROVE  AuthInv'
  <1>1. /\ session[t] \in [user: UserId, sub: Sub, is: {"valid", "over"}]
        /\ session \in [Token -> [user: UserId, sub: Sub, is: {"valid", "over"}]
                                   \cup {NoSession}]
    BY DEF AuthInv, TypeOK, NoSession
  <1>2. /\ session' \in [Token -> [user: UserId, sub: Sub, is: {"valid", "over"}]
                                    \cup {NoSession}]
        /\ \A r \in Token : /\ session'[r].is = "unused" <=> session[r].is = "unused"
                            /\ session'[r].sub = session[r].sub
                            /\ session'[r].user = session[r].user
    BY <1>1
  <1>3. TypeOK'
    BY <1>2 DEF AuthInv, TypeOK, world
  <1>4. FlowInv'
    BY <1>2 DEF AuthInv, FlowInv, FlowOK, Known, Sole, world
  <1>5. AccountInv'
    BY DEF AuthInv, AccountInv, NoEmptyAccount, AddressIsCurrent, Known, world
  <1>6. SessionInv'
    <2>1. \A b \in Browser : cookie[b] # 0 => cookie[b] \in Token
      BY DEF AuthInv, TypeOK
    <2> QED BY <1>2, <2>1 DEF AuthInv, SessionInv
  <1> QED BY <1>3, <1>4, <1>5, <1>6 DEF AuthInv

\* Logging out, session expiry and moves at Google.
LEMMA OutsideSteps ==
  ASSUME AuthInv,
         \/ \E b \in Browser : Logout(b) \/ LoggedOut(b)
         \/ \E t \in Token : SessionExpires(t)
         \/ \E s \in Sub, e \in Address : Move(s, e)
  PROVE  AuthInv'
  <1>1. ASSUME NEW b \in Browser, Logout(b) PROVE AuthInv'
    <2>1. cookie[b] \in Token /\ session[cookie[b]].is # "unused"
      BY <1>1 DEF AuthInv, TypeOK, SessionInv, Logout
    <2>2. leaving' \in [Browser -> BOOLEAN]
      BY <1>1 DEF AuthInv, TypeOK, Logout
    <2> QED BY <1>1, <2>1, <2>2, SessionEnds DEF Logout
  <1>2. ASSUME NEW b \in Browser, LoggedOut(b) PROVE AuthInv'
    <2>1. TypeOK'
      BY <1>2 DEF AuthInv, TypeOK, LoggedOut, world, tables
    <2>2. FlowInv'
      BY <1>2 DEF AuthInv, FlowInv, FlowOK, Known, Sole, LoggedOut, world, tables
    <2>3. AccountInv'
      BY <1>2 DEF AuthInv, AccountInv, NoEmptyAccount, AddressIsCurrent, Known,
                  LoggedOut, world, tables
    <2>4. SessionInv'
      BY <1>2 DEF AuthInv, SessionInv, TypeOK, LoggedOut, tables
    <2> QED BY <2>1, <2>2, <2>3, <2>4 DEF AuthInv
  <1>3. ASSUME NEW t \in Token, SessionExpires(t) PROVE AuthInv'
    BY <1>3, SessionEnds DEF SessionExpires, AuthInv, TypeOK
  <1>4. ASSUME NEW s \in Sub, NEW e \in Address, Move(s, e) PROVE AuthInv'
    <2>1. TypeOK'
      BY <1>4, AuthBounds DEF AuthInv, TypeOK, Move, tables
    <2>2. FlowInv'
      BY <1>4 DEF AuthInv, FlowInv, FlowOK, Known, Sole, Move, tables
    <2>3. AccountInv' /\ SessionInv'
      BY <1>4 DEF AuthInv, AccountInv, NoEmptyAccount, AddressIsCurrent, Known,
                  SessionInv, Move, tables
    <2> QED BY <2>1, <2>2, <2>3 DEF AuthInv
  <1> QED BY <1>1, <1>2, <1>3, <1>4

-----------------------------------------------------------------------------
(* The transaction at the end of a login. *)

\* What the transaction writes: the address of one account, which it makes or
\* found, and the subject's link to it, which it makes or found.
LEMMA StoreWrites ==
  ASSUME AuthInv, NEW f \in Flow, Store(f)
  PROVE  /\ flow \in [Flow -> FlowState] /\ FlowOK(flow[f])
         /\ flow[f].pc = "store" /\ flow[f].sub \in Sub
         /\ NewAddress(f) \in Address
         /\ NewIdentity(f) \in [user: UserId, email: Address]
         /\ NewIdentity(f).user = Account(f)
         /\ Known' = Known \cup {Account(f)}
         /\ IF flow[f].linked
            THEN identity[flow[f].sub] # NoIdentity
                 /\ identity[flow[f].sub].user = Account(f)
            ELSE identity[flow[f].sub] = NoIdentity
         /\ IF flow[f].found = NoUser THEN Account(f) = NextUser
            ELSE Account(f) = flow[f].found /\ Account(f) \in Known
         /\ NextToken \in Token /\ session[NextToken].is = "unused"
  <1> DEFINE g == flow[f]
  <1>1. /\ flow \in [Flow -> FlowState] /\ g \in FlowState /\ FlowOK(g)
        /\ g.pc = "store" /\ g.sub \in Sub /\ Account(f) \in UserId /\ ~Taken(f)
    BY DEF AuthInv, FlowInv, TypeOK, FlowState, Store, FlowOK
  <1>2. g.found # NoUser => g.found \in Known
    BY <1>1 DEF FlowOK
  <1>3. NewAddress(f) \in Address
    BY <1>1, <1>2 DEF NewAddress, Known, AuthInv, TypeOK, FlowState
  <1>4. IF g.linked THEN identity[g.sub] # NoIdentity /\ identity[g.sub].user = g.found
        ELSE identity[g.sub] = NoIdentity
    BY <1>1 DEF FlowOK, Taken
  <1>5. g.linked => g.found # NoUser /\ identity[g.sub] \in [user: UserId, email: Address]
    BY <1>1, <1>4, Linked
  <1>6. NewIdentity(f) \in [user: UserId, email: Address] /\ NewIdentity(f).user = Account(f)
    <2>1. CASE g.linked
      <3>1. Account(f) = identity[g.sub].user
        BY <2>1, <1>4, <1>5 DEF Account
      <3>2. g.email \in Address
        BY <1>1 DEF FlowState
      <3> QED BY <2>1, <1>5, <3>1, <3>2 DEF NewIdentity
    <2>2. CASE ~g.linked
      <3>1. g.email \in Address
        BY <1>1 DEF FlowState
      <3> QED BY <2>2, <1>1, <3>1 DEF NewIdentity
    <2> QED BY <2>1, <2>2
  <1>7. Known' = Known \cup {Account(f)}
    BY <1>1, <1>3, AuthNames DEF Known, Store, AuthInv, TypeOK, Address
  <1>8. NextToken \in Unused
    <2>1. Unused \in SUBSET Nat /\ Unused # {}
      BY AuthBounds DEF Unused, Token, Store
    <2> QED BY <2>1, MinIsMember DEF NextToken
  <1> QED BY <1>1, <1>2, <1>3, <1>4, <1>5, <1>6, <1>7, <1>8 DEF Account, Unused

\* The transaction keeps what every flow has read true.
LEMMA StoreFlows ==
  ASSUME AuthInv, NEW f \in Flow, Store(f)
  PROVE  flow' \in [Flow -> FlowState] /\ FlowInv'
  <1> DEFINE s == flow[f].sub
  <1>1. /\ flow \in [Flow -> FlowState] /\ s \in Sub /\ flow[f].pc = "store"
        /\ NewIdentity(f) \in [user: UserId, email: Address]
        /\ NewIdentity(f).user = Account(f)
        /\ Known \subseteq Known'
        /\ identity[s] # NoIdentity => identity[s].user = Account(f)
        /\ NextToken \in Token /\ session[NextToken].is = "unused"
    BY StoreWrites
  <1>2. /\ identity' = [identity EXCEPT ![s] = NewIdentity(f)]
        /\ session' = [session EXCEPT ![NextToken] =
              [user |-> Account(f), sub |-> s, is |-> "valid"]]
        /\ allowed' = allowed
        /\ identity \in [Sub -> [user: UserId, email: Address] \cup {NoIdentity}]
        /\ DOMAIN session = Token
    BY DEF Store, world, AuthInv, TypeOK
  <1>3. ASSUME NEW r \in Sub, identity[r] # NoIdentity
        PROVE  /\ identity'[r] # NoIdentity
               /\ identity'[r].user = identity[r].user
               /\ Sole(r)' => Sole(r)
    <2>1. ASSUME NEW q \in Sub, identity[q] # NoIdentity
          PROVE  identity'[q] # NoIdentity /\ identity'[q].user = identity[q].user
      BY <1>1, <1>2, <2>1, AuthNames DEF NoIdentity
    <2>2. identity[r].user # NoUser
      BY <1>3, Linked
    <2> QED BY <1>3, <2>1, <2>2 DEF Sole, NoIdentity
  <1>4. \A t \in Token : session[t].is # "unused" => session'[t].is # "unused"
    BY <1>2
  <1>5. session'[NextToken].is # "unused"
    BY <1>1, <1>2
  <1>6. ASSUME NEW h \in Flow PROVE flow'[h] \in FlowState /\ FlowOK(flow[h])'
    <2>1. flow[h] \in FlowState /\ FlowOK(flow[h])
      BY <1>1 DEF AuthInv, FlowInv
    <2>2. ASSUME NEW k \in FlowState, k.pc = flow[h].pc \/ (k.pc = "answer" /\ h = f),
                 k.sub = flow[h].sub, k.email = flow[h].email, k.found = flow[h].found,
                 k.linked = flow[h].linked, k.userMail = flow[h].userMail,
                 k.idMail = flow[h].idMail,
                 k.pc = "answer" => k.token \in Token /\ session'[k.token].is # "unused"
          PROVE  /\ k.pc \notin {"store", "answer"} => ~k.linked /\ k.found = NoUser
                 /\ k.pc \in {"identity", "user", "store", "answer"} =>
                      k.sub \in Sub /\ (allowed' # {} => k.email \in Email)
                 /\ k.found # NoUser => k.found \in Known'
                 /\ k.linked => /\ identity'[k.sub] # NoIdentity
                                /\ k.found = identity'[k.sub].user
                                /\ allowed' # {} /\ Sole(k.sub)' => k.userMail = k.idMail
                 /\ k.pc = "answer" => k.token \in Token /\ session'[k.token].is # "unused"
      <3>1. k.linked => k.sub \in Sub
        BY <2>1, <2>2, <1>1 DEF FlowOK
      <3> QED BY <1>1, <1>2, <1>3, <2>1, <2>2, <3>1 DEF FlowOK
    <2>3. CASE h = f
      <3>1. flow'[f] = [flow[f] EXCEPT !.pc = "answer", !.token = NextToken]
        BY <1>1 DEF Store
      <3>2. PICK k : k = [flow[f] EXCEPT !.pc = "answer", !.token = NextToken]
        OBVIOUS
      <3>3. /\ k \in FlowState /\ k.pc = "answer" /\ k.token = NextToken
            /\ k.sub = flow[f].sub /\ k.email = flow[f].email /\ k.found = flow[f].found
            /\ k.linked = flow[f].linked /\ k.userMail = flow[f].userMail
            /\ k.idMail = flow[f].idMail
        BY <1>1, <3>2 DEF FlowState
      <3> QED BY <1>1, <1>5, <2>2, <2>3, <3>1, <3>2, <3>3 DEF FlowOK
    <2>4. CASE h # f
      <3>1. flow'[h] = flow[h]
        BY <1>1, <2>4 DEF Store
      <3>2. flow[h].pc = "answer" =>
              flow[h].token \in Token /\ session'[flow[h].token].is # "unused"
        BY <1>4, <2>1 DEF FlowOK
      <3> QED BY <2>1, <2>2, <3>1, <3>2 DEF FlowOK
    <2> QED BY <2>3, <2>4
  <1>7. flow' \in [Flow -> FlowState]
    BY <1>1, <1>6 DEF Store
  <1> QED BY <1>6, <1>7 DEF FlowInv

\* The transaction keeps accounts linked and the address of an account with a
\* single subject the one of that subject's row: the two rows are compared with
\* what was read together, so both are written or neither is.
LEMMA StoreAddress ==
  ASSUME AuthInv, NEW f \in Flow, Store(f)
  PROVE  AddressIsCurrent'
  <1> DEFINE g == flow[f]
             s == flow[f].sub
             a == Account(f)
  <1>1. /\ FlowOK(g) /\ s \in Sub /\ g.pc = "store" /\ a \in UserId
        /\ NewIdentity(f) \in [user: UserId, email: Address] /\ NewIdentity(f).user = a
        /\ IF g.linked THEN identity[s] # NoIdentity /\ identity[s].user = a
           ELSE identity[s] = NoIdentity
        /\ IF g.found = NoUser THEN a = NextUser ELSE a = g.found /\ a \in Known
    BY StoreWrites DEF Store
  <1>2. /\ identity' = [identity EXCEPT ![s] = NewIdentity(f)]
        /\ users' = [users EXCEPT ![a] = NewAddress(f)]
        /\ allowed' = allowed
        /\ DOMAIN identity = Sub /\ DOMAIN users = UserId
    BY DEF Store, world, AuthInv, TypeOK
  <1>3. SUFFICES ASSUME NEW r \in Sub, allowed # {}, identity'[r] # NoIdentity,
                        \A q \in Sub \ {r} : identity'[q].user # identity'[r].user
                 PROVE  users'[identity'[r].user] = identity'[r].email
    BY <1>2 DEF AddressIsCurrent
  <1>4. CASE r # s
    <2>1. identity'[r] = identity[r] /\ identity'[s].user = a
      BY <1>1, <1>2, <1>4
    <2>2. identity[r].user # a
      BY <1>3, <1>4, <1>1, <2>1
    <2>3. identity[s] # NoIdentity => identity[s].user # identity[r].user
      BY <1>1, <2>2
    <2>4. identity[s] = NoIdentity => identity[s].user # identity[r].user
      BY <1>3, <2>1, Linked DEF NoIdentity
    <2>5. \A q \in Sub \ {r} : identity[q].user # identity[r].user
      BY <1>2, <1>3, <2>1, <2>3, <2>4
    <2>6. users[identity[r].user] = identity[r].email
      BY <1>3, <2>1, <2>5 DEF AuthInv, AccountInv, AddressIsCurrent
    <2> QED BY <1>2, <2>1, <2>2, <2>6
  <1>5. CASE r = s /\ g.linked
    <2>1. identity[s] \in [user: UserId, email: Address] /\ identity[s].user = a
      BY <1>1, <1>5, Linked
    <2>2. \A q \in Sub \ {s} : identity[q].user # a
      BY <1>1, <1>2, <1>3, <1>5
    <2>3. Sole(s)
      BY <1>1, <1>5, <2>1, <2>2 DEF Sole
    <2>4. g.userMail = g.idMail /\ g.email \in Email /\ g.found = a /\ g.found # NoUser
      BY <1>1, <1>3, <1>5, <2>3, AuthNames DEF FlowOK
    <2>5. users[a] = identity[s].email
      BY <1>1, <1>3, <2>1, <2>3 DEF AuthInv, AccountInv, AddressIsCurrent, Sole
    <2>6. NewAddress(f) = IF g.email = g.userMail THEN users[a] ELSE g.email
      BY <2>4, AuthNames DEF NewAddress
    <2>7. NewIdentity(f).email = IF g.email = g.idMail THEN identity[s].email ELSE g.email
      BY <1>5, <2>1 DEF NewIdentity
    <2>8. identity'[s] = NewIdentity(f) /\ users'[a] = NewAddress(f)
      BY <1>1, <1>2
    <2> QED BY <1>1, <1>5, <2>4, <2>5, <2>6, <2>7, <2>8
  <1>6. CASE r = s /\ ~g.linked
    <2>1. g.found = NoUser
      <3> SUFFICES ASSUME g.found # NoUser PROVE FALSE
        OBVIOUS
      <3>1. a \in Known /\ identity[s] = NoIdentity
        BY <1>1, <1>6
      <3>2. PICK q \in Sub : identity[q].user = a
        BY <3>1 DEF AuthInv, AccountInv, NoEmptyAccount
      <3>3. q # s
        BY <3>1, <3>2, AuthNames DEF NoIdentity, Known
      <3>4. identity'[q].user = a /\ identity'[s].user = a
        BY <1>1, <1>2, <3>2, <3>3
      <3> QED BY <1>3, <1>6, <3>3, <3>4
    <2>2. NewAddress(f) = g.email /\ NewIdentity(f).email = g.email
      BY <1>6, <2>1 DEF NewAddress, NewIdentity
    <2> QED BY <1>1, <1>2, <1>6, <2>2
  <1> QED BY <1>4, <1>5, <1>6

\* The transaction keeps the invariant.
LEMMA StoreKeeps ==
  ASSUME AuthInv, NEW f \in Flow, Store(f)
  PROVE  AuthInv'
  <1> DEFINE s == flow[f].sub
             a == Account(f)
  <1>1. /\ s \in Sub /\ a \in UserId /\ NewAddress(f) \in Address
        /\ NewIdentity(f) \in [user: UserId, email: Address] /\ NewIdentity(f).user = a
        /\ Known' = Known \cup {a}
        /\ identity[s] # NoIdentity => identity[s].user = a
        /\ flow[f].found # NoUser => a \in Known
        /\ flow[f].found = NoUser => a = NextUser
        /\ NextToken \in Token /\ session[NextToken].is = "unused"
    BY StoreWrites DEF Store
  <1>2. /\ identity' = [identity EXCEPT ![s] = NewIdentity(f)]
        /\ users' = [users EXCEPT ![a] = NewAddress(f)]
        /\ session' = [session EXCEPT ![NextToken] =
              [user |-> a, sub |-> s, is |-> "valid"]]
        /\ UNCHANGED <<world, state, cookie, leaving>>
        /\ DOMAIN identity = Sub /\ DOMAIN session = Token
        /\ \A b \in Browser : cookie[b] # 0 => cookie[b] \in Token
    BY DEF Store, AuthInv, TypeOK
  <1>3. \A r \in Sub : identity[r] # NoIdentity =>
          identity'[r] # NoIdentity /\ identity'[r].user = identity[r].user
    BY <1>1, <1>2, AuthNames DEF NoIdentity
  <1>4. identity'[s] # NoIdentity /\ identity'[s].user = a
    BY <1>1, <1>2, AuthNames DEF NoIdentity
  <1>5. TypeOK'
    <2>1. /\ users' \in [UserId -> Address \cup {NoUser}]
          /\ identity' \in [Sub -> [user: UserId, email: Address] \cup {NoIdentity}]
          /\ session' \in [Token ->
               [user: UserId, sub: Sub, is: {"valid", "over"}] \cup {NoSession}]
      BY <1>1, <1>2 DEF AuthInv, TypeOK
    <2> QED BY <1>2, <2>1, StoreFlows DEF AuthInv, TypeOK, world, FlowState
  <1>6. SessionInv'
    <2>1. \A t \in Token : session[t].is # "unused" =>
            session'[t] = session[t] /\ (session[t].sub \in Sub)
      BY <1>1, <1>2 DEF AuthInv, TypeOK, NoSession
    <2>2. \A t \in Token \ {NextToken} : session'[t] = session[t]
      BY <1>1, <1>2
    <2>3. session'[NextToken] = [user |-> a, sub |-> s, is |-> "valid"]
      BY <1>1, <1>2
    <2> QED BY <1>1, <1>2, <1>3, <1>4, <2>1, <2>2, <2>3 DEF AuthInv, SessionInv
  <1>7. (\E n \in 0..MaxUser : Known = 1..n)'
    <2>1. a \in Known \/ (a = NextUser /\ NextUser \in UserId)
      BY <1>1
    <2> QED BY <1>1, <2>1, NextUserIsNew DEF AuthInv, AccountInv
  <1>8. ASSUME NEW r \in Sub, identity'[r] # NoIdentity
        PROVE  identity'[r].user \in Known'
    BY <1>1, <1>2, <1>4, <1>8 DEF AuthInv, AccountInv
  <1>9. NoEmptyAccount'
    <2> SUFFICES ASSUME NEW u \in Known' PROVE \E r \in Sub : identity'[r].user = u
      BY DEF NoEmptyAccount
    <2>1. CASE u = a
      BY <1>1, <1>4, <2>1
    <2>2. CASE u # a
      <3>1. u \in Known /\ u # NoUser
        BY <1>1, <2>2, AuthNames DEF Known
      <3>2. PICK r \in Sub : identity[r].user = u
        BY <3>1 DEF AuthInv, AccountInv, NoEmptyAccount
      <3> QED BY <1>3, <3>1, <3>2 DEF NoIdentity
    <2> QED BY <2>1, <2>2
  <1> QED BY <1>5, <1>6, <1>7, <1>8, <1>9, StoreFlows, StoreAddress DEF AuthInv, AccountInv

-----------------------------------------------------------------------------
(* The induction and what follows from it. *)

LEMMA AuthInit == Init => AuthInv
  <1> SUFFICES ASSUME Init PROVE AuthInv
    OBVIOUS
  <1>1. TypeOK
    <2>1. /\ allowed \in {Allowed, {}} /\ moves \in 0..MaxMoves
          /\ mail \in [Sub -> Address]
      BY AuthBounds DEF Init
    <2>2. flow \in [Flow -> FlowState]
      BY IdleOK DEF Init
    <2>3. /\ users \in [UserId -> Address \cup {NoUser}]
          /\ identity \in [Sub -> [user: UserId, email: Address] \cup {NoIdentity}]
          /\ session \in [Token -> [user: UserId, sub: Sub, is: {"valid", "over"}]
                                     \cup {NoSession}]
      BY DEF Init
    <2>4. /\ state \in [Browser -> Tab \cup {NoTab}] /\ cookie \in [Browser -> Token \cup {0}]
          /\ leaving \in [Browser -> BOOLEAN]
      BY DEF Init
    <2>5. allowAll \in BOOLEAN
      <3>1. allowAll \in IF allowed = {} THEN BOOLEAN ELSE {FALSE}
        BY DEF Init
      <3>2. {FALSE} \subseteq BOOLEAN
        OBVIOUS
      <3> QED BY <3>1, <3>2
    <2> QED BY <2>1, <2>2, <2>3, <2>4, <2>5 DEF TypeOK, FlowState
  <1>2. Known = {}
    BY DEF Known, Init
  <1>3. FlowInv /\ SessionInv
    BY IdleOK DEF FlowInv, SessionInv, Init, NoSession
  <1>4. Known = 1..0 /\ 0 \in 0..MaxUser
    BY <1>2, AuthBounds
  <1>5. AccountInv
    BY <1>2, <1>4 DEF AccountInv, NoEmptyAccount, AddressIsCurrent, Init
  <1> QED BY <1>1, <1>3, <1>5 DEF AuthInv

LEMMA AuthNext == AuthInv /\ [Next]_vars => AuthInv'
  <1> SUFFICES ASSUME AuthInv, [Next]_vars PROVE AuthInv'
    OBVIOUS
  <1>1. CASE \E f \in Flow : Start(f) \/ Cancel(f) \/ Refuse(f) \/ Accept(f)
                              \/ NotSignedIn(f) \/ Conflict(f) \/ LockTimeout(f)
    BY <1>1, EarlySteps
  <1>2. CASE \E f \in Flow, s \in Sub : FetchProfile(f, s)
    BY <1>2, FetchProfileKeeps
  <1>3. CASE \E f \in Flow : ReadIdentity(f) \/ ReadUser(f) \/ Store(f) \/ Arrive(f)
    BY <1>3, ReadIdentityKeeps, ReadUserKeeps, StoreKeeps, ArriveKeeps
  <1>4. CASE Crash \/ \E b \in Browser : StateExpires(b)
    BY <1>4, ClockAndCrash
  <1>5. CASE \/ \E b \in Browser : Logout(b) \/ LoggedOut(b)
             \/ \E t \in Token : SessionExpires(t)
             \/ \E s \in Sub, e \in Address : Move(s, e)
    BY <1>5, OutsideSteps
  <1>6. CASE UNCHANGED vars
    <2>1. flow' \in [Flow -> FlowState] /\ \A h \in Flow : FlowOK(flow'[h])
      BY <1>6 DEF vars, AuthInv, FlowInv, TypeOK, FlowState
    <2> QED BY <1>6, <2>1, FlowsOnly DEF vars, AuthInv, TypeOK, tables
  <1> QED BY <1>1, <1>2, <1>3, <1>4, <1>5, <1>6 DEF Next, Callback

LEMMA AuthAlways == Spec => []AuthInv
  BY AuthInit, AuthNext, PTL DEF Spec

\* The tables, the cookies and what the flows remember are well typed.
THEOREM AuthTyping == Spec => []TypeOK
  <1>1. AuthInv => TypeOK
    BY DEF AuthInv
  <1> QED BY <1>1, AuthAlways, PTL

\* A session authenticates the account that its Google subject is linked to.
THEOREM SessionsAuthenticateTheirAccount == Spec => []SessionOfItsAccount
  <1>1. AuthInv => SessionOfItsAccount
    BY AuthNames DEF AuthInv, SessionInv, SessionOfItsAccount, UserForToken
  <1> QED BY <1>1, AuthAlways, PTL

\* However first logins race or fail, no account is left without an identity.
THEOREM AccountsAreLinked == Spec => []NoEmptyAccount
  <1>1. AuthInv => NoEmptyAccount
    BY DEF AuthInv, AccountInv
  <1> QED BY <1>1, AuthAlways, PTL

\* Of an account with one Google subject, the users row and the identity row
\* carry the same address whatever logins crossed.
THEOREM AddressesAgree == Spec => []AddressIsCurrent
  <1>1. AuthInv => AddressIsCurrent
    BY DEF AuthInv, AccountInv
  <1> QED BY <1>1, AuthAlways, PTL

\* A Google subject stays linked to the account it was first linked to.
THEOREM LinksAreForEver == Spec => IdentityKept
  <1>1. AuthInv /\ [Next]_vars =>
          [\A s \in Sub : identity[s] # NoIdentity => identity'[s].user = identity[s].user]_vars
    <2> SUFFICES ASSUME AuthInv, Next, NEW s \in Sub, identity[s] # NoIdentity
                 PROVE  identity'[s].user = identity[s].user
      OBVIOUS
    <2>1. ASSUME NEW f \in Flow, Store(f) PROVE identity'[s].user = identity[s].user
      <3>1. identity' = [identity EXCEPT ![flow[f].sub] = NewIdentity(f)]
            /\ DOMAIN identity = Sub
        BY <2>1 DEF Store, AuthInv, TypeOK
      <3> QED BY <2>1, <3>1, StoreWrites
    <2>2. CASE \E f \in Flow : Store(f)
      BY <2>1, <2>2
    <2>3. CASE ~\E f \in Flow : Store(f)
      <3>1. identity' = identity
        BY <2>3 DEF Next, Callback, Start, Cancel, Refuse, Accept, NotSignedIn, ErrorRedirect,
                    FetchProfile, ReadIdentity, ReadUser, Conflict, Arrive, LockTimeout,
                    Logout, LoggedOut, StateExpires, SessionExpires, Move, Crash, tables
      <3> QED BY <3>1
    <2> QED BY <2>2, <2>3
  <1> QED BY <1>1, AuthAlways, PTL DEF Spec, IdentityKept

-----------------------------------------------------------------------------
(* The state cookie. *)

\* A tab at Google that nothing has overtaken still finds its own state in the
\* cookie, so it is not refused.
RefusalInv ==
  \A f \in Flow :
    /\ flow[f].pc = "google" /\ ~flow[f].overtaken => state[f[1]] = f[2]
    /\ flow[f].pc = "refused" => flow[f].overtaken

\* Flow f becomes g and its browser's cookie holds c: all others are overtaken.
LEMMA OvertakeRefusal ==
  ASSUME TypeOK, RefusalInv, NEW f \in Flow, NEW g \in FlowState, NEW c,
         Overtake(f, g), state' = [state EXCEPT ![f[1]] = c],
         g.pc = "google" /\ ~g.overtaken => c = f[2],
         g.pc = "refused" => g.overtaken
  PROVE  RefusalInv'
  <1> SUFFICES ASSUME NEW h \in Flow
               PROVE  /\ flow'[h].pc = "google" /\ ~flow'[h].overtaken => state'[h[1]] = h[2]
                      /\ flow'[h].pc = "refused" => flow'[h].overtaken
    BY DEF RefusalInv
  <1>1. flow[h] \in FlowState /\ f[1] \in Browser /\ h[1] \in Browser
        /\ DOMAIN state = Browser
    BY DEF TypeOK, FlowState, Flow
  <1>2. CASE h = f
    BY <1>1, <1>2 DEF Overtake
  <1>3. CASE h # f /\ h[1] = f[1] /\ flow[h].pc = "google"
    <2>1. flow'[h] = [flow[h] EXCEPT !.overtaken = TRUE]
      BY <1>3 DEF Overtake
    <2>2. flow'[h].overtaken /\ flow'[h].pc = "google"
      BY <1>1, <1>3, <2>1 DEF FlowState
    <2> QED BY <2>2
  <1>4. CASE h # f /\ ~(h[1] = f[1] /\ flow[h].pc = "google")
    <2>1. flow'[h] = flow[h]
      BY <1>4 DEF Overtake
    <2> QED BY <1>1, <1>4, <2>1 DEF RefusalInv
  <1> QED BY <1>2, <1>3, <1>4

\* A login is refused as invalid_state only if another login of the same browser,
\* or its ten minutes, came between.
THEOREM RefusalsAreOvertaken == Spec => []OnlyOvertakenRefused
  <1>1. Init => RefusalInv
    BY DEF Init, RefusalInv, Idle
  <1>2. TypeOK /\ RefusalInv /\ [Next]_vars => RefusalInv'
    <2> SUFFICES ASSUME TypeOK, RefusalInv, [Next]_vars PROVE RefusalInv'
      OBVIOUS
    <2> flow \in [Flow -> FlowState]
      BY DEF TypeOK, FlowState
    <2>1. ASSUME NEW f \in Flow, Start(f) PROVE RefusalInv'
      <3>1. PICK g : g = [Idle EXCEPT !.pc = "google"]
        OBVIOUS
      <3>2. g \in FlowState /\ g.pc = "google"
        BY <3>1 DEF Idle, FlowState, Address
      <3> QED BY <2>1, <3>1, <3>2, OvertakeRefusal DEF Start
    <2>2. ASSUME NEW f \in Flow, Cancel(f) \/ NotSignedIn(f) \/ Arrive(f) PROVE RefusalInv'
      <3>1. Idle \in FlowState /\ Idle.pc = "idle"
        BY IdleOK DEF Idle
      <3> QED BY <2>2, <3>1, OvertakeRefusal DEF Cancel, NotSignedIn, ErrorRedirect, Arrive
    <2>3. ASSUME NEW f \in Flow, Refuse(f) PROVE RefusalInv'
      <3>1. flow[f].overtaken
        BY <2>3 DEF Refuse, RefusalInv
      <3>2. PICK g : g = [flow[f] EXCEPT !.pc = "refused"]
        OBVIOUS
      <3>3. g \in FlowState /\ g.overtaken /\ g.pc = "refused"
        BY <3>1, <3>2 DEF FlowState
      <3> QED BY <2>3, <3>2, <3>3, OvertakeRefusal DEF Refuse, ErrorRedirect
    <2>4. ASSUME NEW b \in Browser, StateExpires(b) PROVE RefusalInv'
      <3> SUFFICES ASSUME NEW h \in Flow
                   PROVE  /\ flow'[h].pc = "google" /\ ~flow'[h].overtaken
                               => state'[h[1]] = h[2]
                          /\ flow'[h].pc = "refused" => flow'[h].overtaken
        BY DEF RefusalInv
      <3>1. flow[h] \in FlowState /\ DOMAIN state = Browser
        BY DEF TypeOK
      <3>2. CASE h[1] = b /\ flow[h].pc = "google"
        <4>1. flow'[h] = [flow[h] EXCEPT !.overtaken = TRUE]
          BY <2>4, <3>2 DEF StateExpires
        <4>2. flow'[h].overtaken /\ flow'[h].pc = "google"
          BY <3>1, <3>2, <4>1 DEF FlowState
        <4> QED BY <4>2
      <3>3. CASE ~(h[1] = b /\ flow[h].pc = "google")
        BY <2>4, <3>1, <3>3 DEF StateExpires, RefusalInv
      <3> QED BY <3>2, <3>3
    <2>5. CASE Crash
      BY <2>5 DEF Crash, RefusalInv, Idle
    <2>6. ASSUME NEW f \in Flow, Accept(f) \/ ReadIdentity(f) \/ ReadUser(f) \/ Store(f)
                                   \/ Conflict(f) \/ LockTimeout(f)
                                   \/ \E s \in Sub : FetchProfile(f, s)
          PROVE  RefusalInv'
      <3>1. /\ flow[f] \in FlowState /\ state' = state
            /\ \A h \in Flow \ {f} : flow'[h] = flow[h]
        BY <2>6 DEF Accept, ReadIdentity, ReadUser, Store, Conflict, LockTimeout, FetchProfile
      <3>2. flow'[f].pc \notin {"google", "refused"}
        <4>1. CASE Conflict(f) \/ LockTimeout(f)
          BY <4>1 DEF Conflict, LockTimeout, Idle
        <4>2. CASE ReadIdentity(f)
          <5>1. CASE identity[flow[f].sub] # NoIdentity
            BY <4>2, <5>1, <3>1 DEF ReadIdentity, FlowState
          <5>2. CASE identity[flow[f].sub] = NoIdentity
            BY <4>2, <5>2, <3>1 DEF ReadIdentity, FlowState
          <5> QED BY <5>1, <5>2
        <4>3. CASE ReadUser(f)
          BY <4>3, <3>1 DEF ReadUser, FlowState
        <4>4. CASE Accept(f)
          BY <4>4, <3>1 DEF Accept, FlowState
        <4>5. CASE Store(f)
          BY <4>5, <3>1 DEF Store, FlowState
        <4>6. CASE \E s \in Sub : FetchProfile(f, s)
          BY <4>6, <3>1 DEF FetchProfile, FlowState
        <4> QED BY <2>6, <4>1, <4>2, <4>3, <4>4, <4>5, <4>6
      <3> QED BY <3>1, <3>2 DEF RefusalInv
    <2>7. CASE \/ \E b \in Browser : Logout(b) \/ LoggedOut(b)
               \/ \E t \in Token : SessionExpires(t)
               \/ \E s \in Sub, e \in Address : Move(s, e)
               \/ UNCHANGED vars
      <3>1. flow' = flow /\ state' = state
        BY <2>7 DEF Logout, LoggedOut, SessionExpires, Move, vars
      <3> QED BY <3>1 DEF RefusalInv
    <2> QED BY <2>1, <2>2, <2>3, <2>4, <2>5, <2>6, <2>7 DEF Next, Callback
  <1>3. RefusalInv => OnlyOvertakenRefused
    BY DEF RefusalInv, OnlyOvertakenRefused
  <1> QED BY <1>1, <1>2, <1>3, AuthTyping, PTL DEF Spec
=============================================================================
