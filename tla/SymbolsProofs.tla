---------------------------- MODULE SymbolsProofs ----------------------------
(***************************************************************************)
(* Theorems about Symbols, for every set of users, requests, collections   *)
(* and codes, all catalogues and all bounds on ids and edits.              *)
(***************************************************************************)
EXTENDS Symbols, WellFoundedInduction, TLAPS

\* Ids that rows have are recorded as given, a symbol has at most one holding,
\* and holdings were added to symbols that there were.
IdsOK ==
  /\ Registered \subseteq given.symbol
  /\ Holdings \subseteq given.holding
  /\ \A h \in Holdings : holding[h].sym \in given.symbol
  /\ \A g, h \in Holdings : holding[g].sym = holding[h].sym => g = h

\* Unless a deletion overlapped their collection, news are of a symbol that there is,
\* and of its company unless it moved.
Placed(n) ==
  n # NoRow => \/ n.late
               \/ /\ n.sym \in Registered
                  /\ ~n.moved => Company(n.code) = Company(symbol[n.sym].at.code)

\* Both those that are stored and those about to be.
NewsOK == (\A n \in Id : Placed(news[n])) /\ (\A k \in Collector : Placed(collector[k]))

\* What a request has read is still so as far as no id was given twice: it is its
\* user's symbol, and the holding it read is that symbol's.  Until another request
\* crosses it the symbol is there and has no other holding.
ReadOK(r) ==
  r # Idle =>
    /\ r.id \in given.symbol
    /\ r.own # 0 => r.own \in given.holding
    /\ r.id \in Registered /\ symbol[r.id].first => symbol[r.id].owner = r.user
    /\ r.own \in Holdings /\ holding[r.own].first => holding[r.own].sym = r.id
    /\ ~r.crossed => /\ r.id \in Registered
                     /\ \A h \in Holdings : holding[h].sym = r.id => h = r.own

RequestsOK ==
  /\ request \in [Request -> Loaded \cup {Idle}]
  /\ \A q \in Request : ReadOK(request[q])

\* The inductive invariant.
SymbolsInv ==
  TypeOK /\ IdsOK /\ NewsOK /\ RequestsOK /\ HoldingHasSymbol /\ WrittenByOwner

-----------------------------------------------------------------------------
(* Ids and companies. *)

\* A bounded, non-empty set of naturals has a maximum: its least upper bound.
LEMMA MaxIsMember ==
  ASSUME NEW n \in Nat, NEW S \in SUBSET (0..n), S # {}
  PROVE  Max(S) \in S /\ \A x \in S : Max(S) >= x
  <1> DEFINE U == {k \in Nat : \A x \in S : x <= k}
  <1>1. n \in U /\ U \subseteq Nat
    OBVIOUS
  <1>2. \E k \in U : \A j \in U : ~(<<j, k>> \in OpToRel(<, Nat))
    <2> HIDE DEF U
    <2> QED BY <1>1, WFMin, NatLessThanWellFounded
  <1>3. PICK k \in U : \A j \in U : ~(j < k)
    BY <1>2 DEF OpToRel
  <1>4. k \in S
    <2> SUFFICES ASSUME k \notin S PROVE FALSE
      OBVIOUS
    <2>1. \A x \in S : x <= k - 1
      BY <1>3
    <2>2. PICK x \in S : TRUE
      OBVIOUS
    <2>3. x \in Nat /\ x <= k - 1 /\ k \in Nat
      BY <2>1
    <2>4. k - 1 \in U
      BY <2>1, <2>3
    <2> QED BY <2>3, <2>4, <1>3
  <1>5. \E x \in S : \A y \in S : x >= y
    BY <1>3, <1>4
  <1> QED BY <1>5 DEF Max

\* The id of a new row is not in use.
LEMMA NextIsNew ==
  ASSUME NEW table
  PROVE  NextIn(table) \notin StoredIn(table)
  <1> DEFINE S == StoredIn(table)
             m == Max(S \cup {0})
  <1>1. S \cup {0} \in SUBSET (0..MaxId) /\ S \cup {0} # {} /\ MaxId \in Nat
    BY SymbolBounds DEF StoredIn, Id
  <1>2. m \in 0..MaxId /\ \A x \in S : m >= x
    <2> HIDE DEF S
    <2> QED BY <1>1, MaxIsMember
  <1>3. S \subseteq Int
    BY SymbolBounds DEF StoredIn, Id
  <1>4. m + 1 \notin S
    <2> HIDE DEF m, S
    <2> QED BY <1>2, <1>3, <1>1
  <1> QED BY <1>4 DEF NextIn

\* Whichever list it goes by, the code that represents a code is of its company.
LEMMA RepresentsCompany ==
  ASSUME NEW F \in SUBSET Krx, NEW x \in Code
  PROVE  Identity(F, x) \in Code /\ Company(Identity(F, x)) = Company(x)
  <1>1. CommonOf[x] \in Code /\ CommonOf[CommonOf[x]] = CommonOf[x]
    BY Shares
  <1>2. CASE \E l \in F : l.code = CommonOf[x]
    BY <1>1, <1>2 DEF Identity, Company
  <1>3. CASE ~\E l \in F : l.code = CommonOf[x]
    BY <1>3 DEF Identity, Company
  <1> QED BY <1>2, <1>3

LEMMA ListedIsKrx == Listed \in SUBSET Krx
  BY Catalogues DEF Listed

-----------------------------------------------------------------------------
(* Requests keep what they read. *)

\* A step gives no id back its first row, nor a new owner to a first row.
OldRows ==
  /\ given.symbol \subseteq given'.symbol /\ given.holding \subseteq given'.holding
  /\ \A i \in given.symbol : i \in Registered' /\ symbol'[i].first =>
       i \in Registered /\ symbol[i].first /\ symbol'[i].owner = symbol[i].owner
  /\ \A h \in given.holding : h \in Holdings' /\ holding'[h].first =>
       h \in Holdings /\ holding[h].first /\ holding'[h].sym = holding[h].sym

\* It leaves symbol i where it is, and adds no holding to it.
Spared(i) ==
  i \in Registered =>
    /\ i \in Registered'
    /\ \A h \in Holdings' : holding'[h].sym = i => h \in Holdings /\ holding[h].sym = i

LEMMA ReadKept ==
  ASSUME NEW r \in Loaded, ReadOK(r), OldRows,
         NEW k \in Loaded, k.id = r.id, k.own = r.own, k.user = r.user,
         r.crossed => k.crossed, ~k.crossed => Spared(k.id)
  PROVE  ReadOK(k)'
  <1>1. r # Idle
    BY DEF Loaded, Idle
  <1>2. r.own \in Holdings' => r.own # 0
    BY SymbolBounds DEF Holdings, StoredIn, Id
  <1> QED BY <1>1, <1>2 DEF ReadOK, OldRows, Spared

\* Requests go on or are dropped, and no symbol is touched.
LEMMA RequestsGoOn ==
  ASSUME SymbolsInv, OldRows, \A i \in Id : Spared(i),
         request' \in [Request -> Loaded \cup {Idle}],
         \A q \in Request : request'[q] = request[q] \/ request'[q] = Idle
  PROVE  RequestsOK'
  <1> SUFFICES ASSUME NEW q \in Request, request'[q] # Idle PROVE ReadOK(request[q])'
    BY DEF RequestsOK, ReadOK
  <1>1. request'[q] = request[q] /\ request[q] \in Loaded /\ ReadOK(request[q])
    BY DEF SymbolsInv, RequestsOK
  <1>2. request[q].id \in Id
    BY <1>1 DEF Loaded
  <1>3. \A k : k = request[q] => ReadOK(k)'
    BY <1>1, <1>2, ReadKept
  <1> QED BY <1>1, <1>3

\* One request commits to its symbol and crosses the others.
LEMMA RequestsCrossed ==
  ASSUME SymbolsInv, OldRows, NEW q \in Request, request[q] # Idle, Committed(q),
         \A i \in Id : i # request[q].id => Spared(i)
  PROVE  RequestsOK'
  <1>1. request \in [Request -> Loaded \cup {Idle}] /\ \A r \in Request : ReadOK(request[r])
    BY DEF SymbolsInv, RequestsOK
  <1>2. ASSUME NEW r \in Request, request'[r] # Idle
        PROVE  request'[r] \in Loaded /\ ReadOK(request[r])'
    <2>1. r # q /\ request[r] \in Loaded /\ ReadOK(request[r]) /\ request[r].id \in Id
      BY <1>1, <1>2 DEF Committed, Loaded
    <2>2. PICK k : k = [request[r] EXCEPT !.crossed = TRUE]
      OBVIOUS
    <2>3. k \in Loaded /\ k.id = request[r].id /\ k.own = request[r].own
          /\ k.user = request[r].user /\ k.crossed
      BY <2>1, <2>2 DEF Loaded
    <2>4. CASE request[r].id = request[q].id
      <3>1. request'[r] = k
        BY <1>2, <2>1, <2>2, <2>4 DEF Committed
      <3>2. \A j \in Loaded : j = k => ReadOK(j)'
        <4>1. \A j \in Loaded : j = k => (~j.crossed => Spared(j.id))
          BY <2>3
        <4>2. \A j \in Loaded : j = k => (request[r].crossed => j.crossed)
          BY <2>3
        <4> QED BY <2>1, <2>3, <4>1, <4>2, ReadKept
      <3> QED BY <2>3, <3>1, <3>2 DEF ReadOK
    <2>5. CASE request[r].id # request[q].id
      <3>1. request'[r] = request[r]
        BY <2>1, <2>5 DEF Committed
      <3>2. \A j : j = request[r] => ReadOK(j)'
        BY <2>1, <2>5, ReadKept
      <3> QED BY <2>1, <3>1, <3>2
    <2> QED BY <2>4, <2>5
  <1>3. request' \in [Request -> Loaded \cup {Idle}]
    BY <1>2 DEF Committed
  <1> QED BY <1>2, <1>3 DEF RequestsOK, ReadOK

-----------------------------------------------------------------------------
(* Steps that leave the symbols and holdings alone. *)

\* The tables stay: only news, requests and the catalogue may change.
LEMMA TablesStay ==
  ASSUME SymbolsInv, UNCHANGED <<symbol, holding, given>>,
         news' \in [Id -> News \cup {NoRow}],
         collector' \in [Collector -> News \cup {NoRow}], official' \in BOOLEAN,
         edits' \in 0..MaxEdits, NewsOK', RequestsOK'
  PROVE  SymbolsInv'
  <1>1. TypeOK'
    BY DEF SymbolsInv, TypeOK, RequestsOK
  <1>2. IdsOK' /\ HoldingHasSymbol' /\ WrittenByOwner'
    BY DEF SymbolsInv, IdsOK, HoldingHasSymbol, WrittenByOwner, Registered, Holdings, StoredIn
  <1> QED BY <1>1, <1>2 DEF SymbolsInv

LEMMA NothingTouched ==
  ASSUME UNCHANGED <<symbol, holding, given>>
  PROVE  OldRows /\ \A i \in Id : Spared(i)
  BY DEF OldRows, Spared, Registered, Holdings, StoredIn

\* The catalogue changes, or a request fails.
LEMMA QuietKeeps ==
  ASSUME SymbolsInv, Download \/ Restart \/ (\E q \in Request : Fail(q)) \/ UNCHANGED vars
  PROVE  SymbolsInv'
  <1>1. UNCHANGED <<symbol, holding, news, collector, given, edits>>
    BY DEF Download, Restart, Fail, vars
  <1>2. official' \in BOOLEAN
    BY DEF Download, Restart, Fail, vars, SymbolsInv, TypeOK
  <1>3. request' \in [Request -> Loaded \cup {Idle}]
        /\ \A q \in Request : request'[q] = request[q] \/ request'[q] = Idle
    BY DEF Download, Restart, Fail, vars, SymbolsInv, RequestsOK
  <1>4. RequestsOK'
    BY <1>1, <1>3, NothingTouched, RequestsGoOn
  <1>5. NewsOK'
    BY <1>1 DEF SymbolsInv, NewsOK, Placed, Registered, StoredIn
  <1> QED BY <1>1, <1>2, <1>4, <1>5, TablesStay DEF SymbolsInv, TypeOK

\* News are collected under a code of the symbol's company, whichever the list; they
\* are stored, or not.
LEMMA CollectKeeps ==
  ASSUME SymbolsInv, NEW k \in Collector,
         \/ \E listed \in {Krx, Fallback}, i \in Id : Collect(k, listed, i)
         \/ StoreNews(k) \/ StoreNothing(k)
  PROVE  SymbolsInv'
  <1>1. UNCHANGED <<symbol, holding, official, request, given, edits>>
    BY DEF Collect, StoreNews, StoreNothing
  <1>2. RequestsOK'
    BY <1>1 DEF SymbolsInv, RequestsOK, ReadOK, Registered, Holdings, StoredIn
  <1>3. /\ news \in [Id -> News \cup {NoRow}]
        /\ collector \in [Collector -> News \cup {NoRow}]
        /\ \A n \in Id : Placed(news[n])
        /\ \A j \in Collector : Placed(collector[j])
    BY DEF SymbolsInv, TypeOK, NewsOK
  <1>4. ASSUME NEW n, Placed(n) PROVE Placed(n)'
    BY <1>1, <1>4 DEF Placed, Registered, StoredIn
  <1> DEFINE Goal == /\ news' \in [Id -> News \cup {NoRow}]
                     /\ collector' \in [Collector -> News \cup {NoRow}]
                     /\ NewsOK'
  <1>5. ASSUME NEW listed \in {Krx, Fallback}, NEW i \in Id, Collect(k, listed, i)
        PROVE  Goal
    <2>1. PICK n : n = [code |-> Identity(listed, symbol[i].at.code), sym |-> i,
                        moved |-> FALSE, late |-> FALSE]
      OBVIOUS
    <2>2. i \in Registered /\ symbol[i].at.code \in Code
      BY <1>5 DEF Collect, SymbolsInv, TypeOK, Registered, StoredIn, Row, Listing
    <2>3. n.code \in Code /\ Company(n.code) = Company(symbol[i].at.code)
      BY <2>1, <2>2, RepresentsCompany, Catalogues
    <2>4. n \in News /\ Placed(n)
      BY <2>1, <2>2, <2>3 DEF News, Placed
    <2>5. news' = news /\ collector' = [collector EXCEPT ![k] = n]
      BY <1>5, <2>1 DEF Collect
    <2>6. \A j \in Collector : collector'[j] = collector[j] \/ collector'[j] = n
      BY <1>3, <2>5
    <2>7. \A j \in Collector : Placed(collector'[j])
      BY <1>3, <2>4, <2>6
    <2> QED BY <1>3, <1>4, <2>4, <2>5, <2>7 DEF NewsOK, Placed
  <1>6. ASSUME StoreNews(k) \/ StoreNothing(k) PROVE Goal
    <2>1. \A n \in Id : news'[n] \in {news[n], collector[k]}
      BY <1>3, <1>6 DEF StoreNews, StoreNothing
    <2>2. \A j \in Collector : collector'[j] \in {collector[j], NoRow}
      BY <1>3, <1>6 DEF StoreNews, StoreNothing
    <2>3. /\ news' \in [Id -> News \cup {NoRow}]
          /\ collector' \in [Collector -> News \cup {NoRow}]
      BY <1>3, <1>6 DEF StoreNews, StoreNothing
    <2>4. Placed(NoRow)
      BY DEF Placed
    <2>5. /\ \A n \in Id : Placed(news'[n])
          /\ \A j \in Collector : Placed(collector'[j])
      BY <1>3, <2>1, <2>2, <2>4
    <2> QED BY <1>4, <2>3, <2>5 DEF NewsOK, Placed
  <1>7. Goal
    BY <1>5, <1>6
  <1> QED BY <1>1, <1>2, <1>7, TablesStay DEF SymbolsInv, TypeOK

\* A DELETE loads the news it is to take.
LEMMA LoadKeeps ==
  ASSUME SymbolsInv, NEW q \in Request, LoadNews(q)
  PROVE  SymbolsInv'
  <1>1. UNCHANGED <<symbol, holding, news, official, collector, given, edits>>
    BY DEF LoadNews
  <1>2. PICK doomed : doomed = {n \in StoredNews : news[n].sym = request[q].id}
    OBVIOUS
  <1>3. doomed \in SUBSET Id
    BY <1>2 DEF StoredNews, StoredIn
  <1>4. PICK r : r = [request[q] EXCEPT !.op = "commit", !.doomed = doomed]
    OBVIOUS
  <1>5. /\ request \in [Request -> Loaded \cup {Idle}] /\ request[q] \in Loaded
        /\ \A p \in Request : ReadOK(request[p])
    BY DEF LoadNews, SymbolsInv, RequestsOK
  <1>6. /\ r \in Loaded /\ r.id = request[q].id /\ r.own = request[q].own
        /\ r.user = request[q].user /\ r.crossed = request[q].crossed
    BY <1>3, <1>4, <1>5 DEF Loaded
  <1>7. request' = [request EXCEPT ![q] = r]
    BY <1>2, <1>4, <1>5 DEF LoadNews
  <1>8. ReadOK(r)
    <2>1. request[q] # Idle /\ r # Idle
      BY <1>5, <1>6 DEF Loaded, Idle
    <2> QED BY <1>5, <1>6, <2>1 DEF ReadOK
  <1>9. RequestsOK'
    <2>1. ASSUME NEW k, ReadOK(k) PROVE ReadOK(k)'
      BY <1>1, <2>1 DEF ReadOK, Registered, Holdings, StoredIn
    <2>2. \A p \in Request : request'[p] = request[p] \/ request'[p] = r
      BY <1>5, <1>7
    <2>3. ASSUME NEW p \in Request PROVE ReadOK(request[p])'
      <3>1. PICK k : k = request'[p]
        OBVIOUS
      <3>2. ReadOK(k)
        BY <1>5, <1>8, <2>2, <3>1
      <3> QED BY <2>1, <3>1, <3>2 DEF ReadOK
    <2> QED BY <1>5, <1>6, <1>7, <2>3 DEF RequestsOK
  <1>10. NewsOK'
    BY <1>1 DEF SymbolsInv, NewsOK, Placed, Registered, StoredIn
  <1> QED BY <1>1, <1>9, <1>10, TablesStay DEF SymbolsInv, TypeOK

\* A request reads the symbol of its user, with its holding.
LEMMA OpenKeeps ==
  ASSUME SymbolsInv, NEW q \in Request, NEW op \in {"patch", "delete"}, NEW u \in User,
         NEW i \in Id, Open(q, op, u, i)
  PROVE  SymbolsInv'
  <1>1. UNCHANGED <<symbol, holding, news, official, collector, given>>
        /\ edits' \in 0..MaxEdits
    BY SymbolBounds DEF Open, Edit, SymbolsInv, TypeOK
  <1>2. PICK r : r = [op |-> op, user |-> u, id |-> i, at |-> symbol[i].at,
                      own |-> HoldingOf(i), crossed |-> FALSE, doomed |-> {}]
    OBVIOUS
  <1>3. i \in Registered /\ symbol[i].owner = u /\ symbol[i] \in Row
    BY DEF Open, May, SymbolsInv, TypeOK, Registered, StoredIn
  <1>4. /\ HoldingOf(i) \in Holdings \cup {0}
        /\ HoldingOf(i) # 0 => holding[HoldingOf(i)].sym = i
        /\ \A h \in Holdings : holding[h].sym = i => h = HoldingOf(i)
    <2>1. CASE HasHolding(i)
      BY <2>1 DEF HoldingOf, HasHolding, SymbolsInv, IdsOK
    <2>2. CASE ~HasHolding(i)
      BY <2>2 DEF HoldingOf, HasHolding
    <2> QED BY <2>1, <2>2
  <1>5. r \in Loaded
    BY <1>2, <1>3, <1>4 DEF Loaded, Row, Holdings, StoredIn
  <1>6. ReadOK(r)
    <2>1. 0 \notin Holdings
      BY SymbolBounds DEF Holdings, StoredIn, Id
    <2> QED BY <1>2, <1>3, <1>4, <2>1 DEF ReadOK, SymbolsInv, IdsOK
  <1>7. request' = [request EXCEPT ![q] = r]
    BY <1>2 DEF Open
  <1>8. RequestsOK'
    <2>1. ASSUME NEW k, ReadOK(k) PROVE ReadOK(k)'
      BY <1>1, <2>1 DEF ReadOK, Registered, Holdings, StoredIn
    <2>2. \A p \in Request : request'[p] = request[p] \/ request'[p] = r
      BY <1>7 DEF SymbolsInv, RequestsOK
    <2>3. \A p \in Request : ReadOK(request[p])
      BY DEF SymbolsInv, RequestsOK
    <2>4. ASSUME NEW p \in Request PROVE ReadOK(request[p])'
      <3>1. \A k : k = request'[p] => ReadOK(k)
        BY <1>6, <2>2, <2>3
      <3>2. PICK k : k = request'[p]
        OBVIOUS
      <3>3. ReadOK(k)'
        BY <2>1, <3>1, <3>2
      <3> QED BY <3>2, <3>3 DEF ReadOK
    <2>5. request' \in [Request -> Loaded \cup {Idle}]
      BY <1>5, <1>7 DEF SymbolsInv, RequestsOK
    <2> QED BY <2>4, <2>5 DEF RequestsOK
  <1>9. NewsOK'
    BY <1>1 DEF SymbolsInv, NewsOK, Placed, Registered, StoredIn
  <1> QED BY <1>1, <1>8, <1>9, TablesStay DEF SymbolsInv, TypeOK

-----------------------------------------------------------------------------
(* Steps on the symbols and their holdings. *)

LEMMA TableTypes ==
  ASSUME SymbolsInv
  PROVE  /\ symbol \in [Id -> Row \cup {NoRow}] /\ holding \in [Id -> Holding \cup {NoRow}]
         /\ \A i \in Registered : i \in Id /\ symbol[i] \in Row
         /\ \A h \in Holdings : h \in Id /\ holding[h] \in Holding
         /\ NoRow \notin Row /\ NoRow \notin Holding /\ NoRow \notin News
  BY SymbolNames DEF SymbolsInv, TypeOK, Registered, Holdings, StoredIn

\* A new symbol takes an id that no symbol has: what is left under it from one
\* before was added to an id that has been given.
LEMMA CreateKeeps ==
  ASSUME SymbolsInv, NEW u \in User, NEW m \in Market, NEW c \in Code,
         NEW named \in BOOLEAN, NEW withHolding \in BOOLEAN,
         Create(u, m, c, named, withHolding)
  PROVE  SymbolsInv'
  <1> DEFINE i == NextIn(symbol)
             h == NextIn(holding)
  <1>1. PICK l \in Resolve(m, c, named) :
          /\ Edit
          /\ i \in Id
          /\ withHolding => h \in Id
          /\ ~Conflict(l, withHolding)
          /\ symbol' = [symbol EXCEPT ![i] =
               [at |-> l, owner |-> u, by |-> u, first |-> i \notin given.symbol]]
          /\ holding' = IF withHolding
                        THEN [holding EXCEPT ![h] = Added(i, u, FALSE)] ELSE holding
          /\ given' = [symbol |-> given.symbol \cup {i},
                       holding |-> given.holding \cup (IF withHolding THEN {h} ELSE {})]
          /\ UNCHANGED <<news, official, request, collector>>
    BY DEF Create
  <1>2. l \in Listing
    BY ListedIsKrx, Catalogues DEF Resolve, Lookup, Listing
  <1>3. i \notin Registered /\ h \notin Holdings
    BY NextIsNew DEF Registered, Holdings
  <1>4. given.symbol \in SUBSET Id /\ given.holding \in SUBSET Id
    BY DEF SymbolsInv, TypeOK
  <1>5. PICK new : new = [at |-> l, owner |-> u, by |-> u, first |-> i \notin given.symbol]
    OBVIOUS
  <1>6. /\ new \in Row /\ new.owner = u /\ new.by = u /\ new.first = (i \notin given.symbol)
        /\ symbol' = [symbol EXCEPT ![i] = new]
    BY <1>1, <1>2, <1>5 DEF Row
  <1>7. PICK held : held = Added(i, u, FALSE)
    OBVIOUS
  <1>8. /\ held \in Holding /\ held.sym = i /\ held.by = u /\ held.late = FALSE
        /\ held.first = (h \notin given.holding)
        /\ holding' = IF withHolding THEN [holding EXCEPT ![h] = held] ELSE holding
    BY <1>1, <1>7 DEF Added, Holding
  <1> HIDE DEF i, h
  <1>9. /\ Registered' = Registered \cup {i}
        /\ \A j \in Registered : symbol'[j] = symbol[j]
        /\ symbol'[i] = new
    BY <1>1, <1>3, <1>6, TableTypes DEF Registered, StoredIn
  <1>10. /\ Holdings' = Holdings \cup (IF withHolding THEN {h} ELSE {})
         /\ \A g \in Holdings : holding'[g] = holding[g]
         /\ withHolding => holding'[h] = held /\ h \in Id
    <2>1. CASE withHolding
      <3>1. h \in Id /\ holding' = [holding EXCEPT ![h] = held] /\ held # NoRow
        BY <1>1, <1>8, <2>1, TableTypes
      <3>2. holding'[h] = held /\ \A g \in Id \ {h} : holding'[g] = holding[g]
        BY <3>1, TableTypes
      <3>3. Holdings' = Holdings \cup {h}
        BY <3>1, <3>2 DEF Holdings, StoredIn
      <3>4. \A g \in Holdings : g \in Id \ {h}
        BY <1>3 DEF Holdings, StoredIn
      <3> QED BY <2>1, <3>1, <3>2, <3>3, <3>4
    <2>2. CASE ~withHolding
      BY <1>8, <2>2 DEF Holdings, StoredIn
    <2> QED BY <2>1, <2>2
  <1>11. given'.symbol = given.symbol \cup {i}
         /\ given'.holding = given.holding \cup (IF withHolding THEN {h} ELSE {})
    BY <1>1
  <1>12. TypeOK'
    <2>1. symbol' \in [Id -> Row \cup {NoRow}]
      BY <1>1, <1>6, TableTypes
    <2>2. holding' \in [Id -> Holding \cup {NoRow}]
      BY <1>1, <1>8, TableTypes
    <2>3. given' \in [symbol: SUBSET Id, holding: SUBSET Id]
      BY <1>1, <1>4
    <2>4. edits' \in 0..MaxEdits
      BY <1>1, SymbolBounds DEF Edit, SymbolsInv, TypeOK
    <2> QED BY <1>1, <2>1, <2>2, <2>3, <2>4 DEF SymbolsInv, TypeOK
  <1>13. withHolding => \A g \in Holdings : holding[g].sym # i
    BY <1>1 DEF Conflict, HasHolding, i
  <1>14. IdsOK'
    BY <1>8, <1>9, <1>10, <1>11, <1>13 DEF SymbolsInv, IdsOK
  <1>15. NewsOK'
    BY <1>1, <1>9 DEF SymbolsInv, NewsOK, Placed
  <1>16. HoldingHasSymbol'
    BY <1>8, <1>9, <1>10 DEF SymbolsInv, HoldingHasSymbol
  <1>17. WrittenByOwner'
    <2>1. ASSUME NEW j \in Registered, symbol'[j].first
          PROVE  /\ symbol'[j].by = symbol'[j].owner
                 /\ \A g \in Holdings' : holding'[g].sym = j /\ holding'[g].first
                      => holding'[g].by = symbol'[j].owner
      BY <1>3, <1>8, <1>9, <1>10, <2>1 DEF SymbolsInv, WrittenByOwner
    <2>2. ASSUME symbol'[i].first
          PROVE  /\ symbol'[i].by = symbol'[i].owner
                 /\ \A g \in Holdings' : holding'[g].sym = i /\ holding'[g].first
                      => holding'[g].by = symbol'[i].owner
      <3>1. \A g \in Holdings : holding[g].sym # i
        BY <1>6, <1>9, <2>2 DEF SymbolsInv, IdsOK
      <3> QED BY <1>6, <1>8, <1>9, <1>10, <3>1
    <2> QED BY <1>9, <2>1, <2>2 DEF WrittenByOwner
  <1>18. RequestsOK'
    <2>1. OldRows
      BY <1>3, <1>6, <1>8, <1>9, <1>10, <1>11 DEF OldRows, SymbolsInv, IdsOK
    <2>2. \A j \in Id : Spared(j)
      BY <1>3, <1>8, <1>9, <1>10 DEF Spared
    <2>3. request' = request /\ request \in [Request -> Loaded \cup {Idle}]
      BY <1>1 DEF SymbolsInv, RequestsOK
    <2> QED BY <2>1, <2>2, <2>3, RequestsGoOn
  <1> QED BY <1>12, <1>14, <1>15, <1>16, <1>17, <1>18 DEF SymbolsInv

\* A deleted symbol takes the news that were loaded and the holding that was read;
\* what was added since is marked.
LEMMA DeleteKeeps ==
  ASSUME SymbolsInv, NEW q \in Request, Delete(q)
  PROVE  SymbolsInv'
  <1> DEFINE r == request[q]
             i == request[q].id
  <1>1. r \in Loaded /\ r # Idle /\ ReadOK(r) /\ i \in Id
        /\ r.crossed \in BOOLEAN
    BY DEF Delete, SymbolsInv, RequestsOK, Loaded
  <1>2. /\ symbol' = [symbol EXCEPT ![i] = NoRow]
        /\ holding' = Left(q) /\ news' = NewsLeft(q) /\ Committed(q)
        /\ collector' = [k \in Collector |-> Orphaned(collector[k], i)]
        /\ UNCHANGED <<official, given, edits>>
    BY DEF Delete
  <1>3. Registered' = Registered \ {i} /\ \A j \in Registered \ {i} : symbol'[j] = symbol[j]
    BY <1>1, <1>2, TableTypes DEF Registered, StoredIn
  <1>4. ASSUME NEW g \in Id, holding'[g] # NoRow
        PROVE  /\ g \in Holdings /\ g # r.own /\ holding'[g] \in Holding
               /\ holding'[g].sym = holding[g].sym /\ holding'[g].by = holding[g].by
               /\ holding'[g].first = holding[g].first
               /\ holding[g].late => holding'[g].late
               /\ r.crossed /\ holding[g].sym = i => holding'[g].late
    <2>1. g \in Holdings /\ g # r.own
          /\ holding'[g] = [holding[g] EXCEPT !.late = @ \/ (r.crossed /\ holding[g].sym = i)]
      BY <1>2, <1>4 DEF Left, Holdings, StoredIn
    <2>2. holding[g] \in Holding /\ holding[g].late \in BOOLEAN
      BY <2>1, TableTypes DEF Holding
    <2> QED BY <1>1, <2>1, <2>2 DEF Holding
  <1>5. Holdings' \subseteq Holdings /\ \A g \in Holdings' : g \in Id /\ holding'[g] # NoRow
    BY <1>4 DEF Holdings, StoredIn
  <1>6. /\ news \in [Id -> News \cup {NoRow}] /\ collector \in [Collector -> News \cup {NoRow}]
        /\ \A n \in Id : Placed(news[n])
        /\ \A k \in Collector : Placed(collector[k])
    BY DEF SymbolsInv, TypeOK, NewsOK
  <1>13. ASSUME NEW n \in News \cup {NoRow}, Placed(n), NEW m, m = Orphaned(n, i)
         PROVE  m \in News \cup {NoRow} /\ Placed(m)'
    <2>1. CASE n # NoRow /\ n.sym = i
      <3>1. m \in News /\ m.late
        BY <1>13, <2>1 DEF Orphaned, News
      <3> QED BY <3>1 DEF Placed
    <2>2. CASE ~(n # NoRow /\ n.sym = i)
      <3>1. m = n
        BY <1>13, <2>2 DEF Orphaned
      <3> QED BY <1>3, <1>13, <2>2, <3>1 DEF Placed
    <2> QED BY <2>1, <2>2
  <1>14. ASSUME NEW n \in Id PROVE news'[n] \in News \cup {NoRow} /\ Placed(news[n])'
    <2>1. PICK m : m = news'[n]
      OBVIOUS
    <2>2. m = NoRow \/ m = Orphaned(news[n], i)
      BY <1>2, <2>1 DEF NewsLeft
    <2>3. m \in News \cup {NoRow} /\ Placed(m)'
      <3>1. CASE m = NoRow
        BY <3>1 DEF Placed
      <3>2. CASE m = Orphaned(news[n], i)
        BY <1>6, <1>13, <3>2
      <3> QED BY <2>2, <3>1, <3>2
    <2> QED BY <2>1, <2>3 DEF Placed
  <1>15. ASSUME NEW k \in Collector
         PROVE  collector'[k] \in News \cup {NoRow} /\ Placed(collector[k])'
    <2>1. PICK m : m = collector'[k]
      OBVIOUS
    <2>2. m = Orphaned(collector[k], i)
      BY <1>2, <2>1
    <2>3. m \in News \cup {NoRow} /\ Placed(m)'
      BY <1>6, <1>13, <2>2
    <2> QED BY <2>1, <2>3 DEF Placed
  <1>7. RequestsOK'
    <2>1. OldRows
      BY <1>2, <1>3, <1>4, <1>5 DEF OldRows
    <2>2. \A j \in Id : j # i => Spared(j)
      BY <1>3, <1>4, <1>5 DEF Spared
    <2> QED BY <1>1, <1>2, <2>1, <2>2, RequestsCrossed
  <1>8. TypeOK'
    <2>1. symbol' \in [Id -> Row \cup {NoRow}]
      BY <1>2, TableTypes
    <2>2. holding' \in [Id -> Holding \cup {NoRow}]
      BY <1>2, <1>4 DEF Left
    <2>3. /\ news' \in [Id -> News \cup {NoRow}]
          /\ collector' \in [Collector -> News \cup {NoRow}]
      BY <1>2, <1>14, <1>15 DEF NewsLeft
    <2>4. \A p \in Request : request'[p] \in Loaded \cup {Idle}
      BY <1>7 DEF RequestsOK
    <2> QED BY <1>2, <2>1, <2>2, <2>3, <2>4 DEF SymbolsInv, TypeOK
  <1>9. IdsOK'
    BY <1>2, <1>3, <1>4, <1>5 DEF SymbolsInv, IdsOK
  <1>10. NewsOK'
    BY <1>14, <1>15 DEF NewsOK
  <1>11. HoldingHasSymbol'
    BY <1>1, <1>3, <1>4, <1>5 DEF SymbolsInv, HoldingHasSymbol, ReadOK
  <1>12. WrittenByOwner'
    BY <1>3, <1>4, <1>5 DEF SymbolsInv, WrittenByOwner
  <1> QED BY <1>7, <1>8, <1>9, <1>10, <1>11, <1>12 DEF SymbolsInv

\* What a PATCH writes: the columns it changes of a symbol that is there, and one
\* holding, which it read or adds.
LEMMA PatchWrites ==
  ASSUME SymbolsInv, NEW q \in Request, NEW l \in Listing, NEW memo \in BOOLEAN,
         NEW held \in {"keep", "set", "none"}, Patch(q, l, memo, held),
         NEW r, r = request[q], NEW i, i = r.id, NEW h, h = NextIn(holding)
  PROVE  /\ r \in Loaded /\ r # Idle /\ ReadOK(r) /\ i \in Id
         /\ symbol' \in [Id -> Row \cup {NoRow}] /\ holding' \in [Id -> Holding \cup {NoRow}]
         /\ Registered' = Registered
         /\ \A j \in Registered :
              /\ symbol'[j].owner = symbol[j].owner /\ symbol'[j].first = symbol[j].first
              /\ \/ symbol'[j] = symbol[j]
                 \/ j = i /\ symbol'[j].by = r.user
         /\ \A g \in Holdings' :
              \/ /\ g \in Holdings /\ holding'[g].sym = holding[g].sym
                 /\ holding'[g].first = holding[g].first
                 /\ holding'[g].late = holding[g].late
                 /\ \/ holding'[g].by = holding[g].by
                    \/ g = r.own /\ holding'[g].by = r.user
              \/ /\ g = h /\ g \notin Holdings /\ ~HasHolding(i) /\ g \in given'.holding
                 /\ holding'[g].sym = i /\ holding'[g].by = r.user
                 /\ holding'[g].first = (h \notin given.holding)
                 /\ holding'[g].late = (i \notin Registered /\ r.crossed)
         /\ given'.symbol = given.symbol /\ given.holding \subseteq given'.holding
         /\ given'.holding \in SUBSET Id
         /\ given' \in [symbol: SUBSET Id, holding: SUBSET Id]
         /\ news' \in [Id -> News \cup {NoRow}]
         /\ collector' \in [Collector -> News \cup {NoRow}]
         /\ NewsOK'
         /\ Committed(q) /\ UNCHANGED <<official, edits>>
  <1> DEFINE updates == l # r.at \/ memo
             inserts == held = "set" /\ r.own = 0
             wanted == Patched(q, l)
  <1>1. /\ r \in Loaded /\ r # Idle /\ ReadOK(r) /\ i \in Id
        /\ r.user \in User /\ r.at \in Listing /\ r.own \in {0} \cup Id
        /\ r.crossed \in BOOLEAN
    BY DEF Patch, SymbolsInv, RequestsOK, Loaded
  <1>2. /\ updates => i \in Registered
        /\ symbol' = IF updates THEN [symbol EXCEPT ![i] = wanted] ELSE symbol
        /\ held = "set" /\ r.own # 0 => r.own \in Holdings
        /\ inserts => h \in Id /\ ~HasHolding(i)
        /\ holding' =
             CASE inserts -> [holding EXCEPT ![h] =
                               Added(i, r.user, i \notin Registered /\ r.crossed)]
               [] held = "set" /\ r.own # 0 -> [holding EXCEPT ![r.own].by = r.user]
               [] held = "none" /\ r.own # 0 -> [holding EXCEPT ![r.own] = NoRow]
               [] OTHER -> holding
        /\ given' = [given EXCEPT !.holding = @ \cup (IF inserts THEN {h} ELSE {})]
        /\ news' = [n \in Id |->
             Moved(news[n], i, updates /\ wanted.at # symbol[i].at)]
        /\ collector' = [k \in Collector |->
             Moved(collector[k], i, updates /\ wanted.at # symbol[i].at)]
        /\ Committed(q) /\ UNCHANGED <<official, edits>>
    BY DEF Patch
  <1>3. i \in Registered =>
          /\ wanted \in Row /\ wanted.owner = symbol[i].owner
          /\ wanted.first = symbol[i].first /\ wanted.by = r.user
    <2> SUFFICES ASSUME i \in Registered
                 PROVE  /\ wanted \in Row /\ wanted.owner = symbol[i].owner
                        /\ wanted.first = symbol[i].first /\ wanted.by = r.user
      OBVIOUS
    <2>1. symbol[i] \in Row /\ l \in Listing /\ symbol[i].at \in Listing
      BY TableTypes DEF Row
    <2>2. PICK a : a = [market |-> IF l.market # r.at.market THEN l.market
                                   ELSE symbol[i].at.market,
                        code |-> IF l.code # r.at.code THEN l.code ELSE symbol[i].at.code]
      OBVIOUS
    <2>3. a \in Listing
      BY <2>1, <2>2 DEF Listing
    <2>4. wanted = [symbol[i] EXCEPT !.by = r.user, !.at = a]
      BY <2>2 DEF Patched
    <2> QED BY <1>1, <2>1, <2>3, <2>4 DEF Row
  <1> HIDE DEF wanted
  <1>4. /\ symbol' \in [Id -> Row \cup {NoRow}] /\ Registered' = Registered
        /\ \A j \in Registered :
              /\ symbol'[j].owner = symbol[j].owner /\ symbol'[j].first = symbol[j].first
              /\ \/ symbol'[j] = symbol[j]
                 \/ j = i /\ symbol'[j].by = r.user
    <2>1. CASE updates
      <3>1. symbol' = [symbol EXCEPT ![i] = wanted] /\ i \in Registered /\ wanted \in Row
        BY <1>2, <1>3, <2>1
      <3>2. symbol' \in [Id -> Row \cup {NoRow}] /\ symbol'[i] = wanted
            /\ \A j \in Id \ {i} : symbol'[j] = symbol[j]
        BY <1>1, <3>1, TableTypes
      <3>3. Registered' = Registered
        BY <1>1, <3>1, <3>2, TableTypes DEF Registered, StoredIn
      <3> QED BY <1>3, <3>1, <3>2, <3>3, TableTypes
    <2>2. CASE ~updates
      <3>1. symbol' = symbol
        BY <1>2, <2>2
      <3> QED BY <3>1, TableTypes DEF Registered, StoredIn
    <2> QED BY <2>1, <2>2
  <1>5. given.holding \in SUBSET Id /\ given.symbol \in SUBSET Id
        /\ given \in [symbol: SUBSET Id, holding: SUBSET Id]
    BY DEF SymbolsInv, TypeOK
  <1>6. /\ given'.symbol = given.symbol
        /\ given'.holding = given.holding \cup (IF inserts THEN {h} ELSE {})
        /\ given' \in [symbol: SUBSET Id, holding: SUBSET Id]
    BY <1>2, <1>5
  <1>7. /\ holding' \in [Id -> Holding \cup {NoRow}]
        /\ \A g \in Holdings' :
              \/ /\ g \in Holdings /\ holding'[g].sym = holding[g].sym
                 /\ holding'[g].first = holding[g].first
                 /\ holding'[g].late = holding[g].late
                 /\ \/ holding'[g].by = holding[g].by
                    \/ g = r.own /\ holding'[g].by = r.user
              \/ /\ g = h /\ g \notin Holdings /\ ~HasHolding(i) /\ g \in given'.holding
                 /\ holding'[g].sym = i /\ holding'[g].by = r.user
                 /\ holding'[g].first = (h \notin given.holding)
                 /\ holding'[g].late = (i \notin Registered /\ r.crossed)
    <2>1. CASE inserts
      <3>1. PICK new : new = Added(i, r.user, i \notin Registered /\ r.crossed)
        OBVIOUS
      <3>2. /\ new \in Holding /\ new.sym = i /\ new.by = r.user
            /\ new.first = (h \notin given.holding)
            /\ new.late = (i \notin Registered /\ r.crossed)
        BY <1>1, <3>1 DEF Added, Holding
      <3>3. holding' = [holding EXCEPT ![h] = new] /\ h \in Id
        BY <1>2, <2>1, <3>1
      <3>4. h \notin Holdings
        BY NextIsNew DEF Holdings
      <3>5. /\ holding' \in [Id -> Holding \cup {NoRow}] /\ holding'[h] = new
            /\ \A g \in Id \ {h} : holding'[g] = holding[g]
        BY <3>2, <3>3, TableTypes
      <3>6. \A g \in Holdings' : g = h \/ (g \in Holdings /\ holding'[g] = holding[g])
        BY <3>5 DEF Holdings, StoredIn
      <3>7. h \in given'.holding /\ ~HasHolding(i)
        BY <1>2, <1>6, <2>1
      <3> QED BY <3>2, <3>4, <3>5, <3>6, <3>7
    <2>2. CASE held = "set" /\ r.own # 0
      <3>1. holding' = [holding EXCEPT ![r.own].by = r.user] /\ r.own \in Holdings
        BY <1>2, <2>2
      <3>2. PICK new : new = [holding[r.own] EXCEPT !.by = r.user]
        OBVIOUS
      <3>3. /\ new \in Holding /\ new.by = r.user /\ new.sym = holding[r.own].sym
            /\ new.first = holding[r.own].first /\ new.late = holding[r.own].late
        BY <1>1, <3>1, <3>2, TableTypes DEF Holding
      <3>4. /\ holding' \in [Id -> Holding \cup {NoRow}] /\ holding'[r.own] = new
            /\ \A g \in Id \ {r.own} : holding'[g] = holding[g]
        BY <3>1, <3>2, <3>3, TableTypes
      <3>5. \A g \in Holdings' : g = r.own \/ (g \in Holdings /\ holding'[g] = holding[g])
        BY <3>4 DEF Holdings, StoredIn
      <3> QED BY <3>1, <3>3, <3>4, <3>5
    <2>3. CASE held = "none" /\ r.own # 0
      <3>1. holding' = [holding EXCEPT ![r.own] = NoRow]
        BY <1>2, <2>3
      <3>2. /\ holding' \in [Id -> Holding \cup {NoRow}]
            /\ \A g \in Id : holding'[g] = NoRow \/ holding'[g] = holding[g]
        BY <3>1, TableTypes
      <3>3. \A g \in Holdings' : g \in Holdings /\ holding'[g] = holding[g]
        BY <3>2 DEF Holdings, StoredIn
      <3> QED BY <3>2, <3>3
    <2>4. CASE ~inserts /\ ~(held = "set" /\ r.own # 0) /\ ~(held = "none" /\ r.own # 0)
      <3>1. holding' = holding
        BY <1>2, <2>4
      <3> QED BY <3>1, TableTypes DEF Holdings, StoredIn
    <2> QED BY <2>1, <2>2, <2>3, <2>4
  <1> DEFINE moves == updates /\ wanted.at # symbol[i].at
  <1>8. /\ news \in [Id -> News \cup {NoRow}] /\ collector \in [Collector -> News \cup {NoRow}]
        /\ \A n \in Id : Placed(news[n])
        /\ \A k \in Collector : Placed(collector[k])
    BY DEF SymbolsInv, TypeOK, NewsOK
  <1>9. ASSUME NEW n \in News \cup {NoRow}, Placed(n), NEW m, m = Moved(n, i, moves)
        PROVE  m \in News \cup {NoRow} /\ Placed(m)'
    <2>1. CASE moves /\ n # NoRow /\ n.sym = i
      <3>1. m \in News /\ m.moved /\ m.sym = n.sym /\ m.late = n.late
        BY <1>9, <2>1 DEF Moved, News
      <3> QED BY <1>4, <1>9, <2>1, <3>1 DEF Placed
    <2>2. CASE ~(moves /\ n # NoRow /\ n.sym = i)
      <3>1. m = n
        BY <1>9, <2>2 DEF Moved
      <3>2. n # NoRow /\ n.sym \in Registered => symbol'[n.sym].at = symbol[n.sym].at
        <4> SUFFICES ASSUME n # NoRow, n.sym \in Registered
                     PROVE  symbol'[n.sym].at = symbol[n.sym].at
          OBVIOUS
        <4>1. CASE n.sym # i \/ ~updates
          BY <1>2, <4>1
        <4>2. CASE n.sym = i /\ updates
          <5>1. wanted.at = symbol[i].at
            BY <2>2, <4>2
          <5>2. symbol'[i] = wanted
            BY <1>1, <1>2, <4>2, TableTypes
          <5> QED BY <4>2, <5>1, <5>2
        <4> QED BY <4>1, <4>2
      <3> QED BY <1>4, <1>9, <3>1, <3>2 DEF Placed
    <2> QED BY <2>1, <2>2
  <1> HIDE DEF moves
  <1>10. /\ news' \in [Id -> News \cup {NoRow}]
         /\ collector' \in [Collector -> News \cup {NoRow}]
         /\ NewsOK'
    <2>1. /\ news' = [n \in Id |-> Moved(news[n], i, moves)]
          /\ collector' = [k \in Collector |-> Moved(collector[k], i, moves)]
      BY <1>2 DEF moves
    <2>2. ASSUME NEW n \in Id PROVE news'[n] \in News \cup {NoRow} /\ Placed(news[n])'
      <3>1. PICK m : m = news'[n]
        OBVIOUS
      <3>2. m \in News \cup {NoRow} /\ Placed(m)'
        BY <1>8, <1>9, <2>1, <3>1
      <3> QED BY <3>1, <3>2 DEF Placed
    <2>3. ASSUME NEW k \in Collector
          PROVE  collector'[k] \in News \cup {NoRow} /\ Placed(collector[k])'
      <3>1. PICK m : m = collector'[k]
        OBVIOUS
      <3>2. m \in News \cup {NoRow} /\ Placed(m)'
        BY <1>8, <1>9, <2>1, <3>1
      <3> QED BY <3>1, <3>2 DEF Placed
    <2> QED BY <2>1, <2>2, <2>3 DEF NewsOK
  <1>11. given.holding \subseteq given'.holding /\ given'.holding \in SUBSET Id
    BY <1>6
  <1> QED BY <1>1, <1>2, <1>4, <1>6, <1>7, <1>10, <1>11

\* A PATCH writes to a symbol of its user, or to one whose id was given again.
LEMMA PatchKeeps ==
  ASSUME SymbolsInv, NEW q \in Request, NEW l \in Listing, NEW memo \in BOOLEAN,
         NEW held \in {"keep", "set", "none"}, Patch(q, l, memo, held)
  PROVE  SymbolsInv'
  <1>1. PICK r, i, h : r = request[q] /\ i = r.id /\ h = NextIn(holding)
    OBVIOUS
  <1>2. /\ r \in Loaded /\ r # Idle /\ ReadOK(r) /\ i \in Id
        /\ symbol' \in [Id -> Row \cup {NoRow}] /\ holding' \in [Id -> Holding \cup {NoRow}]
        /\ Registered' = Registered
        /\ given'.symbol = given.symbol /\ given.holding \subseteq given'.holding
        /\ given' \in [symbol: SUBSET Id, holding: SUBSET Id]
        /\ news' \in [Id -> News \cup {NoRow}]
        /\ collector' \in [Collector -> News \cup {NoRow}]
        /\ NewsOK'
        /\ Committed(q) /\ UNCHANGED <<official, edits>>
    BY <1>1, PatchWrites
  <1>3. \A j \in Registered :
          /\ symbol'[j].owner = symbol[j].owner /\ symbol'[j].first = symbol[j].first
          /\ symbol'[j] = symbol[j] \/ (j = i /\ symbol'[j].by = r.user)
    BY <1>1, PatchWrites
  <1>4. \A g \in Holdings' :
          \/ /\ g \in Holdings /\ holding'[g].sym = holding[g].sym
             /\ holding'[g].first = holding[g].first
             /\ holding'[g].late = holding[g].late
             /\ \/ holding'[g].by = holding[g].by
                \/ g = r.own /\ holding'[g].by = r.user
          \/ /\ g = h /\ g \notin Holdings /\ ~HasHolding(i) /\ g \in given'.holding
             /\ holding'[g].sym = i /\ holding'[g].by = r.user
             /\ holding'[g].first = (h \notin given.holding)
             /\ holding'[g].late = (i \notin Registered /\ r.crossed)
    BY <1>1, PatchWrites
  <1>6. RequestsOK'
    <2>1. OldRows
      BY <1>2, <1>3, <1>4 DEF OldRows
    <2>2. \A j \in Id : j # i => Spared(j)
      BY <1>2, <1>4 DEF Spared
    <2> QED BY <1>1, <1>2, <2>1, <2>2, RequestsCrossed
  <1>7. TypeOK'
    <2>1. \A p \in Request : request'[p] \in Loaded \cup {Idle}
      BY <1>6 DEF RequestsOK
    <2> QED BY <1>2, <2>1 DEF SymbolsInv, TypeOK
  <1>8. i \in given.symbol /\ \A g \in Holdings : holding[g].sym = i => HasHolding(i)
    BY <1>1, <1>2 DEF ReadOK, HasHolding
  <1>9. IdsOK'
    <2>1. /\ Registered' \subseteq given'.symbol /\ Holdings' \subseteq given'.holding
          /\ \A g \in Holdings' : holding'[g].sym \in given'.symbol
      BY <1>2, <1>4, <1>8 DEF SymbolsInv, IdsOK
    <2>2. \A g, k \in Holdings' : holding'[g].sym = holding'[k].sym => g = k
      BY <1>4, <1>8 DEF SymbolsInv, IdsOK
    <2> QED BY <2>1, <2>2 DEF IdsOK
  <1>11. HoldingHasSymbol'
    BY <1>1, <1>2, <1>4 DEF SymbolsInv, HoldingHasSymbol, ReadOK
  <1>12. WrittenByOwner'
    <2> SUFFICES ASSUME NEW j \in Registered, symbol[j].first
                 PROVE  /\ symbol'[j].by = symbol[j].owner
                        /\ \A g \in Holdings' : holding'[g].sym = j /\ holding'[g].first
                             => holding'[g].by = symbol[j].owner
      BY <1>2, <1>3 DEF WrittenByOwner
    <2>1. /\ symbol[j].by = symbol[j].owner
          /\ \A g \in Holdings : holding[g].sym = j /\ holding[g].first
               => holding[g].by = symbol[j].owner
      BY DEF SymbolsInv, WrittenByOwner
    <2>2. j = i => symbol[j].owner = r.user
      BY <1>1, <1>2 DEF ReadOK
    <2>3. r.own \in Holdings /\ holding[r.own].first => holding[r.own].sym = i
      BY <1>1, <1>2 DEF ReadOK
    <2>4. symbol'[j].by = symbol[j].owner
      BY <1>3, <2>1, <2>2
    <2> QED BY <1>4, <2>1, <2>2, <2>3, <2>4
  <1> QED BY <1>2, <1>6, <1>7, <1>9, <1>11, <1>12 DEF SymbolsInv

-----------------------------------------------------------------------------
(* The induction and what follows from it. *)

LEMMA SymbolsInit == Init => SymbolsInv
  <1> SUFFICES ASSUME Init PROVE SymbolsInv
    OBVIOUS
  <1>1. Registered = {} /\ Holdings = {}
    BY DEF Init, Registered, Holdings, StoredIn
  <1>2. TypeOK
    <2>1. given \in [symbol: SUBSET Id, holding: SUBSET Id]
      BY DEF Init
    <2>2. \A q \in Request : request[q] \in Loaded \cup {Idle}
      BY DEF Init
    <2>3. edits \in 0..MaxEdits
      BY SymbolBounds DEF Init
    <2> QED BY <2>1, <2>2, <2>3 DEF Init, TypeOK
  <1>3. IdsOK /\ NewsOK /\ HoldingHasSymbol /\ WrittenByOwner
    BY <1>1 DEF Init, IdsOK, NewsOK, Placed, HoldingHasSymbol, WrittenByOwner
  <1>4. RequestsOK
    BY DEF Init, RequestsOK, ReadOK
  <1> QED BY <1>2, <1>3, <1>4 DEF SymbolsInv

LEMMA SymbolsNext == SymbolsInv /\ [Next]_vars => SymbolsInv'
  <1> SUFFICES ASSUME SymbolsInv, [Next]_vars PROVE SymbolsInv'
    OBVIOUS
  <1>1. CASE Download \/ Restart \/ (\E q \in Request : Fail(q)) \/ UNCHANGED vars
    BY <1>1, QuietKeeps
  <1>2. CASE \E u \in User, m \in Market, c \in Code, named, withHolding \in BOOLEAN :
               Create(u, m, c, named, withHolding)
    BY <1>2, CreateKeeps
  <1>3. CASE \E q \in Request, op \in {"patch", "delete"}, u \in User, i \in Id :
               Open(q, op, u, i)
    BY <1>3, OpenKeeps
  <1>4. CASE \E q \in Request, l \in Listing, memo \in BOOLEAN,
                held \in {"keep", "set", "none"} : Patch(q, l, memo, held)
    BY <1>4, PatchKeeps
  <1>5. CASE \E q \in Request : Delete(q)
    BY <1>5, DeleteKeeps
  <1>6. CASE \E k \in Collector :
               \/ \E listed \in {Krx, Fallback}, i \in Id : Collect(k, listed, i)
               \/ StoreNews(k) \/ StoreNothing(k)
    BY <1>6, CollectKeeps
  <1>7. CASE \E q \in Request : LoadNews(q)
    BY <1>7, LoadKeeps
  <1> QED BY <1>1, <1>2, <1>3, <1>4, <1>5, <1>6, <1>7 DEF Next

LEMMA SymbolsAlways == Spec => []SymbolsInv
  BY SymbolsInit, SymbolsNext, PTL DEF Spec

\* Tables and requests are well typed; a holding outlives its symbol only if it was
\* added by a PATCH that overlapped the deletion, and news only if they were being
\* collected or stored meanwhile.
THEOREM RowsGoWithSymbols == Spec => []RegistryInv
  <1>1. SymbolsInv => NewsHasSymbol
    BY DEF SymbolsInv, NewsOK, Placed, NewsHasSymbol, StoredNews, StoredIn
  <1>2. SymbolsInv => RegistryInv
    BY <1>1 DEF SymbolsInv, RegistryInv
  <1> QED BY <1>2, SymbolsAlways, PTL

\* What is stored of a user's symbol was written by that user, as long as no id
\* was given twice.
THEOREM OnlyOwnersWrite == Spec => []WrittenByOwner
  <1>1. SymbolsInv => WrittenByOwner
    BY DEF SymbolsInv
  <1> QED BY <1>1, SymbolsAlways, PTL

\* News in their place are of a registered symbol, and of its company.
LEMMA InPlaceIsRight ==
  ASSUME SymbolsInv, NEW n \in StoredNews, InPlace(n)
  PROVE  /\ news[n].sym \in Registered /\ news[n].code \in Code
         /\ Company(news[n].code) = Company(symbol[news[n].sym].at.code)
  BY DEF SymbolsInv, TypeOK, News, NewsOK, Placed, InPlace, StoredNews, StoredIn

\* A list that has a company's common share takes every share of the company to it.
LEMMA ListTakesToCommon ==
  ASSUME NEW F \in SUBSET Krx, NEW x \in Code, NEW y \in Code,
         Company(x) = Company(y), \E l \in F : l.code = CommonOf[x]
  PROVE  Identity(F, y) = CommonOf[x]
  <1>1. Company(x) = CommonOf[x]
    BY DEF Company, Identity
  <1>2. CommonOf[y] = CommonOf[x]
    <2>1. CASE \E l \in Krx : l.code = CommonOf[y]
      BY <1>1, <2>1 DEF Company, Identity
    <2>2. CASE ~\E l \in Krx : l.code = CommonOf[y]
      <3>1. y = CommonOf[x]
        BY <1>1, <2>2 DEF Company, Identity
      <3> QED BY <3>1, Shares
    <2> QED BY <2>1, <2>2
  <1> QED BY <1>2 DEF Identity

\* What was collected for one share of a company is shown with every share of it
\* that is registered in the market, if the API server's list has the company's
\* common share.
THEOREM SiblingsShareNews == Spec => []CollectedIsShown
  <1>1. SymbolsInv => CollectedIsShown
    <2> SUFFICES ASSUME SymbolsInv, NEW n \in StoredNews, NEW i \in Registered, InPlace(n),
                        \E l \in Listed : l.code = CommonOf[news[n].code],
                        symbol[i].at.market = symbol[news[n].sym].at.market,
                        Company(symbol[i].at.code) = Company(news[n].code)
                 PROVE  n \in Shown(i)
      BY DEF CollectedIsShown
    <2> DEFINE j == news[n].sym
    <2>1. /\ j \in Registered /\ news[n].code \in Code
          /\ Company(news[n].code) = Company(symbol[j].at.code)
      BY InPlaceIsRight
    <2>2. symbol[i].at.code \in Code /\ symbol[j].at.code \in Code
      BY <2>1, TableTypes DEF Row, Listing
    <2>3. /\ Identity(Listed, symbol[i].at.code) = CommonOf[news[n].code]
          /\ Identity(Listed, symbol[j].at.code) = CommonOf[news[n].code]
      BY <2>1, <2>2, ListedIsKrx, ListTakesToCommon
    <2>4. j \in ResearchIds(i)
      BY <2>1, <2>3 DEF ResearchIds
    <2> QED BY <2>4 DEF Shown
  <1> QED BY <1>1, SymbolsAlways, PTL

\* No symbol is shown another company's news, unless the symbol that they were
\* collected for has been given another market or code, or was deleted while they
\* were collected.
THEOREM NewsOfTheCompany == Spec => []OnlyItsCompany
  <1>1. SymbolsInv => OnlyItsCompany
    <2> SUFFICES ASSUME SymbolsInv, NEW i \in Registered, NEW n \in Shown(i), InPlace(n)
                 PROVE  Company(news[n].code) = Company(symbol[i].at.code)
      BY DEF OnlyItsCompany
    <2> DEFINE j == news[n].sym
    <2>1. n \in StoredNews /\ j \in ResearchIds(i)
      BY DEF Shown
    <2>2. j \in Registered /\ Company(news[n].code) = Company(symbol[j].at.code)
      BY <2>1, InPlaceIsRight
    <2>3. symbol[i].at.code \in Code /\ symbol[j].at.code \in Code
      BY <2>2, TableTypes DEF Row, Listing
    <2>4. j = i \/ Identity(Listed, symbol[j].at.code) = Identity(Listed, symbol[i].at.code)
      BY <2>1 DEF ResearchIds
    <2>5. Company(symbol[j].at.code) = Company(symbol[i].at.code)
      BY <2>3, <2>4, ListedIsKrx, RepresentsCompany
    <2> QED BY <2>2, <2>5
  <1> QED BY <1>1, SymbolsAlways, PTL
=============================================================================
