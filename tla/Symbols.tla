-------------------------------- MODULE Symbols --------------------------------
(***************************************************************************)
(* The symbols users register and the research they are shown for them     *)
(* (routers/symbols.py, routers/portfolio.py, symbol_catalog.py).          *)
(*                                                                         *)
(* Two users may register the common and the preferred share of one        *)
(* company.  News of a company are stored once, with the symbol they were  *)
(* collected for, and shown with every symbol that the catalogue of listed *)
(* shares takes to the same company.  A process has the official list or   *)
(* the built-in one; the API server and the worker each have their own.    *)
(*                                                                         *)
(* A PATCH or a DELETE reads the symbol, checks its owner and commits what *)
(* follows from that reading later, by primary key; so does a collection,  *)
(* which reads a symbol, makes a request and stores the answer under the   *)
(* id it has read.  Ids of deleted rows are given again.  Foreign keys are *)
(* not enforced by the database.                                           *)
(***************************************************************************)
EXTENDS Integers, FiniteSetsExt

CONSTANTS
  User,
  Request,     \* PATCH and DELETE requests that may be under way at once
  Collector,   \* collections that may be under way at once
  Market,
  Code,
  CommonOf,    \* the code of the common share of a code's company
  Krx,         \* the market and code of each share the official list has
  Fallback,    \* those of the built-in list
  NoRow,
  MaxId,       \* bound on ids
  MaxEdits     \* bound on registrations, PATCHes and DELETEs

Id == 1..MaxId
Listing == [market: Market, code: Code]

ASSUME SymbolBounds == MaxId \in Nat /\ MaxEdits \in Nat
ASSUME Catalogues == Fallback \subseteq Krx /\ Krx \subseteq Listing
ASSUME Shares == /\ CommonOf \in [Code -> Code]
                 /\ \A c \in Code : CommonOf[CommonOf[c]] = CommonOf[c]

VARIABLES
  symbol,     \* the symbols table
  holding,    \* the holdings table
  news,       \* the news_items table, with one row for the news of a code
  official,   \* does the API server have the official list
  request,    \* what each request has read
  collector,  \* the news each collection is about to store
  given,      \* the ids that have been given to a row so far
  edits

vars == <<symbol, holding, news, official, request, collector, given, edits>>

\* by is the user whose request wrote the row last; first says that no row had
\* its id before.
Row == [at: Listing, owner: User, by: User, first: BOOLEAN]

\* late: its symbol was deleted by a request that overlapped the one that added
\* the holding.
Holding == [sym: Id, by: User, first: BOOLEAN, late: BOOLEAN]

\* News are those of code, and belong to symbol sym.  moved says that the symbol has
\* been given another market or code since it was read to collect them; late, that
\* it was deleted by a request that overlapped the collection or its commit.
News == [code: Code, sym: Id, moved: BOOLEAN, late: BOOLEAN]

ASSUME SymbolNames == NoRow \notin Row \cup Holding \cup News

Idle == [op |-> "none"]

\* own is the id of the symbol's holding, 0 for none; crossed says that another
\* request has committed to the symbol since it was read; doomed are the news that
\* a DELETE has loaded, once it is to "commit".
Loaded == [op: {"patch", "delete", "commit"}, user: User, id: Id, at: Listing,
           own: {0} \cup Id, crossed: BOOLEAN, doomed: SUBSET Id]

StoredIn(table) == {i \in Id : table[i] # NoRow}
Registered == StoredIn(symbol)
Holdings == StoredIn(holding)
StoredNews == StoredIn(news)
NextIn(table) == Max(StoredIn(table) \cup {0}) + 1

Init ==
  /\ symbol = [i \in Id |-> NoRow]
  /\ holding = [i \in Id |-> NoRow]
  /\ news = [n \in Id |-> NoRow]
  /\ official = FALSE
  /\ request = [q \in Request |-> Idle]
  /\ collector = [k \in Collector |-> NoRow]
  /\ given = [symbol |-> {}, holding |-> {}]
  /\ edits = 0

Edit == edits < MaxEdits /\ edits' = edits + 1

-----------------------------------------------------------------------------
(* The catalogue.                                                          *)

Listed == IF official THEN Krx ELSE Fallback

\* A download that succeeds is kept for as long as the process lives; one that
\* fails is tried again at the next use, and the built-in list stands in.
Download ==
  /\ ~official
  /\ official' = TRUE
  /\ UNCHANGED <<symbol, holding, news, request, collector, given, edits>>

Restart ==
  /\ official
  /\ official' = FALSE
  /\ request' = [q \in Request |-> Idle]
  /\ UNCHANGED <<symbol, holding, news, collector, given, edits>>

\* The code whose news represent code c: its common share's, if that is listed.
Identity(listed, c) ==
  IF \E l \in listed : l.code = CommonOf[c] THEN CommonOf[c] ELSE c

\* What an entry for market m finds by code: shares of that market, or of the
\* other one if there are none.
Lookup(m, c) ==
  LET found == {l \in Listed : l.code = c}
      near == {l \in found : l.market = m}
  IN  IF near # {} THEN near ELSE found

\* Code and name together are taken as they are; the code alone must be that of
\* exactly one share.  (A name alone is looked up as the code it stands for.)
Resolve(m, c, named) ==
  IF named THEN {[market |-> m, code |-> c]}
  ELSE IF Cardinality(Lookup(m, c)) = 1 THEN Lookup(m, c) ELSE {}

-----------------------------------------------------------------------------
(* Requests.                                                               *)

Taken(l) == \E i \in Registered : symbol[i].at = l
HasHolding(i) == \E h \in Holdings : holding[h].sym = i

\* POST answers 409: a unique constraint fails.
Conflict(l, withHolding) == Taken(l) \/ (withHolding /\ HasHolding(NextIn(symbol)))

Added(i, u, late) ==
  [sym |-> i, by |-> u, first |-> NextIn(holding) \notin given.holding, late |-> late]

\* create_symbol, which reads nothing of the table before its one commit.  What
\* it reads afterwards only makes the answer.
Create(u, m, c, named, withHolding) ==
  \E l \in Resolve(m, c, named) :
    LET i == NextIn(symbol)
        h == NextIn(holding)
    IN  /\ Edit
        /\ i \in Id
        /\ withHolding => h \in Id
        /\ ~Conflict(l, withHolding)
        /\ symbol' = [symbol EXCEPT ![i] =
             [at |-> l, owner |-> u, by |-> u, first |-> i \notin given.symbol]]
        /\ holding' = IF withHolding
                      THEN [holding EXCEPT ![h] = Added(i, u, FALSE)] ELSE holding
        /\ given' = [symbol |-> given.symbol \cup {i},
                     holding |-> given.holding \cup (IF withHolding THEN {h} ELSE {})]
        /\ UNCHANGED <<news, official, request, collector>>

\* Mutant: whoever may read may write.
May_Anyone(i, u) == i \in Registered

\* Other users' symbols answer 403 or 404.
May(i, u) == i \in Registered /\ symbol[i].owner = u

\* The id of the holding of symbol i, with which it is joined.
HoldingOf(i) ==
  IF HasHolding(i) THEN CHOOSE h \in Holdings : holding[h].sym = i ELSE 0

\* A PATCH or a DELETE reads the symbol and checks its owner.
Open(q, op, u, i) ==
  /\ Edit
  /\ request[q] = Idle
  /\ May(i, u)
  /\ request' = [request EXCEPT ![q] =
       [op |-> op, user |-> u, id |-> i, at |-> symbol[i].at,
        own |-> HoldingOf(i), crossed |-> FALSE, doomed |-> {}]]
  /\ UNCHANGED <<symbol, holding, news, official, collector, given>>

\* q is done, having committed to its symbol: the others that have read it are
\* crossed.
Committed(q) ==
  request' = [r \in Request |->
    IF r = q THEN Idle
    ELSE IF request[r] # Idle /\ request[r].id = request[q].id
    THEN [request[r] EXCEPT !.crossed = TRUE] ELSE request[r]]

\* The row of q's symbol with the columns that the PATCH changes from what it
\* read: market and code as in l.
Patched(q, l) ==
  LET r == request[q]
      new(f) == IF l[f] # r.at[f] THEN l[f] ELSE symbol[r.id].at[f]
  IN  [symbol[r.id] EXCEPT !.by = r.user,
         !.at = [market |-> new("market"), code |-> new("code")]]

\* News n, stored or not yet, when symbol i moves.
Moved(n, i, moves) ==
  IF moves /\ n # NoRow /\ n.sym = i THEN [n EXCEPT !.moved = TRUE] ELSE n

\* update_symbol commits: l is the market and code asked for, memo says that
\* another column changes, and held what is said of the holding.  A row to be
\* updated that is gone, and a unique constraint, fail the commit.
Patch(q, l, memo, held) ==
  LET r == request[q]
      i == r.id
      updates == l # r.at \/ memo
      h == NextIn(holding)
      inserts == held = "set" /\ r.own = 0
      wanted == Patched(q, l)
  IN  /\ request[q] # Idle
      /\ r.op = "patch"
      /\ updates => i \in Registered
                      /\ \A j \in Registered \ {i} : symbol[j].at # wanted.at
      /\ held = "set" /\ r.own # 0 => r.own \in Holdings
      /\ inserts => h \in Id /\ ~HasHolding(i)
      /\ symbol' = IF updates THEN [symbol EXCEPT ![i] = wanted] ELSE symbol
      /\ holding' =
           CASE inserts -> [holding EXCEPT ![h] =
                             Added(i, r.user, i \notin Registered /\ r.crossed)]
             [] held = "set" /\ r.own # 0 -> [holding EXCEPT ![r.own].by = r.user]
             [] held = "none" /\ r.own # 0 -> [holding EXCEPT ![r.own] = NoRow]
             [] OTHER -> holding
      /\ given' = [given EXCEPT !.holding = @ \cup (IF inserts THEN {h} ELSE {})]
      /\ Committed(q)
      /\ LET moves == updates /\ wanted.at # symbol[i].at
         IN  /\ news' = [n \in Id |-> Moved(news[n], i, moves)]
             /\ collector' = [k \in Collector |-> Moved(collector[k], i, moves)]
      /\ UNCHANGED <<official, edits>>

\* Mutant: the holding stays.
Left_Holding(q) == holding

\* The holding that was read goes with the symbol; one added since stays.
Left(q) ==
  LET r == request[q]
  IN  [h \in Id |->
        IF h = r.own \/ holding[h] = NoRow THEN NoRow
        ELSE [holding[h] EXCEPT !.late = @ \/ (r.crossed /\ holding[h].sym = r.id)]]

\* db.delete loads the symbol's news ...
LoadNews(q) ==
  /\ request[q] # Idle
  /\ request[q].op = "delete"
  /\ request' = [request EXCEPT ![q].op = "commit",
                   ![q].doomed = {n \in StoredNews : news[n].sym = request[q].id}]
  /\ UNCHANGED <<symbol, holding, news, official, collector, given, edits>>

\* News n, stored or not yet, when symbol i is deleted by another transaction.
Orphaned(n, i) ==
  IF n # NoRow /\ n.sym = i THEN [n EXCEPT !.late = TRUE] ELSE n

\* Mutant: the news that were loaded stay as well.
NewsLeft_All(q) ==
  [n \in Id |-> IF n \in request[q].doomed THEN news[n]
                ELSE Orphaned(news[n], request[q].id)]

\* ... and takes those with it; news stored since stay under its id.
NewsLeft(q) ==
  [n \in Id |-> IF n \in request[q].doomed THEN NoRow
                ELSE Orphaned(news[n], request[q].id)]

\* delete_symbol commits; rows that are gone already are not missed.
Delete(q) ==
  /\ request[q] # Idle
  /\ request[q].op = "commit"
  /\ symbol' = [symbol EXCEPT ![request[q].id] = NoRow]
  /\ holding' = Left(q)
  /\ news' = NewsLeft(q)
  /\ collector' = [k \in Collector |-> Orphaned(collector[k], request[q].id)]
  /\ Committed(q)
  /\ UNCHANGED <<official, given, edits>>

\* A conflict, a row that is gone, a write lock that is not had in time.
Fail(q) ==
  /\ request[q] # Idle
  /\ request' = [request EXCEPT ![q] = Idle]
  /\ UNCHANGED <<symbol, holding, news, official, collector, given, edits>>

-----------------------------------------------------------------------------
(* Research.                                                               *)

\* A collection reads symbol i and requests the news of its company.  The worker
\* downloads the list and is restarted on its own, so that it goes by either list
\* whatever the API server has.
Collect(k, listed, i) ==
  /\ collector[k] = NoRow
  /\ i \in Registered
  /\ collector' = [collector EXCEPT ![k] =
       [code |-> Identity(listed, symbol[i].at.code), sym |-> i,
        moved |-> FALSE, late |-> FALSE]]
  /\ UNCHANGED <<symbol, holding, news, official, request, given, edits>>

\* store_news, committed: under the id that was read, whatever has it by now.  What
\* is stored already is not stored again.
StoreNews(k) ==
  /\ collector[k] # NoRow
  /\ \A n \in StoredNews : news[n].code # collector[k].code
  /\ NextIn(news) \in Id
  /\ news' = [news EXCEPT ![NextIn(news)] = collector[k]]
  /\ collector' = [collector EXCEPT ![k] = NoRow]
  /\ UNCHANGED <<symbol, holding, official, request, given, edits>>

\* Nothing new, a failed request, a conflict, or the process is killed.
StoreNothing(k) ==
  /\ collector[k] # NoRow
  /\ collector' = [collector EXCEPT ![k] = NoRow]
  /\ UNCHANGED <<symbol, holding, news, official, request, given, edits>>

\* Mutant: only the symbol's own.
ResearchIds_Own(i) == {i}

\* research_symbol_ids.
ResearchIds(i) ==
  LET company(j) == Identity(Listed, symbol[j].at.code)
  IN  {i} \cup {j \in Registered :
         symbol[j].at.market = symbol[i].at.market /\ company(j) = company(i)}

\* The news that GET /api/symbols/{id} shows for symbol i.
Shown(i) == {n \in StoredNews : news[n].sym \in ResearchIds(i)}

-----------------------------------------------------------------------------

Next ==
  \/ Download \/ Restart
  \/ \E u \in User, m \in Market, c \in Code, named, withHolding \in BOOLEAN :
       Create(u, m, c, named, withHolding)
  \/ \E q \in Request, op \in {"patch", "delete"}, u \in User, i \in Id :
       Open(q, op, u, i)
  \/ \E q \in Request, l \in Listing, memo \in BOOLEAN, held \in {"keep", "set", "none"} :
       Patch(q, l, memo, held)
  \/ \E q \in Request : LoadNews(q) \/ Delete(q) \/ Fail(q)
  \/ \E k \in Collector, listed \in {Krx, Fallback}, i \in Id : Collect(k, listed, i)
  \/ \E k \in Collector : StoreNews(k) \/ StoreNothing(k)

Spec == Init /\ [][Next]_vars

-----------------------------------------------------------------------------
(* Properties.                                                             *)

TypeOK ==
  /\ symbol \in [Id -> Row \cup {NoRow}]
  /\ holding \in [Id -> Holding \cup {NoRow}]
  /\ news \in [Id -> News \cup {NoRow}]
  /\ collector \in [Collector -> News \cup {NoRow}]
  /\ official \in BOOLEAN
  /\ \A q \in Request : request[q] \in Loaded \cup {Idle}
  /\ given \in [symbol: SUBSET Id, holding: SUBSET Id]
  /\ edits \in 0..MaxEdits

\* What is stored of a user's symbol was written by that user, however long ago
\* a request checked who owns it, as long as no id was given twice.
WrittenByOwner ==
  \A i \in Registered : symbol[i].first =>
    /\ symbol[i].by = symbol[i].owner
    /\ \A h \in Holdings :
         holding[h].sym = i /\ holding[h].first => holding[h].by = symbol[i].owner

\* A holding outlives its symbol only if it was added by a PATCH that overlapped
\* the deletion: no other order of requests leaves one, to be taken over by the
\* next symbol that is given the id.
HoldingHasSymbol ==
  \A h \in Holdings : holding[h].sym \in Registered \/ holding[h].late

\* News outlive their symbol only if a collection that had read the symbol, or was
\* storing them, overlapped the deletion.
NewsHasSymbol ==
  \A n \in StoredNews : news[n].sym \in Registered \/ news[n].late

\* All of it: what any step leaves in the tables and in the requests.
RegistryInv == TypeOK /\ HoldingHasSymbol /\ NewsHasSymbol

Company(c) == Identity(Krx, c)

\* News that are under the id of the symbol they were collected for, which is still
\* the share it was when it was read.
InPlace(n) == ~news[n].moved /\ ~news[n].late

\* News collected for one share of a company are shown with every share of it
\* that is registered in the market, whoever registered it, whichever of them
\* was first and whichever list the collection went by, if the list the API
\* server has contains the company's common share.
CollectedIsShown ==
  \A n \in StoredNews, i \in Registered :
    /\ InPlace(n)
    /\ \E l \in Listed : l.code = CommonOf[news[n].code]
    /\ symbol[i].at.market = symbol[news[n].sym].at.market
    /\ Company(symbol[i].at.code) = Company(news[n].code)
    => n \in Shown(i)

\* No symbol is shown another company's news, in spite of siblings and lists that
\* differ, nor those of a deleted symbol whose id it was given; unless the symbol
\* that they were collected for was given another market or code, or was deleted
\* while they were collected: they stay under its id, and are shown as the news of
\* whatever has the id then.
OnlyItsCompany ==
  \A i \in Registered : \A n \in Shown(i) :
    InPlace(n) => Company(news[n].code) = Company(symbol[i].at.code)

=============================================================================
