---------------------------- MODULE ResearchStore ----------------------------
(***************************************************************************)
(* News (or disclosures) and their analyses: the collectors of             *)
(* services/naver_news.py and opendart.py, the analyzer of                 *)
(* services/analyzer.py, run standalone or by run_collection, and the      *)
(* symbol deletions of routers/symbols.py with the hooks of models.py,     *)
(* all over one SQLite file.                                               *)
(*                                                                         *)
(* A SELECT outside a transaction sees the last committed state.  The      *)
(* first flush takes the database's only write lock, which is kept, over   *)
(* the requests to the news service that follow, until commit or           *)
(* rollback; a writer that waits for it too long gets an error.  Foreign   *)
(* keys are not enforced.  An item is its key (canonical_url or rcept_no); *)
(* all new items of one answer are checked first and flushed together.     *)
(***************************************************************************)
EXTENDS Integers, Sequences, FiniteSetsExt, Functions

CONSTANTS
  Worker,      \* the scheduler process
  Request,     \* API request threads
  Key,         \* canonical_url or rcept_no
  NoItem,      \* no such row
  NoKey,       \* an answer's entry without a url or number, which parsers skip
  NoProc,      \* nobody holds the write lock
  Initial,     \* how many symbols are registered at first
  Modes,       \* what requests do: "collection", "news", "analysis"
  MaxSymbol, MaxItem,  \* bounds on ids
  MaxEdits,    \* bound on registrations and deletions
  MaxFaults    \* bound on lock timeouts and crashes

Proc == Request \cup {Worker}
SymId == 1..MaxSymbol
ItemId == 1..MaxItem

ASSUME NameAssumption ==
  /\ Worker \notin Request /\ NoProc \notin Request \cup {Worker}
  /\ NoKey \notin Key
ASSUME ModeAssumption == Modes \subseteq {"collection", "news", "analysis"}
ASSUME BoundAssumption ==
  /\ MaxSymbol \in Nat /\ MaxItem \in Nat /\ MaxEdits \in Nat /\ MaxFaults \in Nat
  /\ Initial \in 0..MaxSymbol

VARIABLES
  symbols,   \* the ids in the symbols table
  item,      \* the news_items (or disclosures) table
  analysis,  \* how many analysis_results a target id has, by what they describe
  lock,      \* who holds the database's write lock
  job,       \* what each process is doing, with its session
  edits, faults

vars == <<symbols, item, analysis, lock, job, edits, faults>>

Item == [sym: SymId, key: Key]

\* pc, the kind of run, symbols loaded and still to do, the session's
\* unexpired symbols, the current symbol and the new keys of its answer, rows
\* flushed, targets found analysed, analyses to store, and the items a deletion is
\* about to remove.  The code keeps no record of what is overtaken, the targets
\* whose analyses others have committed since: only properties read it.
Idle == [pc |-> "idle", mode |-> "none", batch |-> {}, left |-> {},
         seen |-> {}, cur |-> 0, fresh |-> {}, new |-> {},
         done |-> {}, todo |-> {}, overtaken |-> {}, doomed |-> {}]

Stored == {i \in ItemId : item[i] # NoItem}
StoredKeys == {item[i].key : i \in Stored}
Analysed(i) == \E k \in Key : analysis[i][k] > 0

\* SQLite gives a new row one more than the largest id in use.
NextId(used) == Max(used \cup {0}) + 1

MayWrite(p) == lock \in {NoProc, p}

Fault == faults < MaxFaults /\ faults' = faults + 1
Edit == edits < MaxEdits /\ edits' = edits + 1

Init ==
  /\ symbols = 1..Initial
  /\ item = [i \in ItemId |-> NoItem]
  /\ analysis = [i \in ItemId |-> [k \in Key |-> 0]]
  /\ lock = NoProc
  /\ job = [p \in Proc |-> Idle]
  /\ edits = 0
  /\ faults = 0

-----------------------------------------------------------------------------

\* The session ends: what it has not committed is rolled back.
Leave(p) ==
  /\ job' = [job EXCEPT ![p] = Idle]
  /\ lock' = IF lock = p THEN NoProc ELSE lock

\* A run begins.  Unified runs exclude each other (see CollectionRuns).
Begin(p, mode) ==
  /\ job[p].pc = "idle"
  /\ mode = "collection" => \A q \in Proc : job[q].mode # "collection"
  /\ job' = [job EXCEPT ![p] =
       [Idle EXCEPT !.mode = mode,
                    !.pc = IF mode = "analysis" THEN "mark" ELSE "symbols"]]
  /\ UNCHANGED <<symbols, item, analysis, lock, edits, faults>>

\* The registered symbols are loaded; in a unified run the commits of the
\* steps before may already have expired them again.
LoadSymbols(p) ==
  /\ job[p].pc = "symbols"
  /\ \E seen \in IF job[p].mode = "collection" THEN {symbols, {}} ELSE {symbols} :
       job' = [job EXCEPT ![p].pc = "collect", ![p].batch = symbols,
                          ![p].left = symbols, ![p].seen = seen]
  /\ UNCHANGED <<symbols, item, analysis, lock, edits, faults>>

\* Touching the object of symbol s works: it is loaded, or can be reloaded.
Reachable(p, s) == s \in job[p].seen \cup symbols

\* What p sees in the table: committed rows and its own flushed ones.
KnownKeys(p) == StoredKeys \cup {n.key : n \in job[p].new}

\* Nothing new for the symbol, or its request failed: on to the next one.
FetchNothing(p, s) ==
  /\ job[p].pc = "collect"
  /\ s \in job[p].left
  /\ Reachable(p, s)
  /\ job' = [job EXCEPT ![p].left = @ \ {s}, ![p].seen = @ \cup {s}]
  /\ UNCHANGED <<symbols, item, analysis, lock, edits, faults>>

\* Mutants: the already_stored check is dropped; an entry without a url is not
\* skipped by the parser.
FetchNew_Unchecked(p, s, ks) ==
  /\ job[p].pc = "collect"
  /\ s \in job[p].left
  /\ Reachable(p, s)
  /\ ks # {}
  /\ job' = [job EXCEPT ![p].pc = "flush", ![p].cur = s, ![p].fresh = ks,
                        ![p].seen = @ \cup {s}]
  /\ UNCHANGED <<symbols, item, analysis, lock, edits, faults>>
FetchNew_Empty(p, s, ks) ==
  /\ job[p].pc = "collect"
  /\ s \in job[p].left
  /\ Reachable(p, s)
  /\ ks # {} /\ ks \cap KnownKeys(p) = {}
  /\ job' = [job EXCEPT ![p].pc = "flush", ![p].cur = s, ![p].fresh = ks \cup {NoKey},
                        ![p].seen = @ \cup {s}]
  /\ UNCHANGED <<symbols, item, analysis, lock, edits, faults>>

\* The items of an answer that are not stored yet, as far as the session can see.
FetchNew(p, s, ks) ==
  /\ job[p].pc = "collect"
  /\ s \in job[p].left
  /\ Reachable(p, s)
  /\ ks # {} /\ ks \cap KnownKeys(p) = {}
  /\ job' = [job EXCEPT ![p].pc = "flush", ![p].cur = s, ![p].fresh = ks,
                        ![p].seen = @ \cup {s}]
  /\ UNCHANGED <<symbols, item, analysis, lock, edits, faults>>

\* The ids that the next rows p inserts are given.
NextIds(p) ==
  LET first == NextId(Stored \cup {n.id : n \in job[p].new})
  IN  first..(first + Cardinality(job[p].fresh) - 1)

\* One flush takes the write lock and inserts all of them, in the answer's order.
Flush(p) ==
  /\ job[p].pc = "flush"
  /\ MayWrite(p)
  /\ job[p].fresh \cap KnownKeys(p) = {}
  /\ NextIds(p) \subseteq ItemId
  /\ \E key \in Bijection(NextIds(p), job[p].fresh) :
       job' = [job EXCEPT
         ![p].pc = "collect",
         ![p].left = @ \ {job[p].cur},
         ![p].fresh = {},
         ![p].new = @ \cup {[id |-> i, sym |-> job[p].cur, key |-> key[i]] :
                              i \in NextIds(p)}]
  /\ lock' = p
  /\ UNCHANGED <<symbols, item, analysis, edits, faults>>

\* IntegrityError: another session stored one of them first.  The run fails.
FlushConflict(p) ==
  /\ job[p].pc = "flush"
  /\ MayWrite(p)
  /\ job[p].fresh \cap KnownKeys(p) # {}
  /\ Leave(p)
  /\ UNCHANGED <<symbols, item, analysis, edits, faults>>

\* Mutant: the commit is forgotten and the session is never closed.
CommitItems_Open(p) ==
  /\ job[p].pc = "collect"
  /\ job[p].left = {}
  /\ job' = [job EXCEPT ![p] =
       IF job[p].mode = "news" THEN Idle
       ELSE [Idle EXCEPT !.mode = job[p].mode, !.pc = "prices",
                         !.batch = job[p].batch, !.left = job[p].batch]]
  /\ UNCHANGED <<symbols, item, analysis, lock, edits, faults>>

\* The step is committed; a unified run goes on with the same symbols.
CommitItems(p) ==
  /\ job[p].pc = "collect"
  /\ job[p].left = {}
  /\ item' = [i \in ItemId |->
       IF \E n \in job[p].new : n.id = i
       THEN LET n == CHOOSE n \in job[p].new : n.id = i
            IN  [sym |-> n.sym, key |-> n.key]
       ELSE item[i]]
  /\ lock' = IF lock = p THEN NoProc ELSE lock
  /\ job' = [job EXCEPT ![p] =
       IF job[p].mode = "news" THEN Idle
       ELSE [Idle EXCEPT !.mode = job[p].mode, !.pc = "prices",
                         !.batch = job[p].batch, !.left = job[p].batch]]
  /\ UNCHANGED <<symbols, analysis, edits, faults>>

\* The summary and price steps touch every symbol again.
Prices(p) ==
  /\ job[p].pc = "prices"
  /\ job[p].left \subseteq symbols
  /\ job' = [job EXCEPT ![p].pc = "mark", ![p].left = {}]
  /\ UNCHANGED <<symbols, item, analysis, lock, edits, faults>>

\* ObjectDeletedError: a symbol was deleted meanwhile.  The run fails.
Gone(p) ==
  /\ job[p].pc \in {"collect", "prices"}
  /\ \E s \in job[p].left : ~Reachable(p, s)
  /\ Leave(p)
  /\ UNCHANGED <<symbols, item, analysis, edits, faults>>

\* Mutant: only targets of this session count as analysed.
ReadDone_Nothing(p) ==
  /\ job[p].pc = "mark"
  /\ job' = [job EXCEPT ![p].pc = "rows", ![p].done = {}]
  /\ UNCHANGED <<symbols, item, analysis, lock, edits, faults>>

\* _analyzed_target_ids: the targets that have an analysis ...
ReadDone(p) ==
  /\ job[p].pc = "mark"
  /\ job' = [job EXCEPT ![p].pc = "rows",
                        ![p].done = {i \in ItemId : Analysed(i)}]
  /\ UNCHANGED <<symbols, item, analysis, lock, edits, faults>>

\* ... and the items of registered symbols that are not among them.
ReadRows(p) ==
  /\ job[p].pc = "rows"
  /\ job' = [job EXCEPT
       ![p].pc = "store",
       ![p].todo = {[target |-> i, key |-> item[i].key] :
                      i \in {i \in Stored \ job[p].done :
                               item[i].sym \in symbols}}]
  /\ UNCHANGED <<symbols, item, analysis, lock, edits, faults>>

\* Mutant: the caller forgets to commit what was added to the session.
StoreAnalyses_Lost(p) ==
  /\ job[p].pc = "store"
  /\ MayWrite(p)
  /\ Leave(p)
  /\ UNCHANGED <<symbols, item, analysis, edits, faults>>

\* The analyses are inserted and committed; nothing makes a target unique.  Those
\* who have read what is analysed do not hear of it.
StoreAnalyses(p) ==
  /\ job[p].pc = "store"
  /\ MayWrite(p)
  /\ analysis' = [i \in ItemId |-> [k \in Key |->
       analysis[i][k] + IF [target |-> i, key |-> k] \in job[p].todo THEN 1 ELSE 0]]
  /\ job' = [q \in Proc |->
       IF q = p THEN Idle
       ELSE IF job[q].pc \in {"rows", "store"}
       THEN [job[q] EXCEPT !.overtaken = @ \cup {t.target : t \in job[p].todo}]
       ELSE job[q]]
  /\ lock' = IF lock = p THEN NoProc ELSE lock
  /\ UNCHANGED <<symbols, item, edits, faults>>

\* "database is locked": the lock is not obtained within the busy timeout.
LockTimeout(p) ==
  /\ job[p].pc \in {"flush", "store", "delete"}
  /\ ~MayWrite(p)
  /\ Fault
  /\ Leave(p)
  /\ UNCHANGED <<symbols, item, analysis, edits>>

\* A process is killed: the worker, or the API server with all its requests.
Crash(ps) ==
  /\ \E p \in ps : job[p] # Idle
  /\ Fault
  /\ job' = [p \in Proc |-> IF p \in ps THEN Idle ELSE job[p]]
  /\ lock' = IF lock \in ps THEN NoProc ELSE lock
  /\ UNCHANGED <<symbols, item, analysis, edits>>

-----------------------------------------------------------------------------

\* create_symbol
Register ==
  /\ Edit
  /\ lock = NoProc
  /\ NextId(symbols) \in SymId
  /\ symbols' = symbols \cup {NextId(symbols)}
  /\ UNCHANGED <<item, analysis, lock, job, faults>>

\* delete_symbol: db.delete loads the symbol's items ...
DeleteLoad(p, s) ==
  /\ job[p].pc = "idle"
  /\ Edit
  /\ s \in symbols
  /\ job' = [job EXCEPT ![p] = [Idle EXCEPT
               !.pc = "delete", !.cur = s,
               !.doomed = {i \in Stored : item[i].sym = s}]]
  /\ UNCHANGED <<symbols, item, analysis, lock, faults>>

\* ... and the commit removes those, their analyses (the before_delete hooks)
\* and the symbol, by id.
DeleteCommit(p) ==
  /\ job[p].pc = "delete"
  /\ MayWrite(p)
  /\ symbols' = symbols \ {job[p].cur}
  /\ item' = [i \in ItemId |-> IF i \in job[p].doomed THEN NoItem ELSE item[i]]
  /\ analysis' = [i \in ItemId |->
       IF i \in job[p].doomed THEN [k \in Key |-> 0] ELSE analysis[i]]
  /\ Leave(p)
  /\ UNCHANGED <<edits, faults>>

-----------------------------------------------------------------------------

Advance(p) ==
  \/ LoadSymbols(p)
  \/ \E s \in SymId : FetchNothing(p, s) \/ \E ks \in SUBSET Key : FetchNew(p, s, ks)
  \/ Flush(p)
  \/ FlushConflict(p)
  \/ CommitItems(p)
  \/ Prices(p)
  \/ Gone(p)
  \/ ReadDone(p)
  \/ ReadRows(p)
  \/ StoreAnalyses(p)
  \/ DeleteCommit(p)

Next ==
  \/ Begin(Worker, "collection")
  \/ \E p \in Request, mode \in Modes : Begin(p, mode)
  \/ \E p \in Proc : Advance(p)
  \/ \E p \in Proc : LockTimeout(p)
  \/ Crash({Worker}) \/ Crash(Request)
  \/ Register
  \/ \E p \in Request, s \in SymId : DeleteLoad(p, s)

Spec == Init /\ [][Next]_vars

\* The worker ticks forever and calls in flight return.
Fairness ==
  WF_vars(Begin(Worker, "collection")) /\ \A p \in Proc : WF_vars(Advance(p))

FairSpec == Spec /\ Fairness

-----------------------------------------------------------------------------

TypeOK ==
  /\ symbols \subseteq SymId
  /\ DOMAIN item = ItemId
  /\ \A i \in Stored : item[i] \in Item
  /\ analysis \in [ItemId -> [Key -> Nat]]
  /\ lock \in Proc \cup {NoProc}
  /\ job \in [Proc ->
       [pc: {"idle", "symbols", "collect", "flush", "prices", "mark", "rows",
             "store", "delete"},
        mode: {"none", "collection", "news", "analysis"},
        batch: SUBSET SymId, left: SUBSET SymId,
        seen: SUBSET SymId,
        cur: SymId \cup {0}, fresh: SUBSET Key,
        new: SUBSET [id: ItemId, sym: SymId, key: Key],
        done: SUBSET ItemId, todo: SUBSET [target: ItemId, key: Key],
        overtaken: SUBSET ItemId, doomed: SUBSET ItemId]]
  /\ edits \in 0..MaxEdits
  /\ faults \in 0..MaxFaults

\* A run can only lose the race for an item with its first flush: from then on it
\* holds the lock and sees every row.  The rejected flush takes all new items of
\* its symbol with it and ends the run, but never what the run has flushed for
\* other symbols.
OnlyFirstFlushRejected ==
  \A p \in Proc :
    job[p].pc = "flush" /\ job[p].new # {} => job[p].fresh \cap KnownKeys(p) = {}

\* A target that has an analysis is given another only by a run that was already
\* reading when that one was committed, and a run gives a target only one.  So
\* runs that do not overlap never repeat an analysis; those that do, may.
RepeatsOverlap ==
  \A i \in ItemId : \A k, l \in Key :
    analysis'[i][k] > analysis[i][k] =>
      /\ analysis'[i][k] = analysis[i][k] + 1
      /\ analysis'[i][l] > analysis[i][l] => l = k
      /\ Analysed(i) =>
           \E p \in Proc : /\ job[p].pc = "store" /\ job'[p].pc = "idle"
                          /\ i \in job[p].overtaken

\* No step of a run that overlapped no other repeats an analysis.
OnlyOverlapsRepeat == [][RepeatsOverlap]_vars

\* An item of a registered symbol that has no analysis of its own.
Awaiting(i) ==
  i \in Stored /\ item[i].sym \in symbols /\ analysis[i][item[i].key] = 0

\* Its id carries the analysis of a deleted item, stored too late to go with it:
\* the id counts as analysed, and the item never will be.
Orphaned(i) == \E k \in Key \ {item[i].key} : analysis[i][k] > 0

\* What is stored for a registered symbol is analysed in the end, whatever runs
\* fail, time out or die in between; unless it was given an orphan's id.
EventuallyAnalysed == \A i \in ItemId : Awaiting(i) ~> ~Awaiting(i) \/ Orphaned(i)

\* No session keeps the write lock for ever.
LockIsReleased == \A p \in Proc : lock = p ~> lock # p

=============================================================================
