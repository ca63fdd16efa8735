------------------------ MODULE ResearchStoreProofs ------------------------
(***************************************************************************)
(* Theorems about ResearchStore, for every set of requests and keys, any   *)
(* kinds of requests and all bounds on ids, edits and faults.              *)
(***************************************************************************)
EXTENDS ResearchStore, TLAPS

\* What a job may be.
Job == [pc: {"idle", "symbols", "collect", "flush", "prices", "mark", "rows",
             "store", "delete"},
        mode: {"none", "collection", "news", "analysis"},
        batch: SUBSET SymId, left: SUBSET SymId,
        seen: SUBSET SymId,
        cur: SymId \cup {0}, fresh: SUBSET Key,
        new: SUBSET [id: ItemId, sym: SymId, key: Key],
        done: SUBSET ItemId, todo: SUBSET [target: ItemId, key: Key],
        overtaken: SUBSET ItemId, doomed: SUBSET ItemId]

\* What is about to be flushed are items of a symbol.
Flushable(j) == j.pc = "flush" => j.cur \in SymId

\* The induction for TypeOK.
StoreInv == TypeOK /\ \A p \in Proc : Flushable(job[p])

-----------------------------------------------------------------------------
(* Types. *)

\* An idle job is a job.
LEMMA IdleType == Idle \in Job /\ Flushable(Idle)
  BY DEF Idle, Job, Flushable

\* A fault or an edit stays within its budget.
LEMMA BudgetType ==
  ASSUME TypeOK
  PROVE  /\ Fault => faults' \in 0..MaxFaults
         /\ Edit => edits' \in 0..MaxEdits
  BY BoundAssumption DEF TypeOK, Fault, Edit

\* A step that changes one job leaves all of them jobs.
LEMMA OneJob ==
  ASSUME StoreInv, NEW p \in Proc, NEW j \in Job, Flushable(j),
         job' = [job EXCEPT ![p] = j]
  PROVE  job' \in [Proc -> Job] /\ \A q \in Proc : Flushable(job'[q])
  <1>1. job \in [Proc -> Job]
    BY DEF StoreInv, TypeOK, Job
  <1>2. job'[p] = j /\ \A q \in Proc : q # p => job'[q] = job[q]
    BY <1>1
  <1> QED BY <1>1, <1>2 DEF StoreInv

\* A run begins and collects.
LEMMA CollectTypes ==
  ASSUME StoreInv, NEW p \in Proc
  PROVE  /\ \A mode \in {"collection", "news", "analysis"} : Begin(p, mode) =>
              job' \in [Proc -> Job] /\ \A q \in Proc : Flushable(job'[q])
         /\ LoadSymbols(p) =>
              job' \in [Proc -> Job] /\ \A q \in Proc : Flushable(job'[q])
         /\ \A s \in SymId : FetchNothing(p, s) =>
              job' \in [Proc -> Job] /\ \A q \in Proc : Flushable(job'[q])
         /\ \A s \in SymId, ks \in SUBSET Key : FetchNew(p, s, ks) =>
              job' \in [Proc -> Job] /\ \A q \in Proc : Flushable(job'[q])
         /\ Flush(p) =>
              job' \in [Proc -> Job] /\ \A q \in Proc : Flushable(job'[q])
         /\ CommitItems(p) =>
              job' \in [Proc -> Job] /\ \A q \in Proc : Flushable(job'[q])
  <1> DEFINE Goal == job' \in [Proc -> Job] /\ \A q \in Proc : Flushable(job'[q])
  <1>0. /\ job \in [Proc -> Job] /\ job[p] \in Job /\ Flushable(job[p])
        /\ symbols \subseteq SymId
    BY DEF StoreInv, TypeOK, Job
  <1>1. ASSUME NEW mode \in {"collection", "news", "analysis"}, Begin(p, mode)
        PROVE  Goal
    <2> DEFINE j == [Idle EXCEPT !.mode = mode,
                       !.pc = IF mode = "analysis" THEN "mark" ELSE "symbols"]
    <2>1. job' = [job EXCEPT ![p] = j]
      BY <1>1 DEF Begin
    <2>2. j \in Job /\ Flushable(j)
      BY IdleType DEF Idle, Job, Flushable
    <2> HIDE DEF j
    <2> QED BY <2>1, <2>2, OneJob
  <1>2. ASSUME LoadSymbols(p) PROVE Goal
    <2>1. PICK seen \in SUBSET SymId :
            job' = [job EXCEPT ![p].pc = "collect", ![p].batch = symbols,
                               ![p].left = symbols, ![p].seen = seen]
      BY <1>0, <1>2 DEF LoadSymbols
    <2> DEFINE j == [job[p] EXCEPT !.pc = "collect", !.batch = symbols,
                                   !.left = symbols, !.seen = seen]
    <2>2. job' = [job EXCEPT ![p] = j]
      BY <2>1, <1>0
    <2>3. j \in Job /\ Flushable(j)
      BY <1>0 DEF Job, Flushable
    <2> HIDE DEF j
    <2> QED BY <2>2, <2>3, OneJob
  <1>3. ASSUME NEW s \in SymId, FetchNothing(p, s) PROVE Goal
    <2> DEFINE j == [job[p] EXCEPT !.left = @ \ {s}, !.seen = @ \cup {s}]
    <2>1. job' = [job EXCEPT ![p] = j]
      BY <1>0, <1>3 DEF FetchNothing
    <2>2. j \in Job /\ j.pc = job[p].pc /\ j.cur = job[p].cur
      BY <1>0 DEF Job
    <2> HIDE DEF j
    <2> QED BY <2>1, <2>2, <1>0, OneJob DEF Flushable
  <1>4. ASSUME NEW s \in SymId, NEW ks \in SUBSET Key, FetchNew(p, s, ks) PROVE Goal
    <2> DEFINE j == [job[p] EXCEPT !.pc = "flush", !.cur = s, !.fresh = ks,
                                   !.seen = @ \cup {s}]
    <2>1. job' = [job EXCEPT ![p] = j]
      BY <1>0, <1>4 DEF FetchNew
    <2>2. j \in Job /\ j.cur = s
      BY <1>0 DEF Job
    <2> HIDE DEF j
    <2> QED BY <2>1, <2>2, OneJob DEF Flushable
  <1>5. ASSUME Flush(p) PROVE Goal
    <2> DEFINE ids == NextIds(p)
               rows(key) == {[id |-> i, sym |-> job[p].cur, key |-> key[i]] : i \in ids}
               j(key) == [job[p] EXCEPT !.pc = "collect", !.left = @ \ {job[p].cur},
                                        !.fresh = {}, !.new = @ \cup rows(key)]
    <2>1. PICK key \in Bijection(ids, job[p].fresh) :
            job' = [job EXCEPT ![p].pc = "collect",
                               ![p].left = @ \ {job[p].cur},
                               ![p].fresh = {},
                               ![p].new = @ \cup rows(key)]
      BY <1>5 DEF Flush
    <2>2. job' = [job EXCEPT ![p] = j(key)]
      <3> HIDE DEF rows
      <3> QED BY <2>1, <1>0
    <2>3. ids \subseteq ItemId /\ job[p].cur \in SymId
      <3> HIDE DEF ids
      <3> QED BY <1>0, <1>5 DEF Flush, Flushable, ids
    <2>4. key \in [ids -> job[p].fresh] /\ job[p].fresh \subseteq Key
      <3> HIDE DEF ids
      <3> QED BY <2>1, <1>0 DEF Bijection, Injection, Job
    <2>5. rows(key) \in SUBSET [id: ItemId, sym: SymId, key: Key]
      <3> HIDE DEF ids
      <3> QED BY <2>3, <2>4
    <2>6. j(key) \in Job /\ j(key).pc = "collect"
      <3> HIDE DEF rows
      <3> QED BY <2>5, <1>0 DEF Job
    <2> HIDE DEF j
    <2> QED BY <2>2, <2>6, OneJob DEF Flushable
  <1>6. ASSUME CommitItems(p) PROVE Goal
    <2> DEFINE j == IF job[p].mode = "news" THEN Idle
                    ELSE [Idle EXCEPT !.mode = job[p].mode, !.pc = "prices",
                            !.batch = job[p].batch, !.left = job[p].batch]
    <2>1. job' = [job EXCEPT ![p] = j]
      BY <1>6 DEF CommitItems
    <2>2. j \in Job /\ Flushable(j)
      BY <1>0, IdleType DEF Idle, Job, Flushable
    <2> HIDE DEF j
    <2> QED BY <2>1, <2>2, OneJob
  <1> QED BY <1>1, <1>2, <1>3, <1>4, <1>5, <1>6

\* It analyses; or a request loads what it is to delete; or a session ends.
LEMMA AnalyseTypes ==
  ASSUME StoreInv, NEW p \in Proc
  PROVE  /\ Prices(p) \/ ReadDone(p) =>
              job' \in [Proc -> Job] /\ \A q \in Proc : Flushable(job'[q])
         /\ ReadRows(p) =>
              job' \in [Proc -> Job] /\ \A q \in Proc : Flushable(job'[q])
         /\ \A s \in SymId : DeleteLoad(p, s) =>
              job' \in [Proc -> Job] /\ \A q \in Proc : Flushable(job'[q])
         /\ Leave(p) \/ StoreAnalyses(p) =>
              /\ job' \in [Proc -> Job] /\ \A q \in Proc : Flushable(job'[q])
              /\ lock' \in Proc \cup {NoProc}
  <1> DEFINE Goal == job' \in [Proc -> Job] /\ \A q \in Proc : Flushable(job'[q])
  <1>0. /\ job \in [Proc -> Job] /\ job[p] \in Job /\ lock \in Proc \cup {NoProc}
        /\ DOMAIN item = ItemId /\ \A i \in Stored : item[i] \in Item
    BY DEF StoreInv, TypeOK, Job
  <1>1. ASSUME Prices(p) PROVE Goal
    <2> DEFINE j == [job[p] EXCEPT !.pc = "mark", !.left = {}]
    <2>1. job' = [job EXCEPT ![p] = j]
      BY <1>0, <1>1 DEF Prices
    <2>2. j \in Job /\ Flushable(j)
      BY <1>0 DEF Job, Flushable
    <2> HIDE DEF j
    <2> QED BY <2>1, <2>2, OneJob
  <1>2. ASSUME ReadDone(p) PROVE Goal
    <2> DEFINE j == [job[p] EXCEPT !.pc = "rows", !.done = {i \in ItemId : Analysed(i)}]
    <2>1. job' = [job EXCEPT ![p] = j]
      BY <1>0, <1>2 DEF ReadDone
    <2>2. j \in Job /\ Flushable(j)
      BY <1>0 DEF Job, Flushable
    <2> HIDE DEF j
    <2> QED BY <2>1, <2>2, OneJob
  <1>3. ASSUME ReadRows(p) PROVE Goal
    <2> DEFINE rows == {[target |-> i, key |-> item[i].key] :
                          i \in {i \in Stored \ job[p].done : item[i].sym \in symbols}}
               j == [job[p] EXCEPT !.pc = "store", !.todo = rows]
    <2>1. job' = [job EXCEPT ![p] = j]
      BY <1>0, <1>3 DEF ReadRows
    <2>2. rows \in SUBSET [target: ItemId, key: Key]
      BY <1>0 DEF Stored, Item
    <2>3. j \in Job /\ j.pc = "store"
      <3> HIDE DEF rows
      <3> QED BY <1>0, <2>2 DEF Job
    <2> HIDE DEF j
    <2> QED BY <2>1, <2>3, OneJob DEF Flushable
  <1>4. ASSUME NEW s \in SymId, DeleteLoad(p, s) PROVE Goal
    <2> DEFINE doomed == {i \in Stored : item[i].sym = s}
               j == [Idle EXCEPT !.pc = "delete", !.cur = s, !.doomed = doomed]
    <2>1. job' = [job EXCEPT ![p] = j]
      BY <1>4 DEF DeleteLoad
    <2>2. doomed \in SUBSET ItemId
      BY DEF Stored
    <2>3. j \in Job /\ Flushable(j)
      <3> HIDE DEF doomed
      <3> QED BY <2>2, IdleType DEF Idle, Job, Flushable
    <2> HIDE DEF j
    <2> QED BY <2>1, <2>3, OneJob
  <1>5. ASSUME Leave(p) PROVE Goal /\ lock' \in Proc \cup {NoProc}
    BY <1>0, <1>5, IdleType, OneJob DEF Leave
  <1>6. ASSUME StoreAnalyses(p) PROVE Goal /\ lock' \in Proc \cup {NoProc}
    <2> DEFINE targets == {t.target : t \in job[p].todo}
    <2>1. targets \in SUBSET ItemId
      BY <1>0 DEF Job
    <2>2. /\ DOMAIN job' = Proc
          /\ \A q \in Proc : \/ job'[q] \in {Idle, job[q]}
                            \/ job'[q] = [job[q] EXCEPT !.overtaken = @ \cup targets]
      BY <1>6 DEF StoreAnalyses
    <2> HIDE DEF targets
    <2>3. ASSUME NEW q \in Proc PROVE job'[q] \in Job /\ Flushable(job'[q])
      <3>1. job[q] \in Job /\ Flushable(job[q])
        BY <1>0 DEF StoreInv
      <3>2. CASE job'[q] \in {Idle, job[q]}
        BY <3>1, <3>2, IdleType
      <3>3. CASE job'[q] = [job[q] EXCEPT !.overtaken = @ \cup targets]
        BY <3>1, <3>3, <2>1 DEF Job, Flushable
      <3> QED BY <2>2, <3>2, <3>3
    <2>4. job' \in [Proc -> Job]
      <3>1. job' = [q \in Proc |-> job'[q]]
        BY <1>6 DEF StoreAnalyses
      <3> QED BY <3>1, <2>3
    <2>5. lock' \in Proc \cup {NoProc}
      BY <1>0, <1>6 DEF StoreAnalyses
    <2> QED BY <2>3, <2>4, <2>5
  <1> QED BY <1>1, <1>2, <1>3, <1>4, <1>5, <1>6

\* The commits leave tables of items and of analyses.
LEMMA TableTypes ==
  ASSUME StoreInv, NEW p \in Proc
  PROVE  /\ CommitItems(p) \/ DeleteCommit(p) =>
              DOMAIN item' = ItemId /\ \A i \in Stored' : item'[i] \in Item
         /\ StoreAnalyses(p) \/ DeleteCommit(p) => analysis' \in [ItemId -> [Key -> Nat]]
  <1>0. /\ DOMAIN item = ItemId /\ \A i \in Stored : item[i] \in Item
        /\ job[p] \in Job /\ analysis \in [ItemId -> [Key -> Nat]]
    BY DEF StoreInv, TypeOK, Job
  <1>1. ASSUME CommitItems(p)
        PROVE  DOMAIN item' = ItemId /\ \A i \in Stored' : item'[i] \in Item
    <2>1. DOMAIN item' = ItemId
      BY <1>1 DEF CommitItems
    <2>2. ASSUME NEW i \in ItemId, item'[i] # NoItem PROVE item'[i] \in Item
      <3>1. CASE \E n \in job[p].new : n.id = i
        <4> DEFINE n == CHOOSE n \in job[p].new : n.id = i
        <4>1. n \in [id: ItemId, sym: SymId, key: Key]
          BY <1>0, <3>1 DEF Job
        <4>2. item'[i] = [sym |-> n.sym, key |-> n.key]
          BY <1>1, <3>1 DEF CommitItems
        <4> HIDE DEF n
        <4> QED BY <4>1, <4>2 DEF Item
      <3>2. CASE ~\E n \in job[p].new : n.id = i
        BY <1>0, <1>1, <2>2, <3>2 DEF CommitItems, Stored
      <3> QED BY <3>1, <3>2
    <2> QED BY <2>1, <2>2 DEF Stored
  <1>2. ASSUME DeleteCommit(p)
        PROVE  DOMAIN item' = ItemId /\ \A i \in Stored' : item'[i] \in Item
    BY <1>0, <1>2 DEF DeleteCommit, Stored
  <1>3. ASSUME StoreAnalyses(p) PROVE analysis' \in [ItemId -> [Key -> Nat]]
    BY <1>0, <1>3 DEF StoreAnalyses
  <1>4. ASSUME DeleteCommit(p) PROVE analysis' \in [ItemId -> [Key -> Nat]]
    BY <1>0, <1>4 DEF DeleteCommit
  <1> QED BY <1>1, <1>2, <1>3, <1>4

\* The initial state.
LEMMA InitStoreInv == Init => StoreInv
  <1> SUFFICES ASSUME Init PROVE StoreInv
    OBVIOUS
  <1>1. job \in [Proc -> Job] /\ \A p \in Proc : Flushable(job[p])
    BY IdleType DEF Init
  <1>2. symbols \subseteq SymId /\ edits \in 0..MaxEdits /\ faults \in 0..MaxFaults
    BY BoundAssumption DEF Init, SymId
  <1>3. TypeOK
    BY <1>1, <1>2 DEF Init, TypeOK, Job, Stored
  <1> QED BY <1>1, <1>3 DEF StoreInv

\* Every step keeps the types.
LEMMA StoreInductive == StoreInv /\ [Next]_vars => StoreInv'
  <1> SUFFICES ASSUME StoreInv, [Next]_vars PROVE StoreInv'
    OBVIOUS
  <1> DEFINE JobsKept == job' \in [Proc -> Job] /\ \A q \in Proc : Flushable(job'[q])
             ItemsKept == DOMAIN item' = ItemId /\ \A i \in Stored' : item'[i] \in Item
             AnalysesKept == analysis' \in [ItemId -> [Key -> Nat]]
             Counted == edits' \in 0..MaxEdits /\ faults' \in 0..MaxFaults
             Locked == lock' \in Proc \cup {NoProc}
  <1>0. /\ symbols \subseteq SymId /\ DOMAIN item = ItemId
        /\ \A i \in Stored : item[i] \in Item
        /\ analysis \in [ItemId -> [Key -> Nat]] /\ lock \in Proc \cup {NoProc}
        /\ job \in [Proc -> Job]
        /\ edits \in 0..MaxEdits /\ faults \in 0..MaxFaults
        /\ \A q \in Proc : Flushable(job[q])
    BY DEF StoreInv, TypeOK, Job
  <1>1. /\ Fault => faults' \in 0..MaxFaults
        /\ Edit => edits' \in 0..MaxEdits
    BY BudgetType DEF StoreInv
  <1>2. ASSUME symbols' \subseteq SymId, ItemsKept, AnalysesKept, Locked, JobsKept, Counted
        PROVE  StoreInv'
    BY <1>2 DEF StoreInv, TypeOK, Job
  <1>3. item' = item => ItemsKept
    BY <1>0 DEF Stored
  <1> HIDE DEF ItemsKept
  <1>4. ASSUME NEW p \in Proc, NEW mode \in {"collection", "news", "analysis"},
               Begin(p, mode)
        PROVE  StoreInv'
    <2>1. JobsKept
      BY <1>4, CollectTypes
    <2> QED BY <2>1, <1>0, <1>2, <1>3, <1>4 DEF Begin
  <1>5. ASSUME NEW p \in Proc,
               LoadSymbols(p) \/ Flush(p)
                 \/ \E s \in SymId : FetchNothing(p, s)
                                    \/ \E ks \in SUBSET Key : FetchNew(p, s, ks)
        PROVE  StoreInv'
    <2>1. JobsKept
      BY <1>5, CollectTypes
    <2>2. UNCHANGED <<symbols, item, analysis, edits, faults>> /\ Locked
      BY <1>0, <1>5 DEF LoadSymbols, FetchNothing, FetchNew, Flush
    <2> QED BY <2>1, <2>2, <1>0, <1>2, <1>3
  <1>6. ASSUME NEW p \in Proc, CommitItems(p) PROVE StoreInv'
    <2>1. JobsKept
      BY <1>6, CollectTypes
    <2>2. ItemsKept
      BY <1>6, TableTypes DEF ItemsKept
    <2>3. UNCHANGED <<symbols, analysis, edits, faults>> /\ Locked
      BY <1>0, <1>6 DEF CommitItems
    <2> QED BY <2>1, <2>2, <2>3, <1>0, <1>2
  <1>7. ASSUME NEW p \in Proc, Prices(p) \/ ReadDone(p) \/ ReadRows(p) PROVE StoreInv'
    <2>1. JobsKept
      BY <1>7, AnalyseTypes
    <2> QED BY <2>1, <1>0, <1>2, <1>3, <1>7 DEF Prices, ReadDone, ReadRows
  <1>8. ASSUME NEW p \in Proc,
               FlushConflict(p) \/ Gone(p) \/ LockTimeout(p)
                 \/ StoreAnalyses(p) \/ DeleteCommit(p)
        PROVE  StoreInv'
    <2>1. JobsKept /\ Locked
      BY <1>8, AnalyseTypes DEF FlushConflict, Gone, LockTimeout, DeleteCommit
    <2>2. ItemsKept
      BY <1>3, <1>8, TableTypes
        DEF ItemsKept, FlushConflict, Gone, LockTimeout, StoreAnalyses
    <2>3. AnalysesKept
      BY <1>0, <1>8, TableTypes DEF FlushConflict, Gone, LockTimeout
    <2>4. symbols' \subseteq SymId /\ Counted
      BY <1>0, <1>1, <1>8
        DEF FlushConflict, Gone, LockTimeout, StoreAnalyses, DeleteCommit
    <2> QED BY <2>1, <2>2, <2>3, <2>4, <1>2
  <1>9. ASSUME NEW ps \in SUBSET Proc, Crash(ps) PROVE StoreInv'
    <2>1. JobsKept /\ Locked
      BY <1>0, <1>9, IdleType DEF Crash
    <2>2. UNCHANGED <<symbols, item, analysis, edits>> /\ Counted
      BY <1>0, <1>1, <1>9 DEF Crash
    <2> QED BY <2>1, <2>2, <1>0, <1>2, <1>3
  <1>10. CASE Register
    <2>1. UNCHANGED <<item, analysis, lock, job, faults>> /\ Counted
      BY <1>0, <1>1, <1>10 DEF Register
    <2>2. symbols' \subseteq SymId
      <3> DEFINE id == NextId(symbols)
      <3>1. id \in SymId /\ symbols' = symbols \cup {id}
        BY <1>10 DEF Register
      <3> HIDE DEF id
      <3> QED BY <3>1, <1>0
    <2> QED BY <2>1, <2>2, <1>0, <1>2, <1>3
  <1>11. ASSUME NEW p \in Proc, NEW s \in SymId, DeleteLoad(p, s) PROVE StoreInv'
    <2>1. JobsKept
      BY <1>11, AnalyseTypes
    <2>2. UNCHANGED <<symbols, item, analysis, lock, faults>> /\ Counted
      BY <1>0, <1>1, <1>11 DEF DeleteLoad
    <2> QED BY <2>1, <2>2, <1>0, <1>2, <1>3
  <1>12. CASE UNCHANGED vars
    BY <1>0, <1>2, <1>3, <1>12 DEF vars
  <1>13. ASSUME NEW p \in Proc, Advance(p) PROVE StoreInv'
    BY <1>5, <1>6, <1>7, <1>8, <1>13 DEF Advance
  <1>14. CASE Crash({Worker}) \/ Crash(Request)
    BY <1>9, <1>14 DEF Proc
  <1> QED BY <1>4, <1>8, <1>10, <1>11, <1>12, <1>13, <1>14, ModeAssumption DEF Next, Proc

\* Rows, analyses and sessions are well typed; no entry without a key is stored.
THEOREM StoreTyping == Spec => []TypeOK
  <1>1. StoreInv => TypeOK
    BY DEF StoreInv
  <1> QED BY <1>1, InitStoreInv, StoreInductive, PTL DEF Spec

-----------------------------------------------------------------------------
(* The write lock. *)

\* A session that has flushed holds the write lock, and what it is about to flush
\* next is not among the rows that it can see.
NothingLost(p) ==
  job[p].new # {} =>
    /\ lock = p
    /\ job[p].pc = "flush" => job[p].fresh \cap KnownKeys(p) = {}

\* Whoever has not flushed commits nothing.
LEMMA EmptyCommit ==
  ASSUME NEW p \in Proc, CommitItems(p), job[p].new = {}
  PROVE  StoredKeys' = StoredKeys
  BY DEF CommitItems, StoredKeys, Stored

\* A step does not disturb a session of another process.
LEMMA OthersKept ==
  ASSUME NEW p \in Proc, NEW q \in Proc \ {p}, NothingLost(p), NothingLost(q),
         StoredKeys' = StoredKeys \/ job[p].new # {} \/ MayWrite(p),
         lock' = lock \/ MayWrite(p) \/ lock = p,
         job'[q].new = job[q].new, job'[q].fresh = job[q].fresh, job'[q].pc = job[q].pc
  PROVE  NothingLost(q)'
  <1> SUFFICES ASSUME job[q].new # {} PROVE NothingLost(q)'
    BY DEF NothingLost
  <1>1. lock = q /\ lock # NoProc /\ job[p].new = {}
    BY NameAssumption DEF NothingLost, Proc
  <1>2. lock' = q /\ StoredKeys' = StoredKeys
    BY <1>1 DEF MayWrite
  <1> QED BY <1>1, <1>2 DEF NothingLost, KnownKeys

\* A step of a process loses nothing.
LEMMA StepLosesNothing ==
  ASSUME TypeOK, NEW p \in Proc, \A q \in Proc : NothingLost(q),
         \/ Advance(p) \/ LockTimeout(p)
         \/ \E mode \in {"collection", "news", "analysis"} : Begin(p, mode)
         \/ \E s \in SymId : DeleteLoad(p, s)
  PROVE  \A q \in Proc : NothingLost(q)'
  <1>0. job \in [Proc -> Job] /\ NothingLost(p)
    BY DEF TypeOK, Job
  <1>1. \A q \in Proc \ {p} : /\ job'[q].new = job[q].new
                             /\ job'[q].fresh = job[q].fresh
                             /\ job'[q].pc = job[q].pc
    <2>1. CASE StoreAnalyses(p)
      BY <2>1, <1>0 DEF StoreAnalyses, Job
    <2>2. CASE ~StoreAnalyses(p)
      BY <2>2, <1>0 DEF Advance, LoadSymbols, FetchNothing, FetchNew, Flush,
                FlushConflict, CommitItems, Prices, Gone, ReadDone, ReadRows,
                DeleteCommit, LockTimeout, Begin, DeleteLoad, Leave
    <2> QED BY <2>1, <2>2
  <1>2. StoredKeys' = StoredKeys \/ job[p].new # {} \/ MayWrite(p)
    <2>1. CASE CommitItems(p)
      BY <2>1, EmptyCommit
    <2>2. CASE DeleteCommit(p)
      BY <2>2 DEF DeleteCommit
    <2>3. CASE item' = item
      BY <2>3 DEF StoredKeys, Stored
    <2> QED BY <2>1, <2>2, <2>3
      DEF Advance, LoadSymbols, FetchNothing, FetchNew, Flush, FlushConflict, Prices,
          Gone, ReadDone, ReadRows, StoreAnalyses, LockTimeout, Begin, DeleteLoad
  <1>3. lock' = lock \/ MayWrite(p) \/ lock = p
    BY DEF Advance, LoadSymbols, FetchNothing, FetchNew, Flush, FlushConflict,
           CommitItems, Prices, Gone, ReadDone, ReadRows, StoreAnalyses,
           DeleteCommit, LockTimeout, Begin, DeleteLoad, Leave
  <1>4. NothingLost(p)'
    <2> DEFINE Kept == job'[p].new = job[p].new /\ lock' = lock
    <2>1. Kept /\ job'[p].pc # "flush" => NothingLost(p)'
      BY <1>0 DEF NothingLost
    <2>2. job'[p].new = {} => NothingLost(p)'
      BY DEF NothingLost
    <2>3. ASSUME LoadSymbols(p) PROVE Kept /\ job'[p].pc # "flush"
      BY <2>3, <1>0 DEF LoadSymbols, Job
    <2>4. ASSUME NEW s \in SymId, FetchNothing(p, s) PROVE Kept /\ job'[p].pc # "flush"
      BY <2>4, <1>0 DEF FetchNothing, Job
    <2>5. ASSUME Prices(p) \/ ReadDone(p) PROVE Kept /\ job'[p].pc # "flush"
      BY <2>5, <1>0 DEF Prices, ReadDone, Job
    <2>6. ASSUME ReadRows(p) PROVE Kept /\ job'[p].pc # "flush"
      BY <2>6, <1>0 DEF ReadRows, Job
    <2>7. ASSUME NEW s \in SymId, NEW ks \in SUBSET Key, FetchNew(p, s, ks)
          PROVE  NothingLost(p)'
      <3>1. Kept /\ job'[p].fresh = ks /\ ks \cap KnownKeys(p) = {} /\ item' = item
        BY <2>7, <1>0 DEF FetchNew, Job
      <3> QED BY <3>1, <1>0 DEF NothingLost, KnownKeys, StoredKeys, Stored
    <2>8. ASSUME Flush(p) PROVE NothingLost(p)'
      <3>1. lock' = p /\ job'[p].pc = "collect"
        BY <2>8, <1>0 DEF Flush, Job
      <3> QED BY <3>1 DEF NothingLost
    <2>9. ASSUME CommitItems(p) PROVE job'[p].new = {}
      BY <2>9, <1>0 DEF CommitItems, Idle
    <2>10. ASSUME FlushConflict(p) \/ Gone(p) \/ StoreAnalyses(p)
                    \/ DeleteCommit(p) \/ LockTimeout(p)
           PROVE  job'[p].new = {}
      BY <2>10, <1>0 DEF FlushConflict, Gone, StoreAnalyses, DeleteCommit,
                         LockTimeout, Leave, Idle
    <2>11. ASSUME NEW mode \in {"collection", "news", "analysis"}, Begin(p, mode)
           PROVE  job'[p].new = {}
      BY <2>11, <1>0 DEF Begin, Idle
    <2>12. ASSUME NEW s \in SymId, DeleteLoad(p, s) PROVE job'[p].new = {}
      BY <2>12, <1>0 DEF DeleteLoad, Idle
    <2> HIDE DEF Kept
    <2> QED BY <2>1, <2>2, <2>3, <2>4, <2>5, <2>6, <2>7, <2>8, <2>9, <2>10, <2>11,
            <2>12 DEF Advance
  <1>5. ASSUME NEW q \in Proc \ {p} PROVE NothingLost(q)'
    BY <1>1, <1>2, <1>3, OthersKept
  <1> QED BY <1>4, <1>5

\* The races for an item (services/naver_news.py and opendart.py: checks, then one
\* flush of a whole answer under a unique index): a flush is rejected only while
\* its session has flushed nothing, so that the rollback takes the items of one
\* symbol, and nothing the session had flushed for others.
THEOREM FirstFlushOnly == Spec => []OnlyFirstFlushRejected
  <1> DEFINE Kept == \A p \in Proc : NothingLost(p)
  <1>1. Init => Kept
    BY DEF Init, Idle, NothingLost
  <1>2. TypeOK /\ Kept /\ [Next]_vars => Kept'
    <2> SUFFICES ASSUME TypeOK, Kept, [Next]_vars PROVE Kept'
      OBVIOUS
    <2>1. ASSUME NEW ps \in SUBSET Proc, Crash(ps) PROVE Kept'
      <3> SUFFICES ASSUME NEW q \in Proc PROVE NothingLost(q)'
        OBVIOUS
      <3>1. CASE q \in ps
        BY <2>1, <3>1 DEF Crash, Idle, NothingLost
      <3>2. CASE q \notin ps
        BY <2>1, <3>2 DEF Crash, NothingLost, KnownKeys, StoredKeys, Stored
      <3> QED BY <3>1, <3>2
    <2>2. CASE Crash({Worker}) \/ Crash(Request)
      BY <2>1, <2>2 DEF Proc
    <2>3. CASE Register \/ UNCHANGED vars
      BY <2>3 DEF Register, vars, NothingLost, KnownKeys, StoredKeys, Stored
    <2> QED BY <2>2, <2>3, StepLosesNothing, ModeAssumption DEF Next, Proc
  <1>3. Kept => OnlyFirstFlushRejected
    BY DEF OnlyFirstFlushRejected, NothingLost
  <1> QED BY <1>1, <1>2, <1>3, StoreTyping, PTL DEF Spec

-----------------------------------------------------------------------------
(* Analyses: who may repeat one. *)

\* Whatever has an analysis while a run is reading had one when it began to, or
\* was overtaken since.
Aware(p) ==
  job[p].pc \in {"rows", "store"} =>
    \A i \in ItemId : Analysed(i) => i \in job[p].done \cup job[p].overtaken

\* What a run is to analyse is nothing it found analysed, each target once.
Chosen(p) ==
  job[p].pc = "store" =>
    /\ \A t \in job[p].todo : t.target \notin job[p].done
    /\ \A t, u \in job[p].todo : t.target = u.target => t = u

\* The induction for OnlyOverlapsRepeat.
ReaderInv == \A p \in Proc : Aware(p) /\ Chosen(p)

\* A step of process p that adds no analyses keeps it.
LEMMA QuietStep ==
  ASSUME TypeOK, ReaderInv, NEW p \in Proc,
         \A q \in Proc : q # p => job'[q] = job[q],
         \A i \in ItemId : \/ \A k \in Key : analysis'[i][k] = analysis[i][k]
                          \/ \A k \in Key : analysis'[i][k] = 0,
         Aware(p)', Chosen(p)'
  PROVE  ReaderInv'
  <1>1. \A i \in ItemId : Analysed(i)' => Analysed(i)
    BY DEF Analysed
  <1>2. ASSUME NEW q \in Proc, q # p PROVE Aware(q)' /\ Chosen(q)'
    <2>1. job'[q] = job[q] /\ Aware(q) /\ Chosen(q)
      BY <1>2 DEF ReaderInv
    <2> QED BY <1>1, <2>1 DEF Aware, Chosen
  <1> QED BY <1>2 DEF ReaderInv

\* A run stores its analyses: the others that are reading are overtaken.
LEMMA StoreAware ==
  ASSUME TypeOK, ReaderInv, NEW p \in Proc, StoreAnalyses(p)
  PROVE  ReaderInv'
  <1> DEFINE targets == {t.target : t \in job[p].todo}
  <1>0. job \in [Proc -> Job] /\ analysis \in [ItemId -> [Key -> Nat]]
    BY DEF TypeOK, Job
  <1>1. ASSUME NEW i \in ItemId, Analysed(i)' PROVE Analysed(i) \/ i \in targets
    <2>1. PICK k \in Key : analysis'[i][k] > 0
      BY <1>1 DEF Analysed
    <2>2. CASE [target |-> i, key |-> k] \in job[p].todo
      BY <2>2
    <2>3. CASE [target |-> i, key |-> k] \notin job[p].todo
      <3>1. analysis'[i][k] = analysis[i][k]
        BY <2>3, <1>0 DEF StoreAnalyses
      <3> QED BY <2>1, <3>1 DEF Analysed
    <2> QED BY <2>2, <2>3
  <1>2. \A q \in Proc :
          \/ job'[q] = Idle
          \/ job'[q] = job[q] /\ job[q].pc \notin {"rows", "store"}
          \/ job'[q] = [job[q] EXCEPT !.overtaken = @ \cup targets]
    BY DEF StoreAnalyses
  <1> HIDE DEF targets
  <1>3. ASSUME NEW q \in Proc PROVE Aware(q)' /\ Chosen(q)'
    <2>1. CASE job'[q] = Idle
      BY <2>1 DEF Idle, Aware, Chosen
    <2>2. CASE job'[q] = job[q] /\ job[q].pc \notin {"rows", "store"}
      BY <2>2 DEF Aware, Chosen
    <2>3. CASE job'[q] = [job[q] EXCEPT !.overtaken = @ \cup targets]
      <3>1. /\ job'[q].pc = job[q].pc /\ job'[q].done = job[q].done
            /\ job'[q].todo = job[q].todo
            /\ job'[q].overtaken = job[q].overtaken \cup targets
        BY <2>3, <1>0 DEF Job
      <3>2. Aware(q) /\ Chosen(q)
        BY DEF ReaderInv
      <3>3. Chosen(q)'
        BY <3>1, <3>2 DEF Chosen
      <3>4. Aware(q)'
        BY <1>1, <3>1, <3>2 DEF Aware
      <3> QED BY <3>3, <3>4
    <2> QED BY <1>2, <2>1, <2>2, <2>3
  <1> QED BY <1>3 DEF ReaderInv

\* The steps of a process.
LEMMA ReaderStep ==
  ASSUME TypeOK, ReaderInv, NEW p \in Proc,
         \/ Advance(p) \/ LockTimeout(p)
         \/ \E mode \in {"collection", "news", "analysis"} : Begin(p, mode)
         \/ \E s \in SymId : DeleteLoad(p, s)
  PROVE  ReaderInv'
  <1>0. /\ job \in [Proc -> Job] /\ job[p] \in Job
        /\ analysis \in [ItemId -> [Key -> Nat]]
        /\ Aware(p) /\ Chosen(p)
    BY DEF TypeOK, Job, ReaderInv
  <1> DEFINE Others == \A q \in Proc : q # p => job'[q] = job[q]
             Same == analysis' = analysis
  <1>1. ASSUME Others, Same, job'[p].pc \notin {"rows", "store"} PROVE ReaderInv'
    BY <1>1, QuietStep DEF Aware, Chosen
  <1>2. ASSUME LoadSymbols(p) PROVE ReaderInv'
    <2>1. Others /\ Same /\ job'[p].pc = "collect"
      BY <1>2, <1>0 DEF LoadSymbols, Job
    <2> QED BY <2>1, <1>1
  <1>3. ASSUME NEW s \in SymId, FetchNothing(p, s) PROVE ReaderInv'
    <2>1. Others /\ Same /\ job'[p].pc = "collect"
      BY <1>3, <1>0 DEF FetchNothing, Job
    <2> QED BY <2>1, <1>1
  <1>4. ASSUME NEW s \in SymId, NEW ks \in SUBSET Key, FetchNew(p, s, ks) PROVE ReaderInv'
    <2>1. Others /\ Same /\ job'[p].pc = "flush"
      BY <1>4, <1>0 DEF FetchNew, Job
    <2> QED BY <2>1, <1>1
  <1>5. ASSUME Flush(p) PROVE ReaderInv'
    <2>1. Others /\ Same /\ job'[p].pc = "collect"
      BY <1>5, <1>0 DEF Flush, Job
    <2> QED BY <2>1, <1>1
  <1>6. ASSUME CommitItems(p) PROVE ReaderInv'
    <2>1. Others /\ Same /\ job'[p].pc \in {"idle", "prices"}
      BY <1>6, <1>0 DEF CommitItems, Idle
    <2> QED BY <2>1, <1>1
  <1>7. ASSUME Prices(p) PROVE ReaderInv'
    <2>1. Others /\ Same /\ job'[p].pc = "mark"
      BY <1>7, <1>0 DEF Prices, Job
    <2> QED BY <2>1, <1>1
  <1>8. ASSUME ReadDone(p) PROVE ReaderInv'
    <2>1. /\ Others /\ Same /\ job'[p].pc = "rows"
          /\ job'[p].done = {i \in ItemId : Analysed(i)}
      BY <1>8, <1>0 DEF ReadDone, Job
    <2>2. Aware(p)' /\ Chosen(p)'
      BY <2>1 DEF Aware, Chosen, Analysed
    <2> QED BY <2>1, <2>2, QuietStep
  <1>9. ASSUME ReadRows(p) PROVE ReaderInv'
    <2> DEFINE rows == {[target |-> i, key |-> item[i].key] :
                          i \in {i \in Stored \ job[p].done : item[i].sym \in symbols}}
    <2>1. /\ Others /\ Same /\ job'[p].pc = "store" /\ job[p].pc = "rows"
          /\ job'[p].todo = rows /\ job'[p].done = job[p].done
          /\ job'[p].overtaken = job[p].overtaken
      BY <1>9, <1>0 DEF ReadRows, Job
    <2>2. /\ \A t \in rows : t.target \notin job[p].done
          /\ \A t, u \in rows : t.target = u.target => t = u
      OBVIOUS
    <2> HIDE DEF rows
    <2>3. Chosen(p)'
      BY <2>1, <2>2 DEF Chosen
    <2>4. Aware(p)'
      BY <2>1, <1>0 DEF Aware, Analysed
    <2> QED BY <2>1, <2>3, <2>4, QuietStep
  <1>10. ASSUME Leave(p), \A i \in ItemId : \/ \A k \in Key : analysis'[i][k] = analysis[i][k]
                                           \/ \A k \in Key : analysis'[i][k] = 0
         PROVE  ReaderInv'
    <2>1. Others /\ job'[p] = Idle /\ Idle.pc = "idle"
      BY <1>0, <1>10 DEF Leave, Idle
    <2> QED BY <2>1, <1>10, QuietStep DEF Aware, Chosen
  <1>11. ASSUME FlushConflict(p) \/ Gone(p) \/ LockTimeout(p) PROVE ReaderInv'
    BY <1>10, <1>11 DEF FlushConflict, Gone, LockTimeout
  <1>12. ASSUME DeleteCommit(p) PROVE ReaderInv'
    BY <1>0, <1>10, <1>12 DEF DeleteCommit
  <1>13. ASSUME NEW mode \in {"collection", "news", "analysis"}, Begin(p, mode)
         PROVE  ReaderInv'
    <2>1. Others /\ Same /\ job'[p].pc \in {"mark", "symbols"}
      BY <1>13, <1>0 DEF Begin, Idle
    <2> QED BY <2>1, <1>1
  <1>14. ASSUME NEW s \in SymId, DeleteLoad(p, s) PROVE ReaderInv'
    <2>1. Others /\ Same /\ job'[p].pc = "delete"
      BY <1>14, <1>0 DEF DeleteLoad, Idle
    <2> QED BY <2>1, <1>1
  <1> QED BY <1>2, <1>3, <1>4, <1>5, <1>6, <1>7, <1>8, <1>9, <1>11, <1>12, <1>13,
            <1>14, StoreAware DEF Advance

\* Only a commit of analyses adds any.
LEMMA OnlyStored ==
  ASSUME TypeOK, [Next]_vars, NEW i \in ItemId, NEW k \in Key,
         analysis'[i][k] > analysis[i][k]
  PROVE  \E p \in Proc : StoreAnalyses(p)
  <1>1. \/ analysis' = analysis
        \/ \E p \in Proc : StoreAnalyses(p) \/ DeleteCommit(p)
    <2>1. ASSUME NEW p \in Proc, Advance(p), ~StoreAnalyses(p), ~DeleteCommit(p)
          PROVE  analysis' = analysis
      BY <2>1 DEF Advance, LoadSymbols, FetchNothing, FetchNew, Flush, FlushConflict,
                  CommitItems, Prices, Gone, ReadDone, ReadRows
    <2>2. CASE \E p \in Proc : LockTimeout(p)
      BY <2>2 DEF LockTimeout
    <2>3. CASE Begin(Worker, "collection") \/ \E p \in Request, mode \in Modes : Begin(p, mode)
      BY <2>3 DEF Begin
    <2>4. CASE Register \/ \E p \in Request, s \in SymId : DeleteLoad(p, s)
      BY <2>4 DEF Register, DeleteLoad
    <2>5. CASE Crash({Worker}) \/ Crash(Request) \/ UNCHANGED vars
      BY <2>5 DEF Crash, vars
    <2> QED BY <2>1, <2>2, <2>3, <2>4, <2>5 DEF Next
  <1>2. analysis[i][k] \in Nat
    BY DEF TypeOK
  <1>3. ASSUME NEW p \in Proc, DeleteCommit(p) PROVE FALSE
    <2>1. analysis'[i][k] = 0 \/ analysis'[i][k] = analysis[i][k]
      BY <1>3 DEF DeleteCommit, TypeOK
    <2> QED BY <1>2, <2>1
  <1> QED BY <1>1, <1>2, <1>3

\* Re-running the analyzer repeats no analysis (services/analyzer.py: the targets
\* that have one are read before the rows, and no index notices a second), except
\* those committed by another run while this one was reading.
THEOREM RepeatsNeedOverlap == Spec => OnlyOverlapsRepeat
  <1>1. Init => ReaderInv
    BY DEF Init, Idle, ReaderInv, Aware, Chosen
  <1>2. TypeOK /\ ReaderInv /\ [Next]_vars => ReaderInv'
    <2> SUFFICES ASSUME TypeOK, ReaderInv, [Next]_vars PROVE ReaderInv'
      OBVIOUS
    <2>1. ASSUME NEW ps \in SUBSET Proc, Crash(ps) PROVE ReaderInv'
      <3>1. /\ \A q \in Proc : job'[q] = job[q] \/ job'[q] = Idle
            /\ analysis' = analysis /\ Idle.pc = "idle"
        BY <2>1 DEF Crash, Idle
      <3> QED BY <3>1 DEF ReaderInv, Aware, Chosen, Analysed
    <2>2. CASE Crash({Worker}) \/ Crash(Request)
      BY <2>1, <2>2 DEF Proc
    <2>3. CASE Register \/ UNCHANGED vars
      BY <2>3 DEF Register, vars, ReaderInv, Aware, Chosen, Analysed
    <2> QED BY <2>2, <2>3, ReaderStep, ModeAssumption DEF Next, Proc
  <1>3. TypeOK /\ ReaderInv /\ [Next]_vars => RepeatsOverlap
    <2> SUFFICES ASSUME TypeOK, ReaderInv, [Next]_vars,
                        NEW i \in ItemId, NEW k \in Key, NEW l \in Key,
                        analysis'[i][k] > analysis[i][k]
                 PROVE  /\ analysis'[i][k] = analysis[i][k] + 1
                        /\ analysis'[i][l] > analysis[i][l] => l = k
                        /\ Analysed(i) =>
                             \E p \in Proc : /\ job[p].pc = "store" /\ job'[p].pc = "idle"
                                            /\ i \in job[p].overtaken
      BY DEF RepeatsOverlap
    <2>1. PICK p \in Proc : StoreAnalyses(p)
      BY OnlyStored
    <2>2. /\ job[p].pc = "store" /\ Aware(p) /\ Chosen(p)
          /\ analysis[i][k] \in Nat /\ analysis[i][l] \in Nat
      BY <2>1 DEF StoreAnalyses, ReaderInv, TypeOK
    <2>3. job'[p].pc = "idle"
      BY <2>1 DEF StoreAnalyses, Idle
    <2> DEFINE add(m) == IF [target |-> i, key |-> m] \in job[p].todo THEN 1 ELSE 0
    <2>4. /\ analysis'[i][k] = analysis[i][k] + add(k)
          /\ analysis'[i][l] = analysis[i][l] + add(l)
      BY <2>1 DEF StoreAnalyses
    <2>5. /\ [target |-> i, key |-> k] \in job[p].todo
          /\ analysis'[i][k] = analysis[i][k] + 1
      BY <2>2, <2>4
    <2>6. ASSUME analysis'[i][l] > analysis[i][l] PROVE l = k
      <3>1. [target |-> i, key |-> l] \in job[p].todo
        BY <2>2, <2>4, <2>6
      <3>2. [target |-> i, key |-> l] = [target |-> i, key |-> k]
        BY <3>1, <2>2, <2>5 DEF Chosen
      <3> QED BY <3>2
    <2>7. ASSUME Analysed(i) PROVE i \in job[p].overtaken
      <3>1. i \notin job[p].done
        BY <2>2, <2>5 DEF Chosen
      <3> QED BY <3>1, <2>2, <2>7 DEF Aware
    <2> QED BY <2>3, <2>2, <2>5, <2>6, <2>7
  <1> QED BY <1>1, <1>2, <1>3, StoreTyping, PTL DEF Spec, OnlyOverlapsRepeat
=============================================================================
