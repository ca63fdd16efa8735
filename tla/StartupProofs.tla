---------------------------- MODULE StartupProofs ----------------------------
(***************************************************************************)
(* Theorems about Startup, for every number of processes that boot over    *)
(* one database, all databases of earlier builds and any number of kills.  *)
(***************************************************************************)
EXTENDS Startup, TLAPS

JobState == [at: DOMAIN Steps, looked: BOOLEAN,
             todo: SUBSET (Table \cup Addition \cup Ix \cup User), busy: BOOLEAN]

Index == "uq_collection_runs_one_running"

\* What a process may rely on at each step of init_db, whatever the others do:
\* what its earlier steps found or made is there; what its inspection missed
\* and is still missing is on its list; a collection that runs is a serving
\* process's, and its row is running.
JobOK(p) ==
  LET j == job[p] IN
  /\ j.at >= 2 => Table \subseteq schema
  /\ j.at >= 3 => "owner_user_id" \in schema
  /\ j.at >= 5 => Index \in schema
  /\ j.at >= 6 => NewsColumn \subseteq schema
  /\ j.looked => j.at <= 5 /\ (j.at # 3 => Missing(Steps[j.at]) \subseteq j.todo)
  /\ j.at = 4 => j.todo \subseteq {Index}
  /\ j.busy => j.at = 6 /\ p \in running

\* The inductive invariant.
BootInv == TypeOK /\ \A p \in Proc : JobOK(p)

-----------------------------------------------------------------------------

\* The names of the steps, in order.
LEMMA StepNames ==
  /\ DOMAIN Steps = 1..6
  /\ Steps[1] = "tables" /\ Steps[2] = "owner" /\ Steps[3] = "claim"
  /\ Steps[4] = "index" /\ Steps[5] = "news" /\ Steps[6] = "serving"
  BY DEF Steps

LEMMA JobTyping ==
  ASSUME BootInv, NEW p \in Proc
  PROVE  job[p] \in JobState /\ job \in [Proc -> JobState] /\ JobOK(p)
  BY DEF BootInv, TypeOK, JobState

\* A process that starts again relies on nothing.
LEMMA BootingOK ==
  Booting \in JobState /\ Booting.at = 1 /\ ~Booting.looked /\ ~Booting.busy
  BY StepNames DEF Booting, JobState

\* The schema only grows and the rows of live runs stay: what the processes
\* that take no step rely on, they may rely on still.
LEMMA OthersKeep ==
  ASSUME BootInv, NEW q \in Proc, job'[q] = job[q],
         schema \subseteq schema', job[q].busy => q \in running'
  PROVE  JobOK(q)'
  <1>1. job[q] \in JobState /\ JobOK(q)
    BY JobTyping
  <1>2. job[q].looked => job[q].at \in 1..5
    BY <1>1, StepNames DEF JobOK, JobState
  <1>3. job[q].looked /\ job[q].at # 3 => Missing(Steps[job[q].at])' \subseteq job[q].todo
    BY <1>1, <1>2, StepNames DEF JobOK, Missing
  <1> QED BY <1>1, <1>3 DEF JobOK

\* One process changes its state to j, the schema grows, live runs are left alone.
LEMMA OneJob ==
  ASSUME BootInv, NEW p \in Proc, NEW j \in JobState, job' = [job EXCEPT ![p] = j],
         schema \subseteq schema', schema' \subseteq Table \cup Addition \cup Ix,
         \A q \in Proc \ {p} : job[q].busy => q \in running',
         running' \subseteq Proc \cup Old, users' \subseteq User,
         owner' \in [Symbol -> User \cup {NoRow, Nobody}], faults' \in 0..MaxFaults,
         JobOK(p)'
  PROVE  BootInv'
  <1>1. job \in [Proc -> JobState]
    BY JobTyping
  <1>2. \A q \in Proc \ {p} : JobOK(q)'
    BY <1>1, OthersKeep
  <1>3. TypeOK'
    BY <1>1 DEF TypeOK, JobState
  <1> QED BY <1>2, <1>3 DEF BootInv

-----------------------------------------------------------------------------
(* One lemma per kind of step. *)

\* What a step of a booting process that writes no rows leaves in order.
LEMMA Untouched ==
  ASSUME BootInv, UNCHANGED <<schema, users, owner, running>>
  PROVE  /\ schema \subseteq schema' /\ schema' \subseteq Table \cup Addition \cup Ix
         /\ \A q \in Proc : job[q].busy => q \in running'
         /\ running' \subseteq Proc \cup Old /\ users' \subseteq User
         /\ owner' \in [Symbol -> User \cup {NoRow, Nobody}]
         /\ faults' = faults => faults' \in 0..MaxFaults
  BY DEF BootInv, TypeOK, JobOK

LEMMA LookKeeps ==
  ASSUME BootInv, NEW p \in Proc, Look(p)
  PROVE  BootInv'
  <1> DEFINE j == job[p]
             m == Missing(Steps[j.at])
  <1>1. j \in JobState /\ job \in [Proc -> JobState] /\ JobOK(p) /\ j.at \in 1..5
    BY JobTyping, StepNames DEF Look, Serving, StepOf, JobState
  <1>2. m \subseteq Table \cup Addition \cup Ix \cup User
    BY <1>1, StepNames DEF Missing, BootInv, TypeOK, Addition
  <1>3. PICK k : k = [j EXCEPT !.looked = TRUE, !.todo = m]
    OBVIOUS
  <1>4. /\ k \in JobState /\ k.at = j.at /\ k.looked /\ k.todo = m /\ k.busy = j.busy
        /\ job' = [job EXCEPT ![p] = k] /\ job'[p] = k
    BY <1>1, <1>2, <1>3 DEF Look, JobState, StepOf
  <1>5. UNCHANGED <<schema, users, owner, running, faults>>
    BY DEF Look
  <1>6. k.at # 3 => Missing(Steps[k.at])' \subseteq k.todo
    BY <1>4, <1>5 DEF Missing
  <1>7. JobOK(p)'
    BY <1>1, <1>4, <1>5, <1>6, StepNames DEF JobOK, Missing, Index
  <1> QED BY <1>1, <1>4, <1>5, <1>7, OneJob, Untouched

LEMMA ProceedKeeps ==
  ASSUME BootInv, NEW p \in Proc, Proceed(p)
  PROVE  BootInv'
  <1> DEFINE j == job[p]
  <1>1. /\ j \in JobState /\ job \in [Proc -> JobState] /\ JobOK(p)
        /\ j.looked /\ j.todo = {}
    BY JobTyping DEF Proceed
  <1>2. j.at \in 1..5 /\ (j.at # 3 => Missing(Steps[j.at]) = {})
    BY <1>1, StepNames DEF JobOK, JobState
  <1>3. PICK k : k = [Booting EXCEPT !.at = j.at + 1]
    OBVIOUS
  <1>4. /\ k \in JobState /\ k.at = j.at + 1 /\ ~k.looked /\ ~k.busy
        /\ job' = [job EXCEPT ![p] = k] /\ job'[p] = k
    <2>1. k = [at |-> j.at + 1, looked |-> FALSE, todo |-> {}, busy |-> FALSE]
      BY <1>3 DEF Booting
    <2>2. j.at + 1 \in DOMAIN Steps
      BY <1>2, StepNames
    <2>3. job' = [job EXCEPT ![p] = k]
      BY <1>3 DEF Proceed
    <2> QED BY <1>1, <2>1, <2>2, <2>3 DEF JobState
  <1>5. UNCHANGED <<schema, users, owner, running, faults>>
    BY DEF Proceed
  <1>6. JobOK(p)'
    <2>1. job'[p].at = j.at + 1 /\ ~job'[p].looked /\ ~job'[p].busy /\ job'[p].todo = {}
      BY <1>3, <1>4 DEF Booting
    <2>2. j.at = 1 => Table \subseteq schema
      BY <1>2, StepNames DEF Missing
    <2>3. j.at = 2 => "owner_user_id" \in schema
      BY <1>2, StepNames DEF Missing
    <2>4. j.at = 4 => Index \in schema
      BY <1>2, StepNames DEF Missing, Index
    <2>5. j.at = 5 => NewsColumn \subseteq schema
      BY <1>2, StepNames DEF Missing
    <2> QED BY <1>1, <1>2, <1>5, <2>1, <2>2, <2>3, <2>4, <2>5 DEF JobOK
  <1> QED BY <1>4, <1>5, <1>6, OneJob, Untouched

\* A process starts again: after a kill, or beaten by the other one.
LEMMA RestartKeeps ==
  ASSUME BootInv, NEW p \in Proc, Duplicate(p) \/ Kill(p)
  PROVE  BootInv'
  <1>1. job' = [job EXCEPT ![p] = Booting] /\ job'[p] = Booting
        /\ UNCHANGED <<schema, users, owner, running>> /\ faults' \in 0..MaxFaults
    BY JobTyping, StartupBounds DEF Duplicate, Kill, BootInv, TypeOK
  <1>2. JobOK(p)'
    BY <1>1, BootingOK DEF JobOK
  <1> QED BY <1>1, <1>2, BootingOK, OneJob, Untouched

\* A statement adds new to the schema and crosses x off the list of p.
LEMMA StatementKeeps ==
  ASSUME BootInv, NEW p \in Proc, NEW x, NEW new, NEW more,
         x \in new, new \subseteq Table \cup Addition \cup Ix, more \subseteq Addition \cup Ix,
         schema' = schema \cup new, more # {} => job[p].at = 1,
         job' = [job EXCEPT ![p].todo = (@ \ {x}) \cup more],
         UNCHANGED <<users, owner, faults>>,
         running' = running \/ (running' = {} /\ \A q \in Proc : ~job[q].busy)
  PROVE  BootInv'
  <1> DEFINE j == job[p]
  <1>1. j \in JobState /\ job \in [Proc -> JobState] /\ JobOK(p)
    BY JobTyping
  <1>2. PICK k : k = [j EXCEPT !.todo = (@ \ {x}) \cup more]
    OBVIOUS
  <1>3. /\ k \in JobState /\ k.at = j.at /\ k.looked = j.looked /\ k.busy = j.busy
        /\ k.todo = (j.todo \ {x}) \cup more
        /\ job' = [job EXCEPT ![p] = k] /\ job'[p] = k
    BY <1>1, <1>2 DEF JobState
  <1>4. k.looked /\ k.at # 3 => Missing(Steps[k.at])' \subseteq k.todo
    <2> SUFFICES ASSUME k.looked, k.at # 3 PROVE Missing(Steps[k.at])' \subseteq k.todo
      OBVIOUS
    <2>1. k.at \in {1, 2, 4, 5} /\ Missing(Steps[k.at]) \subseteq j.todo
      BY <1>1, <1>3, StepNames DEF JobOK, JobState
    <2>2. Missing(Steps[k.at])' \subseteq Missing(Steps[k.at]) \ {x}
      BY <2>1, StepNames DEF Missing
    <2> QED BY <1>3, <2>1, <2>2
  <1>5. JobOK(p)'
    BY <1>1, <1>3, <1>4 DEF JobOK
  <1>6. /\ schema \subseteq schema' /\ schema' \subseteq Table \cup Addition \cup Ix
        /\ \A q \in Proc : job[q].busy => q \in running'
        /\ running' \subseteq Proc \cup Old /\ users' \subseteq User
        /\ owner' \in [Symbol -> User \cup {NoRow, Nobody}] /\ faults' \in 0..MaxFaults
    BY JobTyping DEF BootInv, TypeOK, JobOK
  <1> QED BY <1>3, <1>5, <1>6, OneJob

LEMMA DDLKeeps ==
  ASSUME BootInv, NEW p \in Proc, NEW x \in Table \cup Addition \cup Ix,
         CreateTable(p, x) \/ AddColumn(p, x) \/ CreateIndex(p, x) \/ IndexNewTable(p, x)
  PROVE  BootInv'
  <1>1. CASE CreateTable(p, x)
    <2>1. x \in Created(x) /\ Created(x) \subseteq Table \cup Addition \cup Ix
      BY <1>1, StartupTables DEF Created, Addition, CreateTable
    <2>2. PICK more : more = IndexesOf(x)
      OBVIOUS
    <2>3. more \subseteq Addition \cup Ix /\ job[p].at = 1
      BY <1>1, <2>2, JobTyping, StepNames
         DEF Addition, IndexesOf, CreateTable, StepOf, JobState
    <2>4. job' = [job EXCEPT ![p].todo = (@ \ {x}) \cup more]
      BY <1>1, <2>2 DEF CreateTable
    <2>5. schema' = schema \cup Created(x) /\ UNCHANGED <<users, owner, running, faults>>
      BY <1>1 DEF CreateTable
    <2> QED BY <2>1, <2>3, <2>4, <2>5, StatementKeeps
  <1>2. CASE AddColumn(p, x) \/ CreateIndex(p, x) \/ IndexNewTable(p, x)
    <2> DEFINE none == {}
               new == {x}
    <2>1. /\ schema' = schema \cup new
          /\ job' = [job EXCEPT ![p].todo = (@ \ {x}) \cup none]
          /\ UNCHANGED <<users, owner, faults>>
      <3>1. \A S : S \cup {} = S
        OBVIOUS
      <3> QED BY <1>2, <3>1 DEF AddColumn, CreateIndex, IndexNewTable
    <2>2. running' = running \/ (running' = {} /\ \A q \in Proc : ~job[q].busy)
      <3>1. CASE AddColumn(p, x) \/ IndexNewTable(p, x)
        BY <3>1 DEF AddColumn, IndexNewTable
      <3>2. CASE CreateIndex(p, x)
        <4>1. Index \notin schema
          <5>1. job[p].at = 4
            BY <3>2, JobTyping, StepNames DEF CreateIndex, StepOf, JobState
          <5> QED BY <3>2, <5>1, JobTyping DEF CreateIndex, JobOK
        <4> QED BY <3>2, <4>1, JobTyping DEF CreateIndex, JobOK
      <3> QED BY <1>2, <3>1, <3>2
    <2>3. x \in new /\ new \subseteq Table \cup Addition \cup Ix /\ none \subseteq Addition \cup Ix
          /\ ~(none # {})
      OBVIOUS
    <2> HIDE DEF none, new
    <2> QED BY <2>1, <2>2, <2>3, StatementKeeps
  <1> QED BY <1>1, <1>2

LEMMA ClaimKeeps ==
  ASSUME BootInv, NEW p \in Proc, NEW u \in User, Claim(p, u)
  PROVE  BootInv'
  <1> DEFINE j == job[p]
  <1>1. j \in JobState /\ job \in [Proc -> JobState] /\ JobOK(p) /\ j.at = 3
    BY JobTyping, StepNames DEF Claim, StepOf, JobState
  <1>2. PICK k : k = [j EXCEPT !.todo = @ \ {u}]
    OBVIOUS
  <1>3. /\ k \in JobState /\ k.at = 3 /\ k.looked = j.looked /\ k.busy = j.busy
        /\ job' = [job EXCEPT ![p] = k] /\ job'[p] = k
    BY <1>1, <1>2 DEF Claim, JobState
  <1>4. UNCHANGED <<schema, users, running, faults>>
    BY DEF Claim
  <1>5. owner' \in [Symbol -> User \cup {NoRow, Nobody}]
    BY DEF Claim, BootInv, TypeOK
  <1>6. JobOK(p)'
    BY <1>1, <1>3, <1>4 DEF JobOK
  <1>7. /\ schema \subseteq schema' /\ schema' \subseteq Table \cup Addition \cup Ix
        /\ \A q \in Proc : job[q].busy => q \in running'
        /\ running' \subseteq Proc \cup Old /\ users' \subseteq User /\ faults' \in 0..MaxFaults
    BY <1>4, JobTyping DEF BootInv, TypeOK, JobOK
  <1> QED BY <1>3, <1>5, <1>6, <1>7, OneJob

\* Users sign up and symbols are registered.
LEMMA RowsKeep ==
  ASSUME BootInv, NEW p \in Proc, NEW u \in User,
         Login(p, u) \/ \E s \in Symbol : Register(p, s, u)
  PROVE  BootInv'
  <1>1. UNCHANGED <<schema, running, job, faults>>
    BY DEF Login, Register
  <1>2. users' \subseteq User /\ owner' \in [Symbol -> User \cup {NoRow, Nobody}]
    BY DEF Login, Register, BootInv, TypeOK
  <1>3. \A q \in Proc : JobOK(q)'
    BY <1>1, OthersKeep, JobTyping DEF JobOK
  <1> QED BY <1>1, <1>2, <1>3 DEF BootInv, TypeOK

\* Collections start and finish.
LEMMA RunsKeep ==
  ASSUME BootInv, NEW p \in Proc, StartRun(p) \/ FinishRun(p)
  PROVE  BootInv'
  <1> DEFINE j == job[p]
  <1>1. j \in JobState /\ job \in [Proc -> JobState] /\ JobOK(p) /\ j.at \in 1..6
    BY JobTyping, StepNames DEF JobState
  <1>2. PICK k : k = [j EXCEPT !.busy = ~j.busy]
    OBVIOUS
  <1>3. /\ k \in JobState /\ k.at = j.at /\ k.looked = j.looked /\ k.todo = j.todo
        /\ k.busy = ~j.busy
    BY <1>1, <1>2 DEF JobState
  <1>4. UNCHANGED <<schema, users, owner, faults>>
    BY DEF StartRun, FinishRun
  <1>5. /\ schema \subseteq schema' /\ schema' \subseteq Table \cup Addition \cup Ix
        /\ users' \subseteq User /\ faults' \in 0..MaxFaults
        /\ owner' \in [Symbol -> User \cup {NoRow, Nobody}]
    BY <1>4 DEF BootInv, TypeOK
  <1>6. Missing(Steps[k.at])' = Missing(Steps[k.at])
    BY <1>4 DEF Missing
  <1>7. CASE StartRun(p)
    <2>1. j.at = 6 /\ ~j.busy /\ running' = {p}
      BY <1>1, <1>7, StepNames DEF StartRun, Serving, StepOf
    <2>2. job' = [job EXCEPT ![p] = k] /\ job'[p] = k
      BY <1>1, <1>2, <1>7, <2>1 DEF StartRun
    <2>3. JobOK(p)'
      BY <1>1, <1>3, <1>4, <1>6, <2>1, <2>2 DEF JobOK
    <2>4. \A q \in Proc \ {p} : job[q].busy => q \in running'
      BY <1>7 DEF StartRun
    <2> QED BY <1>3, <1>5, <2>1, <2>2, <2>3, <2>4, OneJob
  <1>8. CASE FinishRun(p)
    <2>1. j.busy /\ running' = running \ {p}
      BY <1>8 DEF FinishRun
    <2>2. job' = [job EXCEPT ![p] = k] /\ job'[p] = k
      BY <1>1, <1>2, <1>8, <2>1 DEF FinishRun
    <2>3. JobOK(p)'
      BY <1>1, <1>3, <1>4, <1>6, <2>1, <2>2 DEF JobOK
    <2>4. \A q \in Proc \ {p} : job[q].busy => q \in running'
      BY <2>1, JobTyping DEF JobOK
    <2>5. running' \subseteq Proc \cup Old
      BY <2>1 DEF BootInv, TypeOK
    <2> QED BY <1>3, <1>5, <2>2, <2>3, <2>4, <2>5, OneJob
  <1> QED BY <1>7, <1>8

-----------------------------------------------------------------------------

LEMMA BootInit == Init => BootInv
  <1> SUFFICES ASSUME Init PROVE BootInv
    OBVIOUS
  <1>1. schema \subseteq Table \cup Addition \cup Ix
    BY DEF Init
  <1>2. users \subseteq User /\ running \subseteq Proc \cup Old
    BY DEF Init
  <1>3. owner \in [Symbol -> User \cup {NoRow, Nobody}]
    BY <1>2 DEF Init
  <1>4. job \in [Proc -> JobState] /\ faults \in 0..MaxFaults
    BY BootingOK, StartupBounds DEF Init
  <1>5. \A p \in Proc : JobOK(p)
    BY BootingOK DEF Init, JobOK
  <1> QED BY <1>1, <1>2, <1>3, <1>4, <1>5 DEF BootInv, TypeOK, JobState

LEMMA BootNext == BootInv /\ [Next]_vars => BootInv'
  <1> SUFFICES ASSUME BootInv, [Next]_vars PROVE BootInv'
    OBVIOUS
  <1>1. CASE \E p \in Proc : Boot(p)
    BY <1>1, LookKeeps, ProceedKeeps, RestartKeeps, DDLKeeps, ClaimKeeps DEF Boot
  <1>2. CASE \E p \in Proc : Kill(p)
    BY <1>2, RestartKeeps
  <1>3. CASE \E p \in Proc, u \in User : Login(p, u) \/ \E s \in Symbol : Register(p, s, u)
    BY <1>3, RowsKeep
  <1>4. CASE \E p \in Proc : StartRun(p) \/ FinishRun(p)
    BY <1>4, RunsKeep
  <1>5. CASE UNCHANGED vars
    <2>1. \A q \in Proc : JobOK(q)'
      BY <1>5, OthersKeep, JobTyping DEF vars, JobOK
    <2> QED BY <1>5, <2>1 DEF vars, BootInv, TypeOK
  <1> QED BY <1>1, <1>2, <1>3, <1>4, <1>5 DEF Next

LEMMA BootAlways == Spec => []BootInv
  BY BootInit, BootNext, PTL DEF Spec

\* Whoever serves finds every table, every column and the one-running index,
\* whatever build the file was of and wherever the processes were killed or
\* beaten while migrating it; all is well typed.  Plain indexes may be missing.
THEOREM ServersFindTheTables == Spec => []SchemaInv
  <1>1. BootInv => SchemaInv
    <2> SUFFICES ASSUME BootInv, NEW p \in Proc, Serving(p)
                 PROVE  Table \cup Addition \subseteq schema
      BY DEF BootInv, SchemaInv, ServesFullTables
    <2>1. job[p].at = 6
      BY JobTyping, StepNames DEF Serving, StepOf, JobState
    <2> QED BY <2>1, JobTyping DEF JobOK, Addition, Index
  <1> QED BY <1>1, BootAlways, PTL

\* A late migration never fails the run of a process that already collects.
THEOREM MigrationsSpareLiveRuns == Spec => []LiveRunSpared
  <1>1. BootInv => LiveRunSpared
    BY DEF BootInv, JobOK, LiveRunSpared
  <1> QED BY <1>1, BootAlways, PTL
=============================================================================
