--------------------------- MODULE CollectionRuns ---------------------------
(***************************************************************************)
(* The life of collection_runs rows: services/collections.py, the          *)
(* standalone collectors that share the table, routers/collections.py and  *)
(* the tick of workers/scheduler.py.                                       *)
(*                                                                         *)
(* A process is the scheduler worker or one API request thread.  Steps     *)
(* are split where another process can interleave: every SELECT whose      *)
(* result is used after it and every COMMIT is a step of its own.  Time    *)
(* is the age of each running row, saturating just above StaleAfter, the   *)
(* only threshold the code compares it with.                               *)
(***************************************************************************)
EXTENDS Integers, FiniteSets

CONSTANTS
  Worker,      \* the scheduler process
  Request,     \* API request threads, all in the one API server process
  Unified,     \* ids of rows of run_type "collection" (see Unused)
  Standalone,  \* ids of rows of the other run types
  NoRun,       \* not a run id
  NoProc,      \* not a process
  Plans,       \* what options may ask for: sets of steps
  WorkerPlan,  \* the default CollectionOptions, which the worker uses
  StaleAfter,  \* _STALE_RUN_AFTER_SECONDS, in clock ticks
  RunLimit,    \* longest a live collection takes; above StaleAfter: no limit
  MaxFaults    \* bound on crashes and failed database writes

Step == {"corp", "disclosures", "news", "summary", "prices", "analyze"}

ASSUME ProcAssumption == Worker \notin Request /\ NoProc \notin Request \cup {Worker}
ASSUME RunAssumption ==
  Unified \cap Standalone = {} /\ NoRun \notin Unified \cup Standalone
ASSUME PlanAssumption ==
  /\ Plans \subseteq SUBSET Step
  /\ WorkerPlan \in Plans
  /\ \A plan \in Plans : "summary" \in plan => "news" \in plan
ASSUME TimeAssumption ==
  StaleAfter \in Nat /\ RunLimit \in Nat \ {0} /\ MaxFaults \in Nat

VARIABLES
  row,      \* the collection_runs table
  pc,       \* where each process is in run_collection
  run,      \* the run each process executes
  stale,    \* rows loaded by _reclaim_stale_runs, to be failed
  todo,     \* steps the process has still to execute
  pending,  \* steps whose rows are flushed but not committed
  bad,      \* step_failed
  faults    \* crashes and failed writes so far

vars == <<row, pc, run, stale, todo, pending, bad, faults>>

Proc == Request \cup {Worker}
RunId == Unified \cup Standalone

\* The order in which run_collection goes through its steps.
Rank == [s \in Step |-> CASE s = "corp" -> 1
                          [] s = "disclosures" -> 2
                          [] s = "news" -> 3
                          [] s = "summary" -> 4
                          [] s = "prices" -> 5
                          [] s = "analyze" -> 6]

\* Steps whose service raises an error run_collection expects and survives.
Guarded == {"corp", "disclosures", "news"}

Status == {"none", "running", "success", "failed"}

Row == [status: Status, age: 0..(StaleAfter + 1),
        plan: SUBSET Step, stored: SUBSET Step]

Absent == [status |-> "none", age |-> 0, plan |-> {}, stored |-> {}]

Started(plan) == [status |-> "running", age |-> 0, plan |-> plan, stored |-> {}]

-----------------------------------------------------------------------------

Collecting(p) == pc[p] \in {"work", "commit", "record"}

Running(r) == row[r].status = "running"

\* Mutants: the index is missing; it is not partial on the run type.
SlotTaken_NoIndex == FALSE
SlotTaken_AnyType == \E r \in RunId : Running(r)

\* The partial unique index uq_collection_runs_one_running rejects an insert.
SlotTaken == \E r \in Unified : Running(r)

\* The ids are a window on the table: an id stands for a fresh row once its run
\* has ended and no session refers to it.  Ended rows are read by nobody.
Unused(r) ==
  /\ ~Running(r)
  /\ \A p \in Proc : run[p] # r /\ r \notin stale[p]

\* Mutants of StaleRows: the cutoff comparison off by one, the started_at
\* filter dropped, the run_type filter dropped, no reclaim at all.
StaleRows_Inclusive == {r \in Unified : Running(r) /\ row[r].age >= StaleAfter}
StaleRows_AnyAge == {r \in Unified : Running(r)}
StaleRows_AnyType == {r \in RunId : Running(r) /\ row[r].age > StaleAfter}
StaleRows_Never == {}

StaleRows == {r \in Unified : Running(r) /\ row[r].age > StaleAfter}

IsNext(s, steps) == s \in steps /\ \A t \in steps : Rank[s] <= Rank[t]

\* A failed news step skips the summaries of its else branch.
SkippedWith(s) == IF s = "news" THEN {"news", "summary"} ELSE {s}

Fault == faults < MaxFaults /\ faults' = faults + 1

Init ==
  /\ row = [r \in RunId |-> Absent]
  /\ pc = [p \in Proc |-> "idle"]
  /\ run = [p \in Proc |-> NoRun]
  /\ stale = [p \in Proc |-> {}]
  /\ todo = [p \in Proc |-> {}]
  /\ pending = [p \in Proc |-> {}]
  /\ bad = [p \in Proc |-> FALSE]
  /\ faults = 0

-----------------------------------------------------------------------------

\* The processes ps forget their session and local state.
Leave(ps) ==
  /\ pc' = [p \in Proc |-> IF p \in ps THEN "idle" ELSE pc[p]]
  /\ run' = [p \in Proc |-> IF p \in ps THEN NoRun ELSE run[p]]
  /\ stale' = [p \in Proc |-> IF p \in ps THEN {} ELSE stale[p]]
  /\ todo' = [p \in Proc |-> IF p \in ps THEN {} ELSE todo[p]]
  /\ pending' = [p \in Proc |-> IF p \in ps THEN {} ELSE pending[p]]
  /\ bad' = [p \in Proc |-> IF p \in ps THEN FALSE ELSE bad[p]]

\* run_collection starts: the SELECT of _reclaim_stale_runs.
Begin(p, plan) ==
  /\ pc[p] = "idle"
  /\ stale' = [stale EXCEPT ![p] = StaleRows]
  /\ pc' = [pc EXCEPT ![p] = IF StaleRows = {} THEN "insert" ELSE "reclaim"]
  /\ todo' = [todo EXCEPT ![p] = plan]
  /\ UNCHANGED <<row, run, pending, bad, faults>>

\* Mutant: a status outside the vocabulary of the table.
Reclaim_NewStatus(p) ==
  /\ pc[p] = "reclaim"
  /\ row' = [r \in RunId |-> IF r \in stale[p]
                             THEN [row[r] EXCEPT !.status = "dead"]
                             ELSE row[r]]
  /\ stale' = [stale EXCEPT ![p] = {}]
  /\ pc' = [pc EXCEPT ![p] = "insert"]
  /\ UNCHANGED <<run, todo, pending, bad, faults>>

\* The rows that were stale when selected are failed, whatever they are now.
Reclaim(p) ==
  /\ pc[p] = "reclaim"
  /\ row' = [r \in RunId |-> IF r \in stale[p]
                             THEN [row[r] EXCEPT !.status = "failed"]
                             ELSE row[r]]
  /\ stale' = [stale EXCEPT ![p] = {}]
  /\ pc' = [pc EXCEPT ![p] = "insert"]
  /\ UNCHANGED <<run, todo, pending, bad, faults>>

\* The running row is committed: the process owns the slot.
Enter(p, r) ==
  /\ pc[p] = "insert"
  /\ ~SlotTaken
  /\ Unused(r)
  /\ row' = [row EXCEPT ![r] = Started(todo[p])]
  /\ run' = [run EXCEPT ![p] = r]
  /\ pc' = [pc EXCEPT ![p] = "work"]
  /\ UNCHANGED <<stale, todo, pending, bad, faults>>

\* IntegrityError: the API answers 409, the worker skips this tick.
Rejected(p) ==
  /\ pc[p] = "insert"
  /\ SlotTaken
  /\ Leave({p})
  /\ UNCHANGED <<row, faults>>

\* The commit of the reclaim or of the insert fails (database is locked).
NotStarted(p) ==
  /\ pc[p] \in {"reclaim", "insert"}
  /\ Fault
  /\ Leave({p})
  /\ UNCHANGED row

\* The next requested step fetches and flushes its rows.
DoStep(p) ==
  /\ pc[p] = "work"
  /\ \E s \in todo[p] :
       /\ IsNext(s, todo[p])
       /\ todo' = [todo EXCEPT ![p] = @ \ {s}]
       /\ pending' = [pending EXCEPT ![p] = {s}]
  /\ pc' = [pc EXCEPT ![p] = "commit"]
  /\ UNCHANGED <<row, run, stale, bad, faults>>

CommitStep(p) ==
  /\ pc[p] = "commit"
  /\ row' = [row EXCEPT ![run[p]].stored = @ \cup pending[p]]
  /\ pending' = [pending EXCEPT ![p] = {}]
  /\ pc' = [pc EXCEPT ![p] = "work"]
  /\ UNCHANGED <<run, stale, todo, bad, faults>>

\* Mutant: the handler forgets step_failed = True.
StepError_Forgotten(p) ==
  /\ pc[p] = "work"
  /\ \E s \in todo[p] \cap Guarded :
       /\ IsNext(s, todo[p])
       /\ todo' = [todo EXCEPT ![p] = @ \ SkippedWith(s)]
  /\ UNCHANGED <<row, pc, run, stale, pending, bad, faults>>

\* OpenDartError or NaverNewsError: roll the step back and go on.
StepError(p) ==
  /\ pc[p] = "work"
  /\ \E s \in todo[p] \cap Guarded :
       /\ IsNext(s, todo[p])
       /\ todo' = [todo EXCEPT ![p] = @ \ SkippedWith(s)]
  /\ bad' = [bad EXCEPT ![p] = TRUE]
  /\ UNCHANGED <<row, pc, run, stale, pending, faults>>

\* Any other exception, in a step or in a commit: the broad except.
Unexpected(p) ==
  /\ pc[p] \in {"work", "commit"}
  /\ pending' = [pending EXCEPT ![p] = {}]
  /\ pc' = [pc EXCEPT ![p] = "record"]
  /\ UNCHANGED <<row, run, stale, todo, bad, faults>>

\* The run's status is written blindly: the session never reloads the row.
Finish(p) ==
  /\ pc[p] = "work"
  /\ todo[p] = {}
  /\ row' = [row EXCEPT ![run[p]].status =
                          IF bad[p] THEN "failed" ELSE "success"]
  /\ Leave({p})
  /\ UNCHANGED faults

RecordFailure(p) ==
  /\ pc[p] = "record"
  /\ row' = [row EXCEPT ![run[p]].status = "failed"]
  /\ Leave({p})
  /\ UNCHANGED faults

\* A standalone run: corp code import, disclosures, news or analysis.  Its
\* run type has no unique index and nothing ever reclaims it.
StartStandalone(p, r) ==
  /\ pc[p] = "idle"
  /\ Unused(r)
  /\ row' = [row EXCEPT ![r] = Started({})]
  /\ run' = [run EXCEPT ![p] = r]
  /\ pc' = [pc EXCEPT ![p] = "standalone"]
  /\ UNCHANGED <<stale, todo, pending, bad, faults>>

FinishStandalone(p) ==
  /\ pc[p] = "standalone"
  /\ \E status \in {"success", "failed"} :
       row' = [row EXCEPT ![run[p]].status = status]
  /\ Leave({p})
  /\ UNCHANGED faults

\* The commit that records a failure fails itself: the row stays running.
FailureLost(p) ==
  /\ pc[p] \in {"record", "standalone"}
  /\ Fault
  /\ Leave({p})
  /\ UNCHANGED row

\* The worker process, or the API server with every request in it, is killed
\* and restarted by its supervisor.
Crash(ps) ==
  /\ \E p \in ps : pc[p] # "idle"
  /\ Fault
  /\ Leave(ps)
  /\ UNCHANGED row

\* Time passes.  A live collection does not outlast RunLimit, if there is one.
Tick ==
  /\ \A p \in Proc :
       Collecting(p) => row[run[p]].age < RunLimit \/ RunLimit > StaleAfter
  /\ row' = [r \in RunId |->
               IF Running(r) /\ row[r].age <= StaleAfter
               THEN [row[r] EXCEPT !.age = @ + 1]
               ELSE row[r]]
  /\ UNCHANGED <<pc, run, stale, todo, pending, bad, faults>>

-----------------------------------------------------------------------------

\* The steps by which a process advances, once it has begun.
Advance(p) ==
  \/ Reclaim(p)
  \/ \E r \in Unified : Enter(p, r)
  \/ Rejected(p)
  \/ DoStep(p)
  \/ CommitStep(p)
  \/ StepError(p)
  \/ Unexpected(p)
  \/ Finish(p)
  \/ RecordFailure(p)
  \/ FinishStandalone(p)

Begins(p) ==
  \E plan \in IF p = Worker THEN {WorkerPlan} ELSE Plans : Begin(p, plan)

Next ==
  \/ \E p \in Proc : Begins(p)
  \/ \E p \in Proc : Advance(p)
  \/ \E p \in Request, r \in Standalone : StartStandalone(p, r)
  \/ \E p \in Proc : NotStarted(p)
  \/ \E p \in Proc : FailureLost(p)
  \/ Crash({Worker})
  \/ Crash(Request)
  \/ Tick

Spec == Init /\ [][Next]_vars

\* The worker loops forever, requests in flight run, and time passes; that a
\* request ever comes, or that anything fails, is not assumed.
Fairness ==
  /\ WF_vars(Begins(Worker))
  /\ \A p \in Proc : WF_vars(Advance(p))
  /\ WF_vars(Tick)

FairSpec == Spec /\ Fairness

-----------------------------------------------------------------------------

TypeOK ==
  /\ row \in [RunId -> Row]
  /\ pc \in [Proc -> {"idle", "reclaim", "insert", "work", "commit",
                      "record", "standalone"}]
  /\ run \in [Proc -> RunId \cup {NoRun}]
  /\ stale \in [Proc -> SUBSET RunId]
  /\ todo \in [Proc -> SUBSET Step]
  /\ pending \in [Proc -> SUBSET Step]
  /\ bad \in [Proc -> BOOLEAN]
  /\ faults \in 0..MaxFaults

\* A unified row too old for _reclaim_stale_runs to believe in its process.
Overdue(r) == r \in Unified /\ row[r].age > StaleAfter

\* Two processes execute a unified collection at the same time only if one of
\* them has outlasted _STALE_RUN_AFTER_SECONDS: up to then the slot really
\* excludes, across reclaims, crashes and failed writes.
OneLiveCollection ==
  \A p, q \in Proc :
    Collecting(p) /\ Collecting(q) => p = q \/ Overdue(run[p]) \/ Overdue(run[q])

\* A run recorded as a success has stored every step it was asked for.
SuccessIsComplete ==
  \A r \in Unified : row[r].status = "success" => row[r].stored = row[r].plan

\* Nobody turns the recorded outcome of a run into another one (a reclaim a
\* success into a failure, a late finisher the reverse), unless the run outlasted
\* the stale threshold: such a run may be failed while it goes on, and its
\* process then overwrites the failure.  Standalone runs are never overwritten.
StatusStable ==
  \A r \in RunId :
    /\ row[r].status \in {"success", "failed"}
    /\ row'[r].status \in {"success", "failed"}
    => row'[r].status = row[r].status \/ Overdue(r)

\* Every step keeps the recorded outcomes of runs that were not overdue.
FinalStatusStable == [][StatusStable]_vars

\* A run that a process is still executing is settled by that process only: the
\* reclaim never fails a live standalone run, nor a live unified one that is not
\* overdue.
OwnerSettles ==
  \A p \in Proc :
    run[p] # NoRun =>
      \/ ~Running(run[p])
      \/ row'[run[p]].status = "running"
      \/ run'[p] = NoRun
      \/ Overdue(run[p])

\* Every step leaves live runs to their processes.
OnlyOwnerSettles == [][OwnerSettles]_vars

\* The rows implement the slot of RunSlot.
HeldRun == {r \in Unified : Running(r)}
OwnerOf(r) == {p \in Proc : Collecting(p) /\ run[p] = r}

HeldSlot == IF HeldRun = {} THEN NoRun ELSE CHOOSE r \in HeldRun : TRUE

SlotOwner ==
  IF \E r \in HeldRun : OwnerOf(r) # {}
  THEN CHOOSE p \in Proc : \E r \in HeldRun : p \in OwnerOf(r)
  ELSE NoProc

RunOutcome ==
  [r \in Unified |-> IF Running(r) THEN "none" ELSE row[r].status]

Slot == INSTANCE RunSlot WITH RunId <- Unified, slot <- HeldSlot,
                              owner <- SlotOwner, outcome <- RunOutcome

\* Behaviour by behaviour, collection_runs is the slot of RunSlot: taken only
\* when free, given back only by its owner or after its owner's death.
ImplementsSlot == Slot!SlotSpec

\* Why the slot excludes: every executing process holds its own row, which is
\* running unless it is overdue; one row is running; and the rows loaded as
\* stale stay overdue.
SessionInv ==
  \A p \in Proc :
    /\ Collecting(p) => run[p] \in Unified /\ (Running(run[p]) \/ Overdue(run[p]))
    /\ pc[p] = "standalone" => run[p] \in Standalone /\ Running(run[p])
    /\ run[p] # NoRun => Collecting(p) \/ pc[p] = "standalone"

OwnerInv == \A p, q \in Proc : run[p] = run[q] /\ run[p] # NoRun => p = q

OneRunningRow == \A r, s \in Unified : Running(r) /\ Running(s) => r = s

StaleInv ==
  \A p \in Proc : \A r \in stale[p] :
    r \in Unified /\ row[r].age > StaleAfter /\ row[r].status # "none"

IInv == TypeOK /\ SessionInv /\ OwnerInv /\ OneRunningRow /\ StaleInv

\* What RunLimit <= StaleAfter adds, for the refinement: no live collection is
\* overdue, and nobody writes a row once it is settled.
ShortInv ==
  /\ \A p \in Proc : Collecting(p) => row[run[p]].age <= RunLimit
  /\ \A p \in Proc : \A r \in stale[p] : row[r].status # "success"

\* Why a success is complete, whether or not live runs are short: a process
\* accounts for its own row only; outside a step nothing is flushed; and until a
\* step fails, what was asked for is stored, flushed or still to do.
ExecInv ==
  \A p \in Proc :
    /\ Collecting(p) => run[p] \in Unified /\ row[run[p]].status # "success"
    /\ pc[p] = "standalone" => run[p] \in Standalone
    /\ run[p] # NoRun => Collecting(p) \/ pc[p] = "standalone"

PendingInv ==
  \A p \in Proc :
    /\ pc[p] # "commit" => pending[p] = {}
    /\ ~Collecting(p) => bad[p] = FALSE

AccountInv ==
  \A p \in Proc :
    pc[p] \in {"work", "commit"} /\ bad[p] = FALSE =>
      row[run[p]].plan = row[run[p]].stored \cup todo[p] \cup pending[p]

PInv == TypeOK /\ ExecInv /\ OwnerInv /\ PendingInv /\ AccountInv /\ SuccessIsComplete

\* Whatever dies or fails to write, the slot does not stay taken: the row of a
\* dead collection is eventually settled and cannot block collections forever.
SlotFreed == \A r \in Unified : Running(r) ~> ~Running(r)

\* Collections go on for ever, whatever rows dead runs leave "running".  Nothing
\* ever settles the row of a standalone run whose process was killed, since the
\* reclaim only looks at unified collections: it must not take the slot.
CollectionGoesOn == []<>(\E p \in Proc : Collecting(p))

=============================================================================
