------------------------- MODULE DailyReportsProofs -------------------------
(***************************************************************************)
(* Theorems about DailyReports, for every set of requests and companies    *)
(* and all bounds on ids, days, edits and faults.                          *)
(***************************************************************************)
EXTENDS DailyReports, WellFoundedInduction, TLAPS

\* A bounded, non-empty set of naturals has a maximum: its least upper bound.
LEMMA MaxIsMember ==
  ASSUME NEW n \in Nat, NEW S \in SUBSET (0..n), S # {}
  PROVE  Max(S) \in S /\ \A x \in S : Max(S) >= x
  <1> DEFINE U == {k \in Nat : \A x \in S : x <= k}
  <1>1. n \in U /\ U \subseteq Nat
    OBVIOUS
  <1>2. \E k \in U : \A j \in U : ~(<<j, k>> \in OpToRel(<, Nat))
    <2> HIDE DEF U
    <2> QED BY <1>1, WFMin, NatLessThanWellFounded
  <1>3. PICK k \in U : \A j \in U : ~(j < k)
    BY <1>2 DEF OpToRel
  <1>4. k \in S
    <2> SUFFICES ASSUME k \notin S PROVE FALSE
      OBVIOUS
    <2>1. \A x \in S : x <= k - 1
      BY <1>3
    <2>2. PICK x \in S : TRUE
      OBVIOUS
    <2>3. x \in Nat /\ x <= k - 1 /\ k \in Nat
      BY <2>1
    <2>4. k - 1 \in U
      BY <2>1, <2>3
    <2> QED BY <2>3, <2>4, <1>3
  <1>5. \E x \in S : \A y \in S : x >= y
    BY <1>3, <1>4
  <1> QED BY <1>5 DEF Max

\* The id of a new row is not in use.
LEMMA FreshId ==
  ASSUME NEW n \in Nat, NEW S \in SUBSET (1..n)
  PROVE  NextId(S) \notin S
  <1> DEFINE T == S \cup {0}
             m == Max(T)
  <1>1. T \in SUBSET (0..n) /\ T # {}
    OBVIOUS
  <1>2. m \in T /\ \A x \in T : m >= x
    <2> HIDE DEF T
    <2> QED BY <1>1, MaxIsMember
  <1>3. m \in Int /\ \A x \in S : m >= x
    <2> HIDE DEF m
    <2> QED BY <1>2
  <1>4. m + 1 \notin S
    <2> HIDE DEF m
    <2> QED BY <1>3
  <1> QED BY <1>4 DEF NextId

-----------------------------------------------------------------------------
(* Types. *)

\* The report a batch finds, if any, is a report.
LEMMA FoundType ==
  ASSUME NEW S \in SUBSET RepId
  PROVE  /\ Max(S \cup {0}) \in RepId \cup {0}
         /\ S = {} => Max(S \cup {0}) = 0
         /\ Max(S \cup {0}) # 0 => Max(S \cup {0}) \in S
  <1> DEFINE T == S \cup {0}
  <1>1. T \in SUBSET (0..MaxReport) /\ T # {} /\ MaxReport \in Nat
    BY BoundAssumption DEF RepId
  <1>2. Max(T) \in T
    <2> HIDE DEF T
    <2> QED BY <1>1, MaxIsMember
  <1> QED BY <1>2

\* A fault or an edit stays within its budget.
LEMMA BudgetType ==
  ASSUME TypeOK
  PROVE  /\ Fault => faults' \in 0..MaxFaults
         /\ Edit => edits' \in 0..MaxEdits
  BY BoundAssumption DEF TypeOK, Fault, Edit

\* An idle job is a job.
LEMMA IdleType == Idle \in Job /\ Idle.pc = "idle"
  BY DEF Idle, Job, Expired

\* The initial state.
LEMMA InitBatchInv == Init => BatchInv
  <1> SUFFICES ASSUME Init PROVE BatchInv
    OBVIOUS
  <1>1. symbol \in [SymId -> Company \cup {NoCompany}]
    BY TableAssumption DEF Init, SymId
  <1>2. TypeOK
    BY <1>1, BoundAssumption, IdleType DEF Init, TypeOK, Day
  <1>3. JobInv
    BY IdleType DEF Init, JobInv
  <1> QED BY <1>2, <1>3 DEF BatchInv

\* A step that changes one job only keeps the invariant, if the job keeps it.
LEMMA OneJob ==
  ASSUME BatchInv, NEW p \in Proc, NEW j \in Job, job' = [job EXCEPT ![p] = j],
         j.pc \notin {"idle", "delete"} => j.date \in Day,
         j.pc \in {"generate", "store", "caught", "delete"} => j.cur \in SymId,
         j.pc \in {"generate", "store"} =>
           j.seen[j.cur] # NoCompany /\ (~j.over => j.old = 0)
  PROVE  job' \in [Proc -> Job] /\ JobInv'
  <1>1. job'[p] = j /\ \A q \in Proc : q # p => job'[q] = job[q]
    BY DEF BatchInv, TypeOK
  <1>2. job' \in [Proc -> Job]
    BY DEF BatchInv, TypeOK
  <1>3. JobInv'
    BY <1>1 DEF BatchInv, JobInv
  <1> QED BY <1>2, <1>3

\* What touching a symbol gives is a company or nothing.
LEMMA TouchType ==
  ASSUME TypeOK, NEW p \in Proc, NEW s \in SymId
  PROVE  Touch(p, s) \in Company \cup {NoCompany}
  BY DEF TypeOK, Touch, Job

\* A batch or a deletion begins.
LEMMA BeginTypes ==
  ASSUME BatchInv, NEW p \in Proc
  PROVE  /\ \A ids \in SUBSET SymId, over \in BOOLEAN :
              Start(p, ids, over) => job' \in [Proc -> Job] /\ JobInv'
         /\ \A s \in SymId :
              DeleteLoad(p, s) => job' \in [Proc -> Job] /\ JobInv'
  <1>1. ASSUME NEW ids \in SUBSET SymId, NEW over \in BOOLEAN, Start(p, ids, over)
        PROVE  job' \in [Proc -> Job] /\ JobInv'
    <2> DEFINE j == [Idle EXCEPT !.pc = "load", !.date = today,
                                 !.over = over, !.left = ids]
    <2>1. /\ j \in Job /\ j.pc = "load" /\ j.date \in Day
          /\ job' = [job EXCEPT ![p] = j]
      BY <1>1, IdleType DEF Start, BatchInv, TypeOK, Job, Idle
    <2> HIDE DEF j
    <2> QED BY <2>1, OneJob
  <1>2. ASSUME NEW s \in SymId, DeleteLoad(p, s)
        PROVE  job' \in [Proc -> Job] /\ JobInv'
    <2> DEFINE j == [Idle EXCEPT !.pc = "delete", !.cur = s,
                                 !.doomed = {r \in Stored : report[r].sym = s}]
    <2>1. /\ j \in Job /\ j.pc = "delete" /\ j.cur = s
          /\ job' = [job EXCEPT ![p] = j]
      BY <1>2, IdleType DEF DeleteLoad, Job, Idle, Stored
    <2> HIDE DEF j
    <2> QED BY <2>1, OneJob
  <1> QED BY <1>1, <1>2

\* The batch's reads: loading the symbols, skipping one, looking one up.
LEMMA ReadTypes ==
  ASSUME BatchInv, NEW p \in Proc
  PROVE  /\ Load(p) => job' \in [Proc -> Job] /\ JobInv'
         /\ \A s \in SymId :
              Skip(p, s) \/ Look(p, s) => job' \in [Proc -> Job] /\ JobInv'
  <1> USE DEF BatchInv
  <1>0. job[p] \in Job
    BY DEF TypeOK
  <1>1. ASSUME Load(p) PROVE job' \in [Proc -> Job] /\ JobInv'
    <2> DEFINE ids == IF p = Worker THEN Registered ELSE job[p].left \cap Registered
               j == [job[p] EXCEPT !.pc = "look", !.left = ids,
                       !.seen = [s \in SymId |-> IF s \in ids THEN symbol[s]
                                                 ELSE NoCompany]]
    <2>1. ids \in SUBSET SymId
      BY DEF Registered
    <2>2. [s \in SymId |-> IF s \in ids THEN symbol[s] ELSE NoCompany]
            \in [SymId -> Company \cup {NoCompany}]
      BY DEF TypeOK
    <2>3. job' = [job EXCEPT ![p] = j]
      BY <1>1, <1>0 DEF Load, TypeOK, Job
    <2>4. j \in Job /\ j.pc = "look" /\ j.date = job[p].date
      <3> HIDE DEF ids
      <3> QED BY <2>1, <2>2, <1>0 DEF Job
    <2>5. job[p].date \in Day
      BY <1>1 DEF Load, JobInv
    <2> HIDE DEF j
    <2> QED BY <2>3, <2>4, <2>5, OneJob
  <1>2. ASSUME NEW s \in SymId, Skip(p, s) PROVE job' \in [Proc -> Job] /\ JobInv'
    <2> DEFINE j == [job[p] EXCEPT !.left = @ \ {s}, !.seen[s] = Touch(p, s)]
    <2>1. j \in Job /\ j.pc = "look" /\ j.date = job[p].date
      BY <1>2, <1>0, TouchType DEF Skip, Job
    <2>2. job' = [job EXCEPT ![p] = j]
      BY <1>2, <1>0 DEF Skip, TypeOK, Job
    <2>3. job[p].date \in Day
      BY <1>2 DEF Skip, JobInv
    <2> HIDE DEF j
    <2> QED BY <2>1, <2>2, <2>3, OneJob
  <1>3. ASSUME NEW s \in SymId, Look(p, s) PROVE job' \in [Proc -> Job] /\ JobInv'
    <2> DEFINE found == ReportsOf(s, job[p].date)
               j == [job[p] EXCEPT !.pc = "generate", !.cur = s,
                       !.seen[s] = Touch(p, s), !.old = Max(found \cup {0})]
    <2>1. found \in SUBSET RepId
      BY DEF ReportsOf, Stored
    <2>2. Max(found \cup {0}) \in RepId \cup {0}
      <3> HIDE DEF found
      <3> QED BY <2>1, FoundType
    <2>3. ~job[p].over => Max(found \cup {0}) = 0
      <3>1. ~job[p].over => found = {}
        BY <1>3 DEF Look
      <3> HIDE DEF found
      <3> QED BY <2>1, <3>1, FoundType
    <2>4. /\ j \in Job /\ j.pc = "generate" /\ j.date = job[p].date /\ j.cur = s
          /\ j.seen[s] = Touch(p, s) /\ j.over = job[p].over
          /\ j.old = Max(found \cup {0})
      BY <2>2, <1>0, TouchType DEF Job
    <2>5. job' = [job EXCEPT ![p] = j]
      BY <1>3, <1>0 DEF Look, TypeOK, Job
    <2>6. job[p].date \in Day /\ Touch(p, s) # NoCompany
      BY <1>3 DEF Look, JobInv
    <2> HIDE DEF j, found
    <2> QED BY <2>3, <2>4, <2>5, <2>6, OneJob
  <1> QED BY <1>1, <1>2, <1>3

\* The rest of the batch, step by step; a batch that ends is idle.
LEMMA RunTypes ==
  ASSUME BatchInv, NEW p \in Proc
  PROVE  /\ Generate(p) \/ NoAnswer(p) => job' \in [Proc -> Job] /\ JobInv'
         /\ job[p].pc = "store" /\ Committed(p) => job' \in [Proc -> Job] /\ JobInv'
         /\ Conflict(p) \/ Broken(p) \/ Caught(p) => job' \in [Proc -> Job] /\ JobInv'
         /\ job' = [job EXCEPT ![p] = Idle] => job' \in [Proc -> Job] /\ JobInv'
  <1> USE DEF BatchInv
  <1>0. job[p] \in Job
    BY DEF TypeOK
  <1>1. ASSUME Generate(p) PROVE job' \in [Proc -> Job] /\ JobInv'
    <2> DEFINE j == [job[p] EXCEPT !.pc = "store"]
    <2>1. /\ j \in Job /\ j.pc = "store" /\ j.date = job[p].date
          /\ j.cur = job[p].cur /\ j.seen = job[p].seen
          /\ j.over = job[p].over /\ j.old = job[p].old
      BY <1>0 DEF Job
    <2>2. job' = [job EXCEPT ![p] = j]
      BY <1>1, <1>0 DEF Generate, TypeOK, Job
    <2>3. /\ job[p].date \in Day /\ job[p].cur \in SymId
          /\ job[p].seen[job[p].cur] # NoCompany /\ (~job[p].over => job[p].old = 0)
      BY <1>1 DEF Generate, JobInv
    <2> HIDE DEF j
    <2> QED BY <2>1, <2>2, <2>3, OneJob
  <1>2. ASSUME NoAnswer(p) PROVE job' \in [Proc -> Job] /\ JobInv'
    <2> DEFINE j == [job[p] EXCEPT !.pc = "look", !.left = @ \ {job[p].cur}]
    <2>1. j \in Job /\ j.pc = "look" /\ j.date = job[p].date
      BY <1>0 DEF Job
    <2>2. job' = [job EXCEPT ![p] = j]
      BY <1>2, <1>0 DEF NoAnswer, TypeOK, Job
    <2>3. job[p].date \in Day
      BY <1>2 DEF NoAnswer, JobInv
    <2> HIDE DEF j
    <2> QED BY <2>1, <2>2, <2>3, OneJob
  <1>3. ASSUME job[p].pc = "store", Committed(p) PROVE job' \in [Proc -> Job] /\ JobInv'
    <2> DEFINE j == [job[p] EXCEPT !.pc = "look", !.left = @ \ {job[p].cur},
                       !.seen = Expired, !.done = @ \cup {job[p].cur}]
    <2>1. job[p].date \in Day /\ job[p].cur \in SymId
      BY <1>3 DEF JobInv
    <2>2. j \in Job /\ j.pc = "look" /\ j.date = job[p].date
      BY <2>1, <1>0 DEF Job, Expired
    <2>3. job' = [job EXCEPT ![p] = j]
      BY <1>3, <1>0 DEF Committed, TypeOK, Job
    <2> HIDE DEF j
    <2> QED BY <2>1, <2>2, <2>3, OneJob
  <1>4. ASSUME Conflict(p) \/ Broken(p) PROVE job' \in [Proc -> Job] /\ JobInv'
    <2> DEFINE j == [job[p] EXCEPT !.pc = "caught", !.seen = Expired]
    <2>1. /\ j \in Job /\ j.pc = "caught" /\ j.date = job[p].date
          /\ j.cur = job[p].cur
      BY <1>0 DEF Job, Expired
    <2>2. job' = [job EXCEPT ![p] = j]
      BY <1>4, <1>0 DEF Conflict, Broken, TypeOK, Job
    <2>3. job[p].date \in Day /\ job[p].cur \in SymId
      BY <1>4 DEF Conflict, Broken, JobInv
    <2> HIDE DEF j
    <2> QED BY <2>1, <2>2, <2>3, OneJob
  <1>5. ASSUME Caught(p) PROVE job' \in [Proc -> Job] /\ JobInv'
    <2> DEFINE j == [job[p] EXCEPT !.pc = "look", !.left = @ \ {job[p].cur},
                       !.seen[job[p].cur] = symbol[job[p].cur]]
    <2>1. job[p].date \in Day /\ job[p].cur \in SymId
      BY <1>5 DEF Caught, JobInv
    <2>2. j \in Job /\ j.pc = "look" /\ j.date = job[p].date
      BY <2>1, <1>0 DEF Job, TypeOK
    <2>3. job' = [job EXCEPT ![p] = j]
      BY <1>5, <1>0 DEF Caught, TypeOK, Job
    <2> HIDE DEF j
    <2> QED BY <2>1, <2>2, <2>3, OneJob
  <1>6. ASSUME job' = [job EXCEPT ![p] = Idle] PROVE job' \in [Proc -> Job] /\ JobInv'
    BY <1>6, IdleType, OneJob
  <1> QED BY <1>1, <1>2, <1>3, <1>4, <1>5, <1>6

\* What is stored is a report.
LEMMA StoreTypes ==
  ASSUME BatchInv, NEW p \in Proc, StoreNew(p) \/ StoreOver(p)
  PROVE  report' \in [RepId -> Report \cup {NoReport}]
  <1> USE DEF BatchInv
  <1>1. /\ job[p].date \in Day /\ job[p].cur \in SymId
        /\ job[p].seen[job[p].cur] \in Company
    BY DEF StoreNew, StoreOver, JobInv, TypeOK, Job
  <1>2. CASE StoreNew(p)
    BY <1>1, <1>2 DEF StoreNew, Report, TypeOK
  <1>3. CASE StoreOver(p)
    <2>1. report[job[p].old] \in Report /\ job[p].old \in RepId
      BY <1>3 DEF StoreOver, Stored, TypeOK
    <2> QED BY <1>1, <1>3, <2>1 DEF StoreOver, Report, TypeOK
  <1> QED BY <1>2, <1>3

\* Every step keeps the types and what a batch carries along.
LEMMA BatchInductive == BatchInv /\ [Next]_vars => BatchInv'
  <1> SUFFICES ASSUME BatchInv, [Next]_vars PROVE BatchInv'
    OBVIOUS
  <1> DEFINE Goal == BatchInv'
             JobsKept == job' \in [Proc -> Job] /\ JobInv'
  <1>0. /\ symbol \in [SymId -> Company \cup {NoCompany}]
        /\ report \in [RepId -> Report \cup {NoReport}]
        /\ today \in Day /\ dueDays \subseteq Day /\ taken \subseteq SymId \X Day
        /\ edits \in 0..MaxEdits /\ faults \in 0..MaxFaults
    BY DEF BatchInv, TypeOK
  <1>1. ASSUME UNCHANGED <<symbol, report, today, dueDays, taken, edits, faults>>, JobsKept
        PROVE  Goal
    BY <1>0, <1>1 DEF BatchInv, TypeOK
  <1>2. CASE Scheduled
    <2>1. Start(Worker, {}, FALSE) /\ Worker \in Proc
      BY <1>2 DEF Scheduled, Proc
    <2>2. JobsKept
      BY <2>1, BeginTypes
    <2> QED BY <1>1, <2>1, <2>2 DEF Start
  <1>3. ASSUME NEW p \in Request, Requested(p) PROVE Goal
    <2>1. PICK ids \in SUBSET SymId, over \in BOOLEAN : Start(p, ids, over)
      BY <1>3 DEF Requested, Registered
    <2>2. JobsKept
      BY <2>1, BeginTypes DEF Proc
    <2> QED BY <1>1, <2>1, <2>2 DEF Start
  <1>4. ASSUME NEW p \in Proc, Load(p) PROVE Goal
    <2>1. JobsKept
      BY <1>4, ReadTypes
    <2> QED BY <1>1, <1>4, <2>1 DEF Load
  <1>5. ASSUME NEW p \in Proc, NEW s \in SymId, Skip(p, s) \/ Look(p, s) PROVE Goal
    <2>1. JobsKept
      BY <1>5, ReadTypes
    <2> QED BY <1>1, <1>5, <2>1 DEF Skip, Look
  <1>6. ASSUME NEW p \in Proc, Generate(p) \/ Conflict(p) \/ Caught(p) PROVE Goal
    <2>1. JobsKept
      BY <1>6, RunTypes
    <2> QED BY <1>1, <1>6, <2>1 DEF Generate, Conflict, Caught
  <1>7. ASSUME NEW p \in Proc, StoreNew(p) \/ StoreOver(p) PROVE Goal
    <2>1. JobsKept
      BY <1>7, RunTypes DEF StoreNew, StoreOver
    <2>2. report' \in [RepId -> Report \cup {NoReport}]
      BY <1>7, StoreTypes
    <2>3. UNCHANGED <<symbol, today, dueDays, taken, edits, faults>>
      BY <1>7 DEF StoreNew, StoreOver
    <2> QED BY <1>0, <2>1, <2>2, <2>3 DEF BatchInv, TypeOK
  <1>8. ASSUME NEW p \in Proc, Vanished(p) \/ Finish(p) PROVE Goal
    <2>1. JobsKept
      BY <1>8, RunTypes DEF Vanished, Finish
    <2> QED BY <1>1, <1>8, <2>1 DEF Vanished, Finish
  <1>9. ASSUME NEW p \in Proc, DeleteCommit(p) PROVE Goal
    <2>1. JobsKept
      BY <1>9, RunTypes DEF DeleteCommit
    <2>2. /\ symbol' \in [SymId -> Company \cup {NoCompany}]
          /\ report' \in [RepId -> Report \cup {NoReport}]
      BY <1>0, <1>9 DEF DeleteCommit
    <2>3. taken' \subseteq SymId \X Day
      BY <1>0, <1>9 DEF DeleteCommit, Stored, Report
    <2> QED BY <1>0, <1>9, <2>1, <2>2, <2>3 DEF DeleteCommit, BatchInv, TypeOK
  <1>10. ASSUME NEW p \in Proc, NoAnswer(p) \/ Broken(p) PROVE Goal
    <2>1. JobsKept
      BY <1>10, RunTypes
    <2>2. faults' \in 0..MaxFaults
      BY <1>10, BudgetType DEF BatchInv, NoAnswer, Broken
    <2>3. UNCHANGED <<symbol, report, today, dueDays, taken, edits>>
      BY <1>10 DEF NoAnswer, Broken
    <2> QED BY <1>0, <2>1, <2>2, <2>3 DEF BatchInv, TypeOK
  <1>11. ASSUME NEW ps \in SUBSET Proc, Crash(ps) PROVE Goal
    <2>1. job' \in [Proc -> Job]
      BY <1>11, IdleType DEF Crash, BatchInv, TypeOK
    <2>2. JobInv'
      BY <1>11, IdleType DEF Crash, BatchInv, JobInv
    <2>3. faults' \in 0..MaxFaults
      BY <1>11, BudgetType DEF BatchInv, Crash
    <2> QED BY <1>0, <1>11, <2>1, <2>2, <2>3 DEF Crash, BatchInv, TypeOK
  <1>12. CASE Register
    <2>1. symbol' \in [SymId -> Company \cup {NoCompany}]
      BY <1>0, <1>12 DEF Register
    <2>2. edits' \in 0..MaxEdits
      BY <1>12, BudgetType DEF BatchInv, Register
    <2>3. UNCHANGED <<report, today, dueDays, job, taken, faults>>
      BY <1>12 DEF Register
    <2> QED BY <1>0, <2>1, <2>2, <2>3 DEF BatchInv, TypeOK, JobInv
  <1>13. ASSUME NEW p \in Request, NEW s \in SymId, DeleteLoad(p, s) PROVE Goal
    <2>1. JobsKept
      BY <1>13, BeginTypes DEF Proc
    <2>2. edits' \in 0..MaxEdits
      BY <1>13, BudgetType DEF BatchInv, DeleteLoad
    <2>3. UNCHANGED <<symbol, report, today, dueDays, taken, faults>>
      BY <1>13 DEF DeleteLoad
    <2> QED BY <1>0, <2>1, <2>2, <2>3 DEF BatchInv, TypeOK
  <1>14. CASE BecomesDue
    BY <1>0, <1>14 DEF BecomesDue, BatchInv, TypeOK, JobInv
  <1>15. CASE Midnight
    <2>1. today' \in Day
      BY <1>0, <1>15, BoundAssumption DEF Midnight, Day
    <2> QED BY <1>0, <1>15, <2>1 DEF Midnight, BatchInv, TypeOK, JobInv
  <1>16. CASE UNCHANGED vars
    BY <1>0, <1>16 DEF vars, BatchInv, TypeOK, JobInv
  <1> QED
    BY <1>2, <1>3, <1>4, <1>5, <1>6, <1>7, <1>8, <1>9, <1>10, <1>11, <1>12,
       <1>13, <1>14, <1>15, <1>16 DEF Next, Advance, Proc

\* The tables, the calendar and the batches stay well typed: a stored report is
\* about a company, under a symbol id and a day, whatever is deleted meanwhile.
THEOREM ReportTyping == Spec => []TypeOK
  <1>1. BatchInv => TypeOK
    BY DEF BatchInv
  <1> QED BY <1>1, InitBatchInv, BatchInductive, PTL DEF Spec

\* Together with what a batch carries along.
LEMMA InvariantBatchInv == Spec => []BatchInv
  BY InitBatchInv, BatchInductive, PTL DEF Spec

-----------------------------------------------------------------------------
(* The scheduler's reports are dated on days that were due. *)

\* What a step of the batch keeps of its job: the day and the permission.
LEMMA BatchKeeps ==
  ASSUME TypeOK, NEW p \in Proc,
         \/ Load(p)
         \/ \E s \in SymId : Skip(p, s) \/ Look(p, s)
         \/ Generate(p) \/ NoAnswer(p) \/ Conflict(p) \/ Broken(p) \/ Caught(p)
         \/ StoreNew(p) \/ StoreOver(p)
  PROVE  /\ job'[p].date = job[p].date /\ job'[p].over = job[p].over
         /\ job[p].pc \notin {"idle", "delete"}
         /\ job'[p].pc \notin {"idle", "delete"}
         /\ \A q \in Proc : q # p => job'[q] = job[q]
  <1>0. job \in [Proc -> Job] /\ job[p] \in Job
    BY DEF TypeOK
  <1>1. CASE Load(p)
    BY <1>0, <1>1 DEF Load, Job
  <1>2. CASE \E s \in SymId : Skip(p, s) \/ Look(p, s)
    <2>1. PICK s \in SymId : Skip(p, s) \/ Look(p, s)
      BY <1>2
    <2>2. CASE Skip(p, s)
      BY <1>0, <2>2 DEF Skip, Job
    <2>3. CASE Look(p, s)
      BY <1>0, <2>3 DEF Look, Job
    <2> QED BY <2>1, <2>2, <2>3
  <1>3. CASE Generate(p) \/ NoAnswer(p)
    BY <1>0, <1>3 DEF Generate, NoAnswer, Job
  <1>4. CASE Conflict(p) \/ Broken(p)
    BY <1>0, <1>4 DEF Conflict, Broken, Job
  <1>5. CASE Caught(p)
    BY <1>0, <1>5 DEF Caught, Job
  <1>6. CASE StoreNew(p) \/ StoreOver(p)
    <2>1. Committed(p) /\ job[p].pc = "store"
      BY <1>6 DEF StoreNew, StoreOver
    <2> QED BY <1>0, <2>1 DEF Committed, Job
  <1> QED BY <1>1, <1>2, <1>3, <1>4, <1>5, <1>6

\* The worker's batch stays due.
LEMMA DueInductive ==
  ASSUME TypeOK, DueInv, [Next]_vars PROVE DueInv'
  <1>0. Worker \in Proc
    BY DEF Proc
  <1>1. ASSUME job'[Worker].pc = "idle" PROVE DueInv'
    BY <1>1 DEF DueInv
  <1>2. ASSUME job'[Worker] = job[Worker], dueDays \subseteq dueDays' PROVE DueInv'
    BY <1>2 DEF DueInv
  <1>3. CASE Scheduled
    BY <1>3, <1>0, IdleType DEF Scheduled, ReportsDue, Start, DueInv, TypeOK, Idle
  <1>4. ASSUME NEW p \in Request, Requested(p) PROVE DueInv'
    BY <1>2, <1>4, <1>0, ProcAssumption DEF Requested, Start, TypeOK
  <1>5. ASSUME NEW p \in Proc,
               \/ Load(p)
               \/ \E s \in SymId : Skip(p, s) \/ Look(p, s)
               \/ Generate(p) \/ NoAnswer(p) \/ Conflict(p) \/ Broken(p) \/ Caught(p)
               \/ StoreNew(p) \/ StoreOver(p)
        PROVE  DueInv'
    <2>1. dueDays' = dueDays
      BY <1>5 DEF Load, Skip, Look, Generate, NoAnswer, Conflict, Broken, Caught,
                  StoreNew, StoreOver
    <2>2. CASE p = Worker
      BY <1>5, <2>1, <2>2, BatchKeeps DEF DueInv
    <2>3. CASE p # Worker
      BY <1>0, <1>2, <1>5, <2>1, <2>3, BatchKeeps
    <2> QED BY <2>2, <2>3
  <1>6. ASSUME NEW p \in Proc, Vanished(p) \/ Finish(p) \/ DeleteCommit(p) PROVE DueInv'
    <2>1. job' = [job EXCEPT ![p] = Idle] /\ dueDays' = dueDays
      BY <1>6 DEF Vanished, Finish, DeleteCommit
    <2>2. CASE p = Worker
      BY <1>1, <2>1, <2>2, IdleType DEF TypeOK
    <2>3. CASE p # Worker
      BY <1>0, <1>2, <2>1, <2>3 DEF TypeOK
    <2> QED BY <2>2, <2>3
  <1>7. ASSUME NEW ps \in SUBSET Proc, Crash(ps) PROVE DueInv'
    <2>1. job'[Worker] \in {Idle, job[Worker]} /\ dueDays' = dueDays
      BY <1>0, <1>7 DEF Crash, TypeOK
    <2> QED BY <1>1, <1>2, <2>1, IdleType
  <1>8. ASSUME NEW p \in Request, NEW s \in SymId, DeleteLoad(p, s) PROVE DueInv'
    BY <1>0, <1>2, <1>8, ProcAssumption DEF DeleteLoad, TypeOK
  <1>9. CASE Register \/ BecomesDue \/ Midnight \/ UNCHANGED vars
    BY <1>2, <1>9 DEF Register, BecomesDue, Midnight, vars
  <1> QED
    BY <1>3, <1>4, <1>5, <1>6, <1>7, <1>8, <1>9 DEF Next, Advance, Proc

\* Its reports are dated on days that were due.
LEMMA DatedInductive ==
  ASSUME BatchInv, WorkerInv, [Next]_vars PROVE ScheduledDayWasDue'
  <1> USE DEF BatchInv, WorkerInv
  <1>0. dueDays \subseteq dueDays'
    BY DEF Next, Advance, Scheduled, Requested, Start, Load, Skip, Look, Generate,
           NoAnswer, Conflict, Broken, Caught, StoreNew, StoreOver, Vanished, Finish,
           DeleteCommit, Crash, Register, DeleteLoad, BecomesDue, Midnight, vars
  <1>1. ASSUME \A r \in RepId : report'[r] \in {report[r], NoReport}
        PROVE  ScheduledDayWasDue'
    BY <1>0, <1>1 DEF ScheduledDayWasDue, Stored
  <1>2. ASSUME NEW p \in Proc, StoreNew(p) PROVE ScheduledDayWasDue'
    <2>1. p = Worker => job[p].date \in dueDays
      BY <1>2 DEF StoreNew, DueInv
    <2>2. NextId(Stored) \in RepId
      BY <1>2 DEF StoreNew
    <2>3. /\ report'[NextId(Stored)].by = p
          /\ report'[NextId(Stored)].day = job[p].date
          /\ \A r \in RepId : r # NextId(Stored) => report'[r] = report[r]
      BY <1>2, <2>2 DEF StoreNew, TypeOK
    <2> QED BY <1>0, <2>1, <2>3 DEF ScheduledDayWasDue, Stored
  <1>3. ASSUME NEW p \in Proc, StoreOver(p) PROVE ScheduledDayWasDue'
    <2>1. job[p].old \in Stored /\ job[p].old # 0
      BY <1>3 DEF StoreOver, Stored, RepId
    <2>2. p # Worker
      BY <1>3, <2>1 DEF StoreOver, DueInv, JobInv
    <2>3. report[job[p].old] \in Report
      BY <2>1 DEF Stored, TypeOK
    <2>4. /\ report'[job[p].old].by = p
          /\ \A r \in RepId : r # job[p].old => report'[r] = report[r]
      BY <1>3, <2>1, <2>3 DEF StoreOver, TypeOK, Stored, Report
    <2> QED BY <1>0, <2>2, <2>4 DEF ScheduledDayWasDue, Stored
  <1>4. ASSUME NEW p \in Proc, DeleteCommit(p) PROVE ScheduledDayWasDue'
    BY <1>1, <1>4 DEF DeleteCommit
  <1>5. CASE UNCHANGED report
    BY <1>1, <1>5
  <1>6. \/ UNCHANGED report
        \/ \E p \in Proc : StoreNew(p) \/ StoreOver(p) \/ DeleteCommit(p)
    BY DEF Next, Advance, Scheduled, Requested, Start, Load, Skip, Look, Generate,
           NoAnswer, Conflict, Broken, Caught, Vanished, Finish, Crash, Register,
           DeleteLoad, BecomesDue, Midnight, vars
  <1> QED BY <1>2, <1>3, <1>4, <1>5, <1>6

\* What the scheduler writes is dated on a day it was due on, however long a
\* batch runs past midnight and whatever is deleted or fails meanwhile.
THEOREM ScheduledIsDue == Spec => []ScheduledDayWasDue
  <1>1. Init => WorkerInv
    BY IdleType DEF Init, WorkerInv, DueInv, ScheduledDayWasDue, Stored, Proc
  <1>2. BatchInv /\ WorkerInv /\ [Next]_vars => WorkerInv'
    BY DueInductive, DatedInductive DEF WorkerInv, BatchInv
  <1>3. WorkerInv => ScheduledDayWasDue
    BY DEF WorkerInv
  <1> QED BY <1>1, <1>2, <1>3, InvariantBatchInv, PTL DEF Spec

-----------------------------------------------------------------------------
(* No report is replaced unasked, unless a deletion gave its id away. *)

\* A stored report keeps its symbol and its day, or a deletion takes it; what has
\* been taken stays on record.
LEMMA RowsKept ==
  ASSUME BatchInv, [Next]_vars
  PROVE  /\ taken \subseteq taken'
         /\ \A r \in Stored : \/ <<report[r].sym, report[r].day>> \in taken'
                             \/ /\ r \in Stored'
                                /\ report'[r].sym = report[r].sym
                                /\ report'[r].day = report[r].day
  <1> DEFINE Goal == \A r \in Stored :
                       \/ <<report[r].sym, report[r].day>> \in taken'
                       \/ /\ r \in Stored'
                          /\ report'[r].sym = report[r].sym
                          /\ report'[r].day = report[r].day
  <1> USE DEF BatchInv
  <1>1. ASSUME UNCHANGED report PROVE Goal
    <2>1. \A r \in Stored : /\ r \in Stored'
                            /\ report'[r].sym = report[r].sym
                            /\ report'[r].day = report[r].day
      BY <1>1 DEF Stored
    <2> QED BY <2>1
  <1>2. ASSUME NEW p \in Proc, StoreNew(p) PROVE Goal
    <2>1. NextId(Stored) \notin Stored
      <3>1. Stored \in SUBSET (1..MaxReport)
        BY DEF Stored, RepId
      <3> QED BY <3>1, FreshId, BoundAssumption
    <2>2. \A r \in RepId : r # NextId(Stored) => report'[r] = report[r]
      BY <1>2 DEF StoreNew, TypeOK
    <2> QED BY <2>1, <2>2 DEF Stored
  <1>3. ASSUME NEW p \in Proc, StoreOver(p) PROVE Goal
    <2>1. job[p].old \in Stored /\ report[job[p].old] \in Report
      BY <1>3 DEF StoreOver, Stored, TypeOK
    <2>2. /\ report'[job[p].old].sym = report[job[p].old].sym
          /\ report'[job[p].old].day = report[job[p].old].day
          /\ \A r \in RepId : r # job[p].old => report'[r] = report[r]
      BY <1>3, <2>1 DEF StoreOver, TypeOK, Stored, Report
    <2>3. report'[job[p].old] # NoReport
      <3> DEFINE new == [report[job[p].old] EXCEPT !.about = job[p].seen[job[p].cur],
                                                   !.by = p]
      <3>1. report'[job[p].old] = new
        BY <1>3, <2>1 DEF StoreOver, TypeOK, Stored, Report
      <3>2. job[p].seen[job[p].cur] \in Company
        BY <1>3 DEF StoreOver, JobInv, TypeOK, Job
      <3>3. new \in Report
        BY <2>1, <3>2 DEF Report
      <3> QED BY <3>1, <3>3, ReportAssumption
    <2> QED BY <2>1, <2>2, <2>3, ReportAssumption DEF Stored
  <1>4. ASSUME NEW p \in Proc, DeleteCommit(p) PROVE Goal
    <2>1. ASSUME NEW r \in Stored, r \in job[p].doomed
          PROVE  <<report[r].sym, report[r].day>> \in taken'
      BY <1>4, <2>1 DEF DeleteCommit
    <2>2. ASSUME NEW r \in Stored, r \notin job[p].doomed
          PROVE  r \in Stored' /\ report'[r] = report[r]
      BY <1>4, <2>2 DEF DeleteCommit, Stored
    <2> QED BY <2>1, <2>2
  <1>5. \/ report' = report /\ taken' = taken
        \/ \E p \in Proc : StoreNew(p) \/ StoreOver(p) \/ DeleteCommit(p)
    <2>1. CASE \E p \in Proc : Advance(p)
      <3>1. PICK p \in Proc : Advance(p)
        BY <2>1
      <3>2. CASE StoreNew(p) \/ StoreOver(p) \/ DeleteCommit(p)
        BY <3>2
      <3>3. CASE Load(p) \/ \E s \in SymId : Skip(p, s) \/ Look(p, s)
        BY <3>3 DEF Load, Skip, Look
      <3>4. CASE Generate(p) \/ Conflict(p) \/ Caught(p) \/ Vanished(p) \/ Finish(p)
        BY <3>4 DEF Generate, Conflict, Caught, Vanished, Finish
      <3> QED BY <3>1, <3>2, <3>3, <3>4 DEF Advance
    <2>2. CASE \E p \in Proc : NoAnswer(p) \/ Broken(p)
      BY <2>2 DEF NoAnswer, Broken
    <2>3. CASE Scheduled \/ \E p \in Request : Requested(p)
      BY <2>3 DEF Scheduled, Requested, Start
    <2>4. CASE Crash({Worker}) \/ Crash(Request) \/ Register \/ BecomesDue \/ Midnight
      BY <2>4 DEF Crash, Register, BecomesDue, Midnight
    <2>5. CASE \E p \in Request, s \in SymId : DeleteLoad(p, s)
      BY <2>5 DEF DeleteLoad
    <2>6. CASE UNCHANGED vars
      BY <2>6 DEF vars
    <2> QED BY <2>1, <2>2, <2>3, <2>4, <2>5, <2>6 DEF Next
  <1>6. taken \subseteq taken'
    BY <1>5 DEF StoreNew, StoreOver, DeleteCommit
  <1> QED BY <1>1, <1>2, <1>3, <1>4, <1>5, <1>6

\* What a step does to a job: it stays, starts afresh, looks a report up, keeps
\* it over the generation, drops it, or has stored it.
LEMMA JobSteps ==
  ASSUME BatchInv, [Next]_vars, NEW p \in Proc
  PROVE  \/ job'[p] = job[p]
         \/ job'[p].pc \in {"idle", "load", "delete"} /\ job'[p].done = {}
         \/ \E s \in SymId : Look(p, s)
         \/ Generate(p)
         \/ /\ job'[p].pc \in {"look", "caught"}
            /\ job'[p].done = job[p].done
            /\ job'[p].date = job[p].date
         \/ StoreNew(p) \/ StoreOver(p)
  <1> DEFINE Goal == \/ job'[p] = job[p]
                     \/ job'[p].pc \in {"idle", "load", "delete"} /\ job'[p].done = {}
                     \/ \E s \in SymId : Look(p, s)
                     \/ Generate(p)
                     \/ /\ job'[p].pc \in {"look", "caught"}
                        /\ job'[p].done = job[p].done
                        /\ job'[p].date = job[p].date
                     \/ StoreNew(p) \/ StoreOver(p)
  <1> USE DEF BatchInv
  <1>0. job \in [Proc -> Job] /\ \A q \in Proc : job[q] \in Job
    BY DEF TypeOK
  <1>1. ASSUME NEW q \in Proc, NEW s \in SymId, DeleteLoad(q, s) PROVE Goal
    BY <1>0, <1>1, IdleType DEF DeleteLoad, Idle
  <1>3. ASSUME NEW q \in Proc, NEW ids, NEW over, Start(q, ids, over) PROVE Goal
    BY <1>0, <1>3, IdleType DEF Start, Idle
  <1>4. ASSUME NEW q \in Proc,
               \/ Load(q)
               \/ \E s \in SymId : Skip(q, s) \/ Look(q, s)
               \/ Generate(q) \/ NoAnswer(q) \/ Conflict(q) \/ Broken(q) \/ Caught(q)
               \/ StoreNew(q) \/ StoreOver(q),
               q # p
        PROVE  Goal
    BY <1>4, BatchKeeps
  <1>5. CASE Load(p)
    BY <1>0, <1>5 DEF Load, Job
  <1>6. ASSUME NEW s \in SymId, Skip(p, s) PROVE Goal
    BY <1>0, <1>6 DEF Skip, Job
  <1>7. CASE NoAnswer(p) \/ Conflict(p) \/ Broken(p)
    BY <1>0, <1>7 DEF NoAnswer, Conflict, Broken, Job
  <1>8. CASE Caught(p)
    BY <1>0, <1>8 DEF Caught, Job
  <1>9. ASSUME NEW q \in Proc, Vanished(q) \/ Finish(q) \/ DeleteCommit(q) PROVE Goal
    <2>1. job'[p] \in {Idle, job[p]}
      BY <1>0, <1>9 DEF Vanished, Finish, DeleteCommit
    <2> QED BY <2>1 DEF Idle
  <1>10. ASSUME NEW ps \in SUBSET Proc, Crash(ps) PROVE Goal
    <2>1. job'[p] \in {Idle, job[p]}
      BY <1>0, <1>10 DEF Crash
    <2> QED BY <2>1 DEF Idle
  <1>11. CASE UNCHANGED job
    BY <1>11
  <1>12. \/ UNCHANGED job
         \/ \E q \in Proc, ids \in SUBSET SymId, over \in BOOLEAN : Start(q, ids, over)
         \/ \E q \in Proc : \/ Load(q)
                            \/ \E s \in SymId : Skip(q, s) \/ Look(q, s)
                            \/ Generate(q) \/ NoAnswer(q) \/ Conflict(q)
                            \/ Broken(q) \/ Caught(q) \/ StoreNew(q) \/ StoreOver(q)
         \/ \E q \in Proc : Vanished(q) \/ Finish(q) \/ DeleteCommit(q)
         \/ \E q \in Proc, s \in SymId : DeleteLoad(q, s)
         \/ \E ps \in SUBSET Proc : Crash(ps)
    <2>1. CASE Scheduled \/ \E q \in Request : Requested(q)
      <3>1. Worker \in Proc /\ Request \subseteq Proc /\ Registered \subseteq SymId
        BY DEF Proc, Registered
      <3> QED BY <2>1, <3>1 DEF Scheduled, Requested
    <2>2. CASE \E q \in Proc : Advance(q)
      BY <2>2 DEF Advance
    <2>3. CASE Crash({Worker}) \/ Crash(Request)
      BY <2>3 DEF Proc
    <2>4. CASE Register \/ \E q \in Request, s \in SymId : DeleteLoad(q, s)
      BY <2>4 DEF Register, Proc
    <2>5. CASE BecomesDue \/ Midnight \/ UNCHANGED vars
      BY <2>5 DEF BecomesDue, Midnight, vars
    <2> QED BY <2>1, <2>2, <2>3, <2>4, <2>5 DEF Next
  <1> QED BY <1>1, <1>3, <1>4, <1>5, <1>6, <1>7, <1>8, <1>9, <1>10, <1>11, <1>12

\* The report a batch found stays the one of its symbol and day, until a deletion
\* takes it.
LEMMA TargetInductive ==
  ASSUME BatchInv, TargetInv, [Next]_vars PROVE TargetInv'
  <1> SUFFICES ASSUME NEW p \in Proc
               PROVE  job'[p].pc \in {"generate", "store"} /\ job'[p].old # 0 =>
                        \/ <<job'[p].cur, job'[p].date>> \in taken'
                        \/ /\ job'[p].old \in Stored'
                           /\ report'[job'[p].old].sym = job'[p].cur
                           /\ report'[job'[p].old].day = job'[p].date
    BY DEF TargetInv
  <1> USE DEF BatchInv
  <1>0. job \in [Proc -> Job] /\ job[p] \in Job
    BY DEF TypeOK
  <1>1. CASE job'[p] = job[p]
    BY <1>1, RowsKept DEF TargetInv
  <1>2. CASE job'[p].pc \in {"idle", "load", "look", "caught", "delete"}
    BY <1>2
  <1>3. CASE \E s \in SymId : Look(p, s)
    <2>1. PICK s \in SymId : Look(p, s)
      BY <1>3
    <2> DEFINE found == ReportsOf(s, job[p].date)
    <2>2. /\ job'[p].pc = "generate" /\ job'[p].cur = s
          /\ job'[p].date = job[p].date /\ job'[p].old = Max(found \cup {0})
      BY <1>0, <2>1 DEF Look, Job
    <2>3. found \in SUBSET RepId
      BY DEF ReportsOf, Stored
    <2>4. Max(found \cup {0}) # 0 => Max(found \cup {0}) \in found
      <3> HIDE DEF found
      <3> QED BY <2>3, FoundType
    <2>5. \A r \in found : r \in Stored /\ report[r].sym = s /\ report[r].day = job[p].date
      BY DEF ReportsOf
    <2> HIDE DEF found
    <2> QED BY <2>2, <2>4, <2>5, RowsKept
  <1>4. CASE Generate(p)
    <2>1. /\ job'[p].pc = "store" /\ job'[p].old = job[p].old
          /\ job'[p].cur = job[p].cur /\ job'[p].date = job[p].date
          /\ job[p].pc = "generate"
      BY <1>0, <1>4 DEF Generate, Job
    <2> QED BY <2>1, RowsKept DEF TargetInv
  <1>5. CASE StoreNew(p) \/ StoreOver(p)
    <2>1. job'[p].pc = "look"
      BY <1>0, <1>5 DEF StoreNew, StoreOver, Committed, Job
    <2> QED BY <2>1
  <1> QED BY <1>1, <1>2, <1>3, <1>4, <1>5, JobSteps

\* What is counted as generated is stored, or has been taken.
LEMMA CountInductive ==
  ASSUME BatchInv, StoreInv, [Next]_vars PROVE GeneratedIsStored'
  <1> DEFINE Kept(s, d) ==
        \/ \E r \in Stored' : report'[r].sym = s /\ report'[r].day = d
        \/ <<s, d>> \in taken'
  <1> SUFFICES ASSUME NEW p \in Proc, NEW s \in job'[p].done
               PROVE  Kept(s, job'[p].date)
    BY DEF GeneratedIsStored, ReportsOf
  <1> USE DEF BatchInv, StoreInv
  <1>0. job \in [Proc -> Job] /\ job[p] \in Job
    BY DEF TypeOK
  <1>1. ASSUME NEW r \in Stored, report[r].sym = s, report[r].day = job'[p].date
        PROVE  Kept(s, job'[p].date)
    BY <1>1, RowsKept
  <1>2. ASSUME s \in job[p].done, job'[p].date = job[p].date
        PROVE  Kept(s, job'[p].date)
    <2>1. \/ \E r \in Stored : report[r].sym = s /\ report[r].day = job[p].date
          \/ <<s, job[p].date>> \in taken
      BY <1>2 DEF GeneratedIsStored, ReportsOf
    <2> QED BY <2>1, <1>1, <1>2, RowsKept
  <1>3. CASE job'[p] = job[p]
    BY <1>2, <1>3
  <1>4. CASE (\E t \in SymId : Look(p, t)) \/ Generate(p)
    <2>1. CASE Generate(p)
      <3>1. job'[p].done = job[p].done /\ job'[p].date = job[p].date
        BY <1>0, <2>1 DEF Generate, Job
      <3> QED BY <1>2, <3>1
    <2>2. ASSUME NEW t \in SymId, Look(p, t)
          PROVE  job'[p].done = job[p].done /\ job'[p].date = job[p].date
      BY <1>0, <2>2 DEF Look, Job
    <2> QED BY <1>2, <1>4, <2>1, <2>2
  <1>5. CASE StoreNew(p) \/ StoreOver(p)
    <2>1. /\ job'[p].done = job[p].done \cup {job[p].cur}
          /\ job'[p].date = job[p].date
      BY <1>0, <1>5 DEF StoreNew, StoreOver, Committed, Job
    <2>2. CASE s = job[p].cur /\ StoreNew(p)
      <3>1. NextId(Stored) \in RepId
        BY <2>2 DEF StoreNew
      <3> DEFINE new == [sym |-> job[p].cur, day |-> job[p].date,
                         about |-> job[p].seen[job[p].cur], by |-> p]
      <3>2. report'[NextId(Stored)] = new
        BY <2>2, <3>1 DEF StoreNew, TypeOK
      <3>3. new \in Report
        BY <2>2, <1>0 DEF StoreNew, JobInv, Job, Report
      <3>4. NextId(Stored) \in Stored'
        BY <3>1, <3>2, <3>3, ReportAssumption DEF Stored
      <3> QED BY <2>1, <2>2, <3>2, <3>4
    <2>3. CASE s = job[p].cur /\ StoreOver(p)
      <3>1. job[p].old \in Stored /\ job[p].pc = "store" /\ job[p].old # 0
        BY <2>3 DEF StoreOver, Stored, RepId
      <3>2. \/ report[job[p].old].sym = s /\ report[job[p].old].day = job'[p].date
            \/ <<s, job'[p].date>> \in taken
        BY <2>1, <2>3, <3>1 DEF TargetInv
      <3> QED BY <1>1, <3>1, <3>2, RowsKept
    <2>4. CASE s \in job[p].done
      BY <1>2, <2>1, <2>4
    <2> QED BY <1>5, <2>1, <2>2, <2>3, <2>4
  <1>6. CASE job'[p].done = {}
    BY <1>6
  <1>7. CASE job'[p].done = job[p].done /\ job'[p].date = job[p].date
    BY <1>2, <1>7
  <1> QED BY <1>3, <1>4, <1>5, <1>6, <1>7, JobSteps

\* Both hold throughout.
LEMMA InvariantStoreInv == Spec => []StoreInv
  <1>1. Init => StoreInv
    BY DEF Init, Idle, StoreInv, TargetInv, GeneratedIsStored
  <1>2. BatchInv /\ StoreInv /\ [Next]_vars => StoreInv'
    BY TargetInductive, CountInductive DEF StoreInv
  <1> QED BY <1>1, <1>2, InvariantBatchInv, PTL DEF Spec

\* Every symbol a batch counts as generated has its report of that day, unless a
\* deletion has taken it away: whatever batches race and fail.
THEOREM CountedIsStored == Spec => []GeneratedIsStored
  <1>1. StoreInv => GeneratedIsStored
    BY DEF StoreInv
  <1> QED BY <1>1, InvariantStoreInv, PTL

\* Batches that race each other replace a report only when told to, and only
\* their own symbol's of the day: unless a deletion took the report they had
\* found, and with it the meaning of its id.
THEOREM OnlyAskedOverwrites == Spec => NoSilentOverwrite
  <1>1. ASSUME BatchInv, StoreInv, [Next]_vars PROVE [OverwritesOwn]_vars
    <2> USE DEF BatchInv, StoreInv
    <2>1. ASSUME NEW r \in Stored, report'[r] \notin {report[r], NoReport}
          PROVE  LET by == job[report'[r].by]
                 IN  /\ by.over
                     /\ \/ by.cur = report[r].sym /\ by.date = report[r].day
                        \/ <<by.cur, by.date>> \in taken
      <3>1. PICK p \in Proc : StoreNew(p) \/ StoreOver(p) \/ DeleteCommit(p)
        BY <1>1, <2>1
        DEF Next, Advance, Scheduled, Requested, Start, Load, Skip, Look, Generate,
            NoAnswer, Conflict, Broken, Caught, Vanished, Finish, Crash, Register,
            DeleteLoad, BecomesDue, Midnight, vars
      <3>2. CASE StoreNew(p)
        <4>1. NextId(Stored) \notin Stored
          <5>1. Stored \in SUBSET (1..MaxReport)
            BY DEF Stored, RepId
          <5> QED BY <5>1, FreshId, BoundAssumption
        <4>2. r \in RepId /\ report \in [RepId -> Report \cup {NoReport}]
          BY <1>1 DEF Stored, TypeOK
        <4> QED BY <2>1, <3>2, <4>1, <4>2 DEF StoreNew
      <3>3. CASE StoreOver(p)
        <4>1. /\ job[p].old \in Stored /\ job[p].pc = "store" /\ job[p].old # 0
              /\ report[job[p].old] \in Report
          BY <1>1, <3>3 DEF StoreOver, Stored, RepId, TypeOK
        <4>2. r = job[p].old /\ report'[r].by = p
          BY <1>1, <2>1, <3>3, <4>1 DEF StoreOver, Stored, TypeOK, Report
        <4>3. job[p].over
          BY <1>1, <4>1 DEF JobInv
        <4>4. \/ report[r].sym = job[p].cur /\ report[r].day = job[p].date
              \/ <<job[p].cur, job[p].date>> \in taken
          BY <1>1, <4>1, <4>2 DEF TargetInv
        <4> QED BY <4>2, <4>3, <4>4
      <3>4. CASE DeleteCommit(p)
        BY <2>1, <3>4 DEF DeleteCommit, Stored
      <3> QED BY <3>1, <3>2, <3>3, <3>4
    <2> QED BY <2>1 DEF OverwritesOwn
  <1> QED
    BY <1>1, InvariantBatchInv, InvariantStoreInv, PTL DEF Spec, NoSilentOverwrite

-----------------------------------------------------------------------------
(* What cuts a batch short. *)

\* A symbol is still to be done until its report is stored or given up: also
\* while a failure is being handled.
CurrentLeft(p) ==
  job[p].pc \in {"generate", "store", "caught"} => job[p].cur \in job[p].left

CurrentInv == \A p \in Proc : CurrentLeft(p)

\* A step of process p keeps it.
LEMMA StepCurrent ==
  ASSUME TypeOK, CurrentInv, NEW p \in Proc,
         \/ Load(p)
         \/ \E s \in SymId : Skip(p, s) \/ Look(p, s)
         \/ Generate(p) \/ NoAnswer(p) \/ Conflict(p) \/ Broken(p) \/ Caught(p)
         \/ StoreNew(p) \/ StoreOver(p)
  PROVE  CurrentInv'
  <1>0. job \in [Proc -> Job] /\ job[p] \in Job /\ CurrentLeft(p)
    BY DEF TypeOK, CurrentInv
  <1> SUFFICES CurrentLeft(p)'
    BY BatchKeeps DEF CurrentInv, CurrentLeft
  <1>1. CASE Load(p)
    BY <1>0, <1>1 DEF Load, Job, CurrentLeft
  <1>2. ASSUME NEW s \in SymId, Skip(p, s) PROVE CurrentLeft(p)'
    BY <1>0, <1>2 DEF Skip, Job, CurrentLeft
  <1>3. ASSUME NEW s \in SymId, Look(p, s) PROVE CurrentLeft(p)'
    BY <1>0, <1>3 DEF Look, Job, CurrentLeft
  <1>4. CASE Generate(p) \/ NoAnswer(p)
    BY <1>0, <1>4 DEF Generate, NoAnswer, Job, CurrentLeft
  <1>5. CASE Conflict(p) \/ Broken(p)
    BY <1>0, <1>5 DEF Conflict, Broken, Job, CurrentLeft
  <1>6. CASE Caught(p)
    BY <1>0, <1>6 DEF Caught, Job, CurrentLeft
  <1>7. CASE StoreNew(p) \/ StoreOver(p)
    <2>1. Committed(p)
      BY <1>7 DEF StoreNew, StoreOver
    <2> QED BY <1>0, <2>1 DEF Committed, Job, CurrentLeft
  <1> QED BY <1>1, <1>2, <1>3, <1>4, <1>5, <1>6, <1>7

\* So does every step.
LEMMA CurrentInductive ==
  ASSUME TypeOK, CurrentInv, [Next]_vars PROVE CurrentInv'
  <1>0. job \in [Proc -> Job]
    BY DEF TypeOK
  <1>1. ASSUME NEW p \in Proc, NEW j, job' = [job EXCEPT ![p] = j],
               j.pc \notin {"generate", "store", "caught"}
        PROVE  CurrentInv'
    BY <1>0, <1>1 DEF CurrentInv, CurrentLeft
  <1>2. ASSUME NEW p \in Proc, NEW ids, NEW over, Start(p, ids, over)
        PROVE  CurrentInv'
    <2>1. PICK j : j = [Idle EXCEPT !.pc = "load", !.date = today,
                                    !.over = over, !.left = ids]
      OBVIOUS
    <2>2. job' = [job EXCEPT ![p] = j] /\ j.pc = "load"
      BY <1>2, <2>1 DEF Start, Idle
    <2> QED BY <1>1, <2>2
  <1>3. ASSUME NEW p \in Proc, NEW s, DeleteLoad(p, s) PROVE CurrentInv'
    <2>1. PICK j : j = [Idle EXCEPT !.pc = "delete", !.cur = s,
                                    !.doomed = {r \in Stored : report[r].sym = s}]
      OBVIOUS
    <2>2. job' = [job EXCEPT ![p] = j] /\ j.pc = "delete"
      BY <1>3, <2>1 DEF DeleteLoad, Idle
    <2> QED BY <1>1, <2>2
  <1>4. ASSUME NEW p \in Proc, Vanished(p) \/ Finish(p) \/ DeleteCommit(p)
        PROVE  CurrentInv'
    <2>1. job' = [job EXCEPT ![p] = Idle]
      BY <1>4 DEF Vanished, Finish, DeleteCommit
    <2> QED BY <1>1, <2>1, IdleType
  <1>5. ASSUME NEW ps, Crash(ps) PROVE CurrentInv'
    <2>1. \A p \in Proc : job'[p] \in {Idle, job[p]}
      BY <1>5 DEF Crash
    <2> QED BY <2>1, IdleType DEF CurrentInv, CurrentLeft
  <1>6. CASE UNCHANGED job
    BY <1>6 DEF CurrentInv, CurrentLeft
  <1>7. Worker \in Proc /\ Request \subseteq Proc
    BY DEF Proc
  <1>8. CASE Scheduled \/ \E p \in Request : Requested(p)
    BY <1>2, <1>7, <1>8 DEF Scheduled, Requested
  <1>9. CASE \E p \in Proc : Advance(p) \/ NoAnswer(p) \/ Broken(p)
    BY <1>4, <1>9, StepCurrent DEF Advance
  <1>10. CASE Register \/ BecomesDue \/ Midnight \/ UNCHANGED vars
    BY <1>6, <1>10 DEF Register, BecomesDue, Midnight, vars
  <1> QED BY <1>3, <1>5, <1>7, <1>8, <1>9, <1>10 DEF Next

\* Only a symbol deleted while it was still to be done, or the death of its
\* process, cuts a batch short: no failed generation, lost race or failed commit
\* does, in whatever order the batch takes its symbols.
THEOREM OnlyDeletionCutsShort == Spec => AbortedByDeletion
  <1>1. Init => CurrentInv
    BY IdleType DEF Init, CurrentInv, CurrentLeft
  <1>2. TypeOK /\ CurrentInv /\ [Next]_vars => CurrentInv'
    BY CurrentInductive
  <1>3. ASSUME TypeOK, CurrentInv, [Next]_vars PROVE [OnlyDeletionAborts]_vars
    <2> SUFFICES ASSUME Next, NEW p \in Proc, job[p].pc \notin {"idle", "delete"},
                        job'[p].pc = "idle", faults' = faults
                 PROVE  job[p].left = {} \/ job[p].left \ Registered # {}
      BY <1>3 DEF OnlyDeletionAborts
    <2> DEFINE Goal == job[p].left = {} \/ job[p].left \ Registered # {}
    <2>0. /\ job \in [Proc -> Job] /\ job[p] \in Job /\ faults \in Nat
          /\ job'[p] # job[p] /\ CurrentLeft(p)
      BY <1>3 DEF TypeOK, CurrentInv
    <2>1. ~Fault
      BY <2>0 DEF Fault
    <2>2. ASSUME NEW q \in Proc, NEW ids, NEW over, Start(q, ids, over) PROVE Goal
      BY <2>0, <2>2 DEF Start
    <2>3. ASSUME NEW q \in Proc,
                 \/ Load(q)
                 \/ \E s \in SymId : Skip(q, s) \/ Look(q, s)
                 \/ Generate(q) \/ Conflict(q) \/ Caught(q)
                 \/ StoreNew(q) \/ StoreOver(q)
          PROVE  Goal
      BY <1>3, <2>0, <2>3, BatchKeeps
    <2>4. ASSUME NEW q \in Proc, Finish(q) PROVE Goal
      BY <2>0, <2>4 DEF Finish
    <2>5. ASSUME NEW q \in Proc, Vanished(q) PROVE Goal
      <3>1. q = p
        BY <2>0, <2>5 DEF Vanished
      <3>2. ASSUME NEW s \in job[p].left, Touch(p, s) = NoCompany PROVE Goal
        BY <3>2 DEF Touch, Registered
      <3>3. CASE job[p].pc = "caught" /\ symbol[job[p].cur] = NoCompany
        BY <2>0, <3>3 DEF CurrentLeft, Registered
      <3> QED BY <2>5, <3>1, <3>2, <3>3 DEF Vanished
    <2>6. ASSUME NEW q \in Proc, DeleteCommit(q) PROVE Goal
      BY <2>0, <2>6 DEF DeleteCommit
    <2>7. ASSUME NEW q \in Proc, NEW s, DeleteLoad(q, s) PROVE Goal
      BY <2>0, <2>7 DEF DeleteLoad
    <2>8. CASE Register \/ BecomesDue \/ Midnight
      BY <2>0, <2>8 DEF Register, BecomesDue, Midnight
    <2>9. Worker \in Proc /\ Request \subseteq Proc
      BY DEF Proc
    <2>10. CASE Scheduled \/ \E q \in Request : Requested(q)
      BY <2>2, <2>9, <2>10 DEF Scheduled, Requested
    <2>11. CASE \E q \in Proc : Advance(q)
      BY <2>3, <2>4, <2>5, <2>6, <2>11 DEF Advance
    <2> QED
      BY <2>1, <2>7, <2>8, <2>9, <2>10, <2>11 DEF Next, NoAnswer, Broken, Crash
  <1> QED BY <1>1, <1>2, <1>3, ReportTyping, PTL DEF Spec, AbortedByDeletion

=============================================================================
