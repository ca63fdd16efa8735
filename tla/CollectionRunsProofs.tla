------------------------ MODULE CollectionRunsProofs ------------------------
(***************************************************************************)
(* Theorems about CollectionRuns, for every set of requests and runs,      *)
(* every plan and every value of the time limits.                          *)
(***************************************************************************)
EXTENDS CollectionRuns, TLAPS

\* Leaving resets the process and touches nothing else.
LEMMA LeaveType ==
  ASSUME TypeOK, NEW ps \in SUBSET Proc, Leave(ps)
  PROVE  /\ pc' \in [Proc -> {"idle", "reclaim", "insert", "work", "commit",
                              "record", "standalone"}]
         /\ run' \in [Proc -> RunId \cup {NoRun}]
         /\ stale' \in [Proc -> SUBSET RunId]
         /\ todo' \in [Proc -> SUBSET Step]
         /\ pending' \in [Proc -> SUBSET Step]
         /\ bad' \in [Proc -> BOOLEAN]
  BY DEF TypeOK, Leave

\* A fault stays within its budget.
LEMMA FaultType == ASSUME TypeOK, Fault PROVE faults' \in 0..MaxFaults
  BY TimeAssumption DEF TypeOK, Fault

\* Settling a row keeps the table well typed.
LEMMA SettleType ==
  ASSUME TypeOK, NEW r, NEW status \in Status,
         row' = [row EXCEPT ![r].status = status]
  PROVE  row' \in [RunId -> Row]
  BY DEF TypeOK, Row

\* A fresh row is a row.
LEMMA StartedType ==
  ASSUME NEW plan \in SUBSET Step PROVE Started(plan) \in Row
  BY TimeAssumption DEF Started, Row, Status

\* The table, the sessions of the processes and the fault budget stay well
\* typed in every behaviour.
THEOREM Typing == Spec => []TypeOK
<1>1. Init => TypeOK
  BY TimeAssumption DEF Init, TypeOK, Absent, Row, Status
<1>2. TypeOK /\ [Next]_vars => TypeOK'
  <2> SUFFICES ASSUME TypeOK, [Next]_vars PROVE TypeOK'
    OBVIOUS
  <2>1. ASSUME NEW p \in Proc, Begins(p) PROVE TypeOK'
    <3>1. PICK plan \in SUBSET Step : Begin(p, plan)
      BY <2>1, PlanAssumption DEF Begins
    <3>2. StaleRows \in SUBSET RunId
      BY DEF StaleRows, RunId
    <3> QED BY <3>1, <3>2 DEF Begin, TypeOK
  <2>2. ASSUME NEW p \in Proc, Reclaim(p) PROVE TypeOK'
    <3>1. row' \in [RunId -> Row]
      BY <2>2 DEF Reclaim, TypeOK, Row, Status
    <3> QED BY <2>2, <3>1 DEF Reclaim, TypeOK
  <2>3. ASSUME NEW p \in Proc, NEW r \in Unified, Enter(p, r) PROVE TypeOK'
    <3>1. Started(todo[p]) \in Row
      BY StartedType DEF TypeOK
    <3> QED BY <2>3, <3>1 DEF Enter, TypeOK, RunId
  <2>4. ASSUME NEW p \in Proc, Rejected(p) PROVE TypeOK'
    BY <2>4, LeaveType DEF Rejected, TypeOK
  <2>5. ASSUME NEW p \in Proc, NotStarted(p) PROVE TypeOK'
    BY <2>5, LeaveType, FaultType DEF NotStarted, TypeOK
  <2>6. ASSUME NEW p \in Proc, DoStep(p) PROVE TypeOK'
    BY <2>6 DEF DoStep, TypeOK
  <2>7. ASSUME NEW p \in Proc, CommitStep(p) PROVE TypeOK'
    <3>1. row' \in [RunId -> Row]
      BY <2>7 DEF CommitStep, TypeOK, Row
    <3> QED BY <2>7, <3>1 DEF CommitStep, TypeOK
  <2>8. ASSUME NEW p \in Proc, StepError(p) PROVE TypeOK'
    BY <2>8 DEF StepError, TypeOK
  <2>9. ASSUME NEW p \in Proc, Unexpected(p) PROVE TypeOK'
    BY <2>9 DEF Unexpected, TypeOK
  <2>10. ASSUME NEW p \in Proc, Finish(p) PROVE TypeOK'
    BY <2>10, LeaveType, SettleType DEF Finish, TypeOK, Status
  <2>11. ASSUME NEW p \in Proc, RecordFailure(p) PROVE TypeOK'
    BY <2>11, LeaveType, SettleType DEF RecordFailure, TypeOK, Status
  <2>12. ASSUME NEW p \in Proc, FinishStandalone(p) PROVE TypeOK'
    BY <2>12, LeaveType, SettleType DEF FinishStandalone, TypeOK, Status
  <2>13. ASSUME NEW p \in Request, NEW r \in Standalone, StartStandalone(p, r)
         PROVE TypeOK'
    <3>1. Started({}) \in Row
      BY StartedType
    <3> QED BY <2>13, <3>1 DEF StartStandalone, TypeOK, RunId, Proc
  <2>14. ASSUME NEW p \in Proc, FailureLost(p) PROVE TypeOK'
    BY <2>14, LeaveType, FaultType DEF FailureLost, TypeOK
  <2>15. ASSUME NEW ps \in SUBSET Proc, Crash(ps) PROVE TypeOK'
    BY <2>15, LeaveType, FaultType DEF Crash, TypeOK
  <2>16. CASE Tick
    <3>1. row' \in [RunId -> Row]
      BY <2>16, TimeAssumption DEF Tick, TypeOK, Row
    <3> QED BY <2>16, <3>1 DEF Tick, TypeOK
  <2>17. CASE UNCHANGED vars
    BY <2>17 DEF vars, TypeOK
  <2> QED
    BY <2>1, <2>2, <2>3, <2>4, <2>5, <2>6, <2>7, <2>8, <2>9, <2>10, <2>11,
       <2>12, <2>13, <2>14, <2>15, <2>16, <2>17 DEF Next, Advance, Proc
<1> QED
  BY <1>1, <1>2, PTL DEF Spec

-----------------------------------------------------------------------------
(* Mutual exclusion of the collections that are not overdue. *)

\* A settled, fresh or older row is what each step makes of the table.
LEMMA SettleRow ==
  ASSUME TypeOK, NEW s \in RunId, NEW status,
         row' = [row EXCEPT ![s].status = status]
  PROVE  \A r \in RunId : /\ row'[r].age = row[r].age
                          /\ r # s => row'[r] = row[r]
                          /\ r = s => row'[r].status = status
  BY DEF TypeOK, Row

\* Process by process, what leaving does.
LEMMA LeaveSession ==
  ASSUME TypeOK, NEW ps \in SUBSET Proc, Leave(ps)
  PROVE  \A p \in Proc :
           /\ p \in ps => pc'[p] = "idle" /\ run'[p] = NoRun /\ stale'[p] = {}
           /\ p \notin ps => /\ pc'[p] = pc[p]
                            /\ run'[p] = run[p]
                            /\ stale'[p] = stale[p]
  BY DEF TypeOK, Leave

\* Leaving without touching the table keeps the invariant.
LEMMA LeaveKeeps ==
  ASSUME IInv, TypeOK', NEW ps \in SUBSET Proc, Leave(ps), row' = row
  PROVE  IInv'
  <1>1. SessionInv'
    BY LeaveSession DEF IInv, SessionInv, Collecting, Running, Overdue
  <1>2. OwnerInv'
    BY LeaveSession DEF IInv, OwnerInv
  <1>3. OneRunningRow'
    BY DEF IInv, OneRunningRow, Running
  <1>4. StaleInv'
    BY LeaveSession DEF IInv, StaleInv
  <1> QED BY <1>1, <1>2, <1>3, <1>4 DEF IInv

\* The process of a run settles its row and leaves.
LEMMA SettleKeeps ==
  ASSUME IInv, TypeOK', NEW p \in Proc, NEW status \in {"success", "failed"},
         Collecting(p) \/ pc[p] = "standalone",
         row' = [row EXCEPT ![run[p]].status = status], Leave({p})
  PROVE  IInv'
  <1>1. run[p] \in RunId /\ run[p] # NoRun
    BY RunAssumption DEF IInv, SessionInv, RunId
  <1>2. \A r \in RunId : /\ row'[r].age = row[r].age
                         /\ r # run[p] => row'[r] = row[r]
                         /\ r = run[p] => row'[r].status = status
    BY <1>1, SettleRow DEF IInv
  <1>3. \A q \in Proc : /\ q = p => run'[q] = NoRun /\ stale'[q] = {}
                                      /\ pc'[q] = "idle"
                        /\ q # p => /\ pc'[q] = pc[q]
                                    /\ run'[q] = run[q]
                                    /\ stale'[q] = stale[q]
    BY LeaveSession DEF IInv
  <1>4. \A q \in Proc : q # p => run[q] # run[p]
    BY <1>1 DEF IInv, OwnerInv
  <1>5. SessionInv'
    BY <1>2, <1>3, <1>4 DEF IInv, SessionInv, Collecting, Running, Overdue, RunId
  <1>6. OwnerInv'
    BY <1>3 DEF IInv, OwnerInv
  <1>7. OneRunningRow'
    BY <1>2 DEF IInv, OneRunningRow, Running, RunId
  <1>8. StaleInv'
    BY <1>2, <1>3 DEF IInv, StaleInv, RunId
  <1> QED BY <1>5, <1>6, <1>7, <1>8 DEF IInv

\* The row a collection starts, or a standalone run starts, disturbs nobody.
LEMMA StartKeeps ==
  ASSUME IInv, TypeOK', NEW p \in Proc, NEW r \in RunId, NEW plan \in SUBSET Step,
         pc[p] \in {"idle", "insert"}, Unused(r),
         row' = [row EXCEPT ![r] = Started(plan)],
         run' = [run EXCEPT ![p] = r],
         stale' = stale,
         \/ /\ pc' = [pc EXCEPT ![p] = "work"]
            /\ r \in Unified
            /\ ~SlotTaken
         \/ /\ pc' = [pc EXCEPT ![p] = "standalone"]
            /\ r \in Standalone
  PROVE  IInv'
  <1>1. /\ row'[r] = Started(plan)
        /\ \A s \in RunId : s # r => row'[s] = row[s]
    BY DEF IInv, TypeOK
  <1>2. /\ run'[p] = r
        /\ \A q \in Proc : q # p => run'[q] = run[q] /\ pc'[q] = pc[q]
    BY DEF IInv, TypeOK
  <1>3. \A q \in Proc : run[q] # r /\ r \notin stale[q]
    BY DEF Unused
  <1>4. Running(r)' /\ row'[r].age = 0
    BY <1>1 DEF Started, Running
  <1>5. SessionInv'
    <2>1. ASSUME NEW q \in Proc, q # p
          PROVE  /\ Collecting(q)' => /\ run'[q] \in Unified
                                      /\ Running(run[q])' \/ Overdue(run[q])'
                 /\ pc'[q] = "standalone" => run'[q] \in Standalone
                                             /\ Running(run[q])'
                 /\ run'[q] # NoRun => Collecting(q)' \/ pc'[q] = "standalone"
      BY <2>1, <1>1, <1>2, <1>3
      DEF IInv, SessionInv, Collecting, Running, Overdue, RunId
    <2>2. /\ Collecting(p)' => run'[p] \in Unified /\ Running(run[p])'
          /\ pc'[p] = "standalone" => run'[p] \in Standalone /\ Running(run[p])'
          /\ Collecting(p)' \/ pc'[p] = "standalone"
      <3>1. \/ pc'[p] = "work" /\ r \in Unified
            \/ pc'[p] = "standalone" /\ r \in Standalone
        BY DEF IInv, TypeOK
      <3> QED BY <3>1, <1>2, <1>4 DEF Collecting, Running
    <2> QED BY <2>1, <2>2 DEF SessionInv, Running, Overdue
  <1>6. OwnerInv'
    BY <1>2, <1>3 DEF IInv, OwnerInv
  <1>7. OneRunningRow'
    BY <1>1, RunAssumption DEF IInv, OneRunningRow, SlotTaken, Running, RunId
  <1>8. StaleInv'
    BY <1>1, <1>3 DEF IInv, StaleInv, RunId
  <1> QED BY <1>5, <1>6, <1>7, <1>8 DEF IInv

\* The sessions advance inside their runs.
LEMMA WorkKeeps ==
  ASSUME IInv, TypeOK', NEW p \in Proc,
         pc[p] \in {"work", "commit"},
         pc' \in {[pc EXCEPT ![p] = c] : c \in {"work", "commit", "record"}},
         run' = run, stale' = stale,
         \A r \in RunId : row'[r].age = row[r].age /\ row'[r].status = row[r].status
  PROVE  IInv'
  <1>1. /\ Collecting(p) /\ Collecting(p)' /\ pc'[p] # "standalone"
        /\ \A q \in Proc : q # p => pc'[q] = pc[q]
    BY DEF IInv, TypeOK, Collecting
  <1>2. SessionInv'
    BY <1>1 DEF IInv, SessionInv, Collecting, Running, Overdue, RunId
  <1>3. OwnerInv' /\ OneRunningRow'
    BY DEF IInv, OwnerInv, OneRunningRow, Running, RunId
  <1>4. StaleInv'
    BY DEF IInv, StaleInv, RunId
  <1> QED BY <1>2, <1>3, <1>4 DEF IInv

\* Failing the rows loaded as stale hits no live run, or an overdue one.
LEMMA ReclaimKeeps ==
  ASSUME IInv, TypeOK', NEW p \in Proc, Reclaim(p)
  PROVE  IInv'
  <1>1. \A r \in RunId : /\ row'[r].age = row[r].age
                         /\ r \in stale[p] => row'[r].status = "failed"
                         /\ r \notin stale[p] => row'[r] = row[r]
    BY DEF IInv, TypeOK, Row, Reclaim
  <1>2. \A q \in Proc : /\ q = p => pc'[q] = "insert" /\ stale'[q] = {}
                                      /\ run'[q] = run[q]
                        /\ q # p => /\ pc'[q] = pc[q]
                                    /\ run'[q] = run[q]
                                    /\ stale'[q] = stale[q]
    BY DEF IInv, TypeOK, Reclaim
  <1>3. \A r \in stale[p] : r \in Unified /\ Overdue(r)
    BY DEF IInv, StaleInv, Overdue
  <1>4. SessionInv'
    <2>1. pc[p] = "reclaim"
      BY DEF Reclaim
    <2>2. run[p] = NoRun /\ ~Collecting(p)' /\ pc'[p] # "standalone"
      BY <2>1, <1>2 DEF IInv, SessionInv, Collecting
    <2>3. ASSUME NEW q \in Proc, q # p
          PROVE  /\ Collecting(q)' => /\ run'[q] \in Unified
                                      /\ Running(run[q])' \/ Overdue(run[q])'
                 /\ pc'[q] = "standalone" => run'[q] \in Standalone
                                             /\ Running(run[q])'
                 /\ run'[q] # NoRun => Collecting(q)' \/ pc'[q] = "standalone"
      BY <2>3, <1>1, <1>2, <1>3, RunAssumption
      DEF IInv, SessionInv, Collecting, Running, Overdue, RunId
    <2> QED BY <2>2, <2>3, <1>2 DEF SessionInv, Running, Overdue
  <1>5. OwnerInv'
    BY <1>2 DEF IInv, OwnerInv
  <1>6. OneRunningRow'
    BY <1>1 DEF IInv, OneRunningRow, Running, RunId
  <1>7. StaleInv'
    BY <1>1, <1>2 DEF IInv, StaleInv, RunId
  <1> QED BY <1>4, <1>5, <1>6, <1>7 DEF IInv

\* Rows only grow older: what is overdue stays so.
LEMMA TickKeeps ==
  ASSUME IInv, TypeOK', Tick
  PROVE  IInv'
  <1>1. \A r \in RunId : /\ row'[r].status = row[r].status
                         /\ row'[r].age >= row[r].age
                         /\ row'[r].age <= row[r].age + 1
                         /\ row[r].age \in Nat
    BY TimeAssumption DEF IInv, TypeOK, Row, Tick
  <1>2. pc' = pc /\ run' = run /\ stale' = stale
    BY DEF Tick
  <1>3. \A r \in RunId : /\ Running(r)' = Running(r)
                         /\ row[r].age > StaleAfter => row'[r].age > StaleAfter
    <2> SUFFICES ASSUME NEW r \in RunId, row[r].age > StaleAfter
                 PROVE  row'[r].age > StaleAfter
      BY <1>1 DEF Running
    <2>1. row'[r].age \in Nat /\ row[r].age \in Nat
      BY DEF IInv, TypeOK, Row
    <2> QED BY <1>1, <2>1, TimeAssumption
  <1>4. SessionInv'
    <2>1. \A p \in Proc : run[p] # NoRun => run[p] \in RunId
      BY DEF IInv, TypeOK
    <2>2. \A p \in Proc : Collecting(p)' = Collecting(p)
      BY <1>2 DEF Collecting
    <2> QED
      BY <1>2, <1>3, <2>1, <2>2, RunAssumption
      DEF IInv, SessionInv, Overdue, Running, RunId
  <1>5. OwnerInv' /\ OneRunningRow'
    BY <1>1, <1>2 DEF IInv, OwnerInv, OneRunningRow, Running, RunId
  <1>6. StaleInv'
    BY <1>1, <1>2, <1>3 DEF IInv, StaleInv, RunId
  <1> QED BY <1>4, <1>5, <1>6 DEF IInv

\* Loading the stale rows touches no session and no row.
LEMMA BeginKeeps ==
  ASSUME IInv, TypeOK', NEW p \in Proc, Begins(p)
  PROVE  IInv'
  <1>1. PICK plan : Begin(p, plan)
    BY DEF Begins
  <1>2. \A q \in Proc : /\ q = p => /\ pc'[q] \in {"insert", "reclaim"}
                                    /\ stale'[q] = StaleRows
                        /\ q # p => pc'[q] = pc[q] /\ stale'[q] = stale[q]
    BY <1>1 DEF IInv, TypeOK, Begin
  <1>3. row' = row /\ run' = run /\ pc[p] = "idle"
    BY <1>1 DEF Begin
  <1>4. run[p] = NoRun
    BY <1>3 DEF IInv, SessionInv, Collecting
  <1>5. SessionInv'
    BY <1>2, <1>3, <1>4 DEF IInv, SessionInv, Collecting, Running, Overdue
  <1>6. OwnerInv' /\ OneRunningRow'
    BY <1>3 DEF IInv, OwnerInv, OneRunningRow, Running
  <1>7. StaleInv'
    BY <1>2, <1>3 DEF IInv, StaleInv, StaleRows, Running
  <1> QED BY <1>5, <1>6, <1>7 DEF IInv

\* The strengthened invariant is inductive, however long collections take: one
\* step per action of the model.
THEOREM Inductive ==
  ASSUME IInv, TypeOK', [Next]_vars
  PROVE  IInv'
  <1>1. ASSUME NEW p \in Proc, Begins(p) PROVE IInv'
    BY <1>1, BeginKeeps
  <1>2. ASSUME NEW p \in Proc, Reclaim(p) PROVE IInv'
    BY <1>2, ReclaimKeeps
  <1>3. ASSUME NEW p \in Proc, NEW r \in Unified, Enter(p, r) PROVE IInv'
    <2>1. todo[p] \in SUBSET Step /\ r \in RunId
      BY DEF IInv, TypeOK, RunId
    <2> QED BY <1>3, <2>1, StartKeeps DEF Enter
  <1>4. ASSUME NEW p \in Proc, Rejected(p) PROVE IInv'
    BY <1>4, LeaveKeeps DEF Rejected
  <1>5. ASSUME NEW p \in Proc, NotStarted(p) PROVE IInv'
    BY <1>5, LeaveKeeps DEF NotStarted
  <1>6. ASSUME NEW p \in Proc, DoStep(p) PROVE IInv'
    BY <1>6, WorkKeeps DEF DoStep
  <1>7. ASSUME NEW p \in Proc, CommitStep(p) PROVE IInv'
    <2>1. \A r \in RunId : row'[r].age = row[r].age /\ row'[r].status = row[r].status
      BY <1>7 DEF CommitStep, IInv, TypeOK, Row
    <2> QED BY <1>7, <2>1, WorkKeeps DEF CommitStep
  <1>8. ASSUME NEW p \in Proc, StepError(p) PROVE IInv'
    <2>1. pc' = [pc EXCEPT ![p] = "work"]
      BY <1>8 DEF StepError, IInv, TypeOK
    <2> QED BY <1>8, <2>1, WorkKeeps DEF StepError
  <1>9. ASSUME NEW p \in Proc, Unexpected(p) PROVE IInv'
    BY <1>9, WorkKeeps DEF Unexpected
  <1>10. ASSUME NEW p \in Proc, Finish(p) PROVE IInv'
    BY <1>10, SettleKeeps DEF Finish, Collecting
  <1>11. ASSUME NEW p \in Proc, RecordFailure(p) PROVE IInv'
    BY <1>11, SettleKeeps DEF RecordFailure, Collecting
  <1>12. ASSUME NEW p \in Proc, FinishStandalone(p) PROVE IInv'
    BY <1>12, SettleKeeps DEF FinishStandalone
  <1>13. ASSUME NEW p \in Request, NEW r \in Standalone, StartStandalone(p, r)
         PROVE IInv'
    <2>1. {} \in SUBSET Step /\ r \in RunId /\ p \in Proc
      BY DEF RunId, Proc
    <2> QED BY <1>13, <2>1, StartKeeps DEF StartStandalone
  <1>14. ASSUME NEW p \in Proc, FailureLost(p) PROVE IInv'
    BY <1>14, LeaveKeeps DEF FailureLost
  <1>15. ASSUME NEW ps \in SUBSET Proc, Crash(ps) PROVE IInv'
    BY <1>15, LeaveKeeps DEF Crash
  <1>16. CASE Tick
    BY <1>16, TickKeeps
  <1>17. CASE UNCHANGED vars
    BY <1>17 DEF vars, IInv, SessionInv, OwnerInv, OneRunningRow, StaleInv,
                 Collecting, Running, Overdue
  <1> QED
    BY <1>1, <1>2, <1>3, <1>4, <1>5, <1>6, <1>7, <1>8, <1>9, <1>10, <1>11,
       <1>12, <1>13, <1>14, <1>15, <1>16, <1>17 DEF Next, Advance, Proc

\* It holds of an empty table.
LEMMA InitIInv == Init => IInv
  <1> SUFFICES ASSUME Init PROVE IInv
    OBVIOUS
  <1>1. TypeOK
    BY TimeAssumption DEF Init, TypeOK, Absent, Row, Status
  <1> QED
    BY <1>1 DEF Init, IInv, SessionInv, OwnerInv, OneRunningRow, StaleInv,
                Collecting, Running, Absent, RunId

\* Hence it holds of every reachable state.
LEMMA InvariantIInv == Spec => []IInv
  <1>1. IInv /\ TypeOK' /\ [Next]_vars => IInv'
    BY Inductive
  <1> QED BY <1>1, InitIInv, Typing, PTL DEF Spec

\* Two processes never collect at once, unless one of them has outlasted the
\* stale threshold: whatever crashes, reclaims and failed writes happen.
THEOREM MutualExclusion == Spec => []OneLiveCollection
  <1>1. IInv => OneLiveCollection
    BY RunAssumption
    DEF IInv, SessionInv, OwnerInv, OneRunningRow, OneLiveCollection, RunId
  <1> QED BY <1>1, InvariantIInv, PTL

\* What one step of the table can do to a settled row, and to a row whose
\* process is executing it.
LEMMA StepSettles ==
  ASSUME IInv, [Next]_vars
  PROVE  StatusStable /\ OwnerSettles
  <1> USE DEF StatusStable, OwnerSettles, Running
  <1>1. ASSUME row' = row PROVE StatusStable /\ OwnerSettles
    BY <1>1
  <1>2. ASSUME \A r \in RunId : row'[r].status = row[r].status
        PROVE  StatusStable /\ OwnerSettles
    BY <1>2 DEF IInv, TypeOK
  <1>3. ASSUME NEW p \in Proc, Reclaim(p) PROVE StatusStable /\ OwnerSettles
    <2>2. \A r \in RunId : /\ r \in stale[p] => row'[r].status = "failed"
                           /\ r \notin stale[p] => row'[r] = row[r]
      BY <1>3 DEF IInv, TypeOK, Row, Reclaim
    <2>3. \A r \in stale[p] : Overdue(r)
      BY DEF IInv, StaleInv, Overdue
    <2>4. StatusStable
      BY <2>2, <2>3
    <2>5. OwnerSettles
      BY <2>2, <2>3 DEF IInv, TypeOK
    <2> QED BY <2>4, <2>5
  <1>4. ASSUME NEW p \in Proc, NEW r \in RunId, NEW plan,
               Unused(r), row' = [row EXCEPT ![r] = Started(plan)]
        PROVE  StatusStable /\ OwnerSettles
    <2>1. /\ row'[r].status = "running"
          /\ \A s \in RunId : s # r => row'[s] = row[s]
      BY <1>4 DEF IInv, TypeOK, Started
    <2> QED BY <2>1 DEF IInv, TypeOK
  <1>5. ASSUME NEW p \in Proc, NEW status, pc[p] # "idle",
               Collecting(p) \/ pc[p] = "standalone",
               row' = [row EXCEPT ![run[p]].status = status], Leave({p})
        PROVE  StatusStable /\ OwnerSettles
    <2>1. /\ run[p] \in RunId /\ run[p] # NoRun
          /\ row[run[p]].status = "running" \/ Overdue(run[p])
      BY <1>5, RunAssumption DEF IInv, SessionInv, RunId
    <2>2. \A r \in RunId : r # run[p] => row'[r] = row[r]
      BY <1>5, <2>1 DEF IInv, TypeOK
    <2>3. \A q \in Proc : q # p => run[q] # run[p]
      BY <2>1 DEF IInv, OwnerInv
    <2>4. run'[p] = NoRun
      BY <1>5, LeaveSession DEF IInv
    <2> QED BY <2>1, <2>2, <2>3, <2>4 DEF IInv, TypeOK
  <1>6. ASSUME NEW p \in Proc, CommitStep(p) PROVE StatusStable /\ OwnerSettles
    <2>1. \A r \in RunId : row'[r].status = row[r].status
      BY <1>6 DEF CommitStep, IInv, TypeOK, Row
    <2> QED BY <1>2, <2>1
  <1>7. ASSUME Tick PROVE StatusStable /\ OwnerSettles
    <2>1. \A r \in RunId : row'[r].status = row[r].status
      BY <1>7 DEF Tick, IInv, TypeOK, Row
    <2> QED BY <1>2, <2>1
  <1>8. ASSUME NEW p \in Proc, Advance(p) PROVE StatusStable /\ OwnerSettles
    <2>1. ASSUME NEW r \in Unified, Enter(p, r)
          PROVE  StatusStable /\ OwnerSettles
      BY <1>4, <2>1 DEF Enter, RunId
    <2>2. CASE Rejected(p) \/ DoStep(p) \/ StepError(p) \/ Unexpected(p)
      BY <1>1, <2>2 DEF Rejected, DoStep, StepError, Unexpected
    <2>3. CASE Finish(p)
      BY <1>5, <2>3 DEF Finish, Collecting
    <2>4. CASE RecordFailure(p)
      BY <1>5, <2>4 DEF RecordFailure, Collecting
    <2>5. CASE FinishStandalone(p)
      BY <1>5, <2>5 DEF FinishStandalone
    <2> QED BY <1>3, <1>6, <1>8, <2>1, <2>2, <2>3, <2>4, <2>5 DEF Advance
  <1>9. ASSUME NEW p \in Request, NEW r \in Standalone, StartStandalone(p, r)
        PROVE  StatusStable /\ OwnerSettles
    BY <1>4, <1>9 DEF StartStandalone, RunId, Proc
  <1>10. CASE UNCHANGED vars
    BY <1>1, <1>10 DEF vars
  <1>11. ASSUME NEW p \in Proc, Begins(p) \/ NotStarted(p) \/ FailureLost(p)
         PROVE  StatusStable /\ OwnerSettles
    BY <1>1, <1>11 DEF Begins, Begin, NotStarted, FailureLost
  <1>12. ASSUME NEW ps \in SUBSET Proc, Crash(ps)
         PROVE  StatusStable /\ OwnerSettles
    BY <1>1, <1>12 DEF Crash
  <1> QED BY <1>7, <1>8, <1>9, <1>10, <1>11, <1>12 DEF Next, Proc

\* The recorded outcome of a run never changes, unless the run is overdue.
THEOREM OutcomesAreFinal == Spec => FinalStatusStable
  <1>1. IInv /\ [Next]_vars => [StatusStable]_vars
    BY StepSettles
  <1> QED BY <1>1, InvariantIInv, PTL DEF Spec, FinalStatusStable

\* Nobody but its process settles a live run, unless the run is overdue.
THEOREM OwnersSettle == Spec => OnlyOwnerSettles
  <1>1. IInv /\ [Next]_vars => [OwnerSettles]_vars
    BY StepSettles
  <1> QED BY <1>1, InvariantIInv, PTL DEF Spec, OnlyOwnerSettles

-----------------------------------------------------------------------------
(* A success is complete, in every behaviour: also when live collections are *)
(* slow and the reclaim takes their rows from them.                          *)

\* What leaving resets, process by process.
LEMMA LeaveResets ==
  ASSUME TypeOK, NEW ps \in SUBSET Proc, Leave(ps)
  PROVE  \A q \in Proc :
           /\ q \in ps => /\ pc'[q] = "idle" /\ run'[q] = NoRun
                          /\ pending'[q] = {} /\ bad'[q] = FALSE
           /\ q \notin ps => /\ pc'[q] = pc[q] /\ run'[q] = run[q]
                             /\ todo'[q] = todo[q]
                             /\ pending'[q] = pending[q] /\ bad'[q] = bad[q]
  BY DEF TypeOK, Leave

\* Leaving keeps the invariant, if the rows of those who stay keep their
\* accounts and do not become successes, and new successes are complete.
LEMMA LeavingAccounts ==
  ASSUME PInv, TypeOK', NEW ps \in SUBSET Proc, Leave(ps),
         \A q \in Proc \ ps : Collecting(q) =>
           /\ row'[run[q]].plan = row[run[q]].plan
           /\ row'[run[q]].stored = row[run[q]].stored
           /\ row'[run[q]].status # "success",
         SuccessIsComplete'
  PROVE  PInv'
  <1>0. \A q \in Proc :
          /\ q \in ps => /\ pc'[q] = "idle" /\ run'[q] = NoRun
                         /\ pending'[q] = {} /\ bad'[q] = FALSE
          /\ q \notin ps => /\ pc'[q] = pc[q] /\ run'[q] = run[q]
                            /\ todo'[q] = todo[q]
                            /\ pending'[q] = pending[q] /\ bad'[q] = bad[q]
    BY LeaveResets DEF PInv
  <1>1. ExecInv'
    BY <1>0 DEF PInv, ExecInv, Collecting
  <1>2. OwnerInv'
    BY <1>0 DEF PInv, OwnerInv
  <1>3. PendingInv'
    BY <1>0 DEF PInv, PendingInv, Collecting
  <1>4. AccountInv'
    BY <1>0 DEF PInv, AccountInv, Collecting
  <1> QED BY <1>1, <1>2, <1>3, <1>4 DEF PInv

\* Leaving the table alone keeps the invariant.
LEMMA LeavingAlone ==
  ASSUME PInv, TypeOK', NEW ps \in SUBSET Proc, Leave(ps), row' = row
  PROVE  PInv'
  <1>1. SuccessIsComplete'
    BY DEF PInv, SuccessIsComplete
  <1> QED BY <1>1, LeavingAccounts DEF PInv, ExecInv

\* Settling one's row keeps the invariant, if a unified success is complete.
LEMMA SettlingAccounts ==
  ASSUME PInv, TypeOK', NEW p \in Proc, NEW status \in Status,
         Collecting(p) \/ pc[p] = "standalone",
         row' = [row EXCEPT ![run[p]].status = status], Leave({p}),
         run[p] \in Unified /\ status = "success"
           => row[run[p]].stored = row[run[p]].plan
  PROVE  PInv'
  <1>1. run[p] \in RunId /\ run[p] # NoRun
    BY RunAssumption DEF PInv, ExecInv, RunId
  <1>2. /\ \A r \in RunId : row'[r].plan = row[r].plan /\ row'[r].stored = row[r].stored
        /\ \A r \in RunId : r # run[p] => row'[r] = row[r]
        /\ row'[run[p]].status = status
    BY <1>1 DEF PInv, TypeOK, Row
  <1>3. \A q \in Proc \ {p} : run[q] # run[p]
    BY <1>1 DEF PInv, OwnerInv
  <1>4. SuccessIsComplete'
    BY <1>2 DEF PInv, SuccessIsComplete, RunId
  <1>5. \A q \in Proc \ {p} : Collecting(q) =>
          /\ row'[run[q]].plan = row[run[q]].plan
          /\ row'[run[q]].stored = row[run[q]].stored
          /\ row'[run[q]].status # "success"
    BY <1>2, <1>3 DEF PInv, ExecInv, RunId
  <1> QED BY <1>4, <1>5, LeavingAccounts

\* A process on its way through the pipeline keeps the invariant, if it only
\* adds to its own row and its accounts still balance.
LEMMA WorkingAccounts ==
  ASSUME PInv, TypeOK', NEW p \in Proc, pc[p] \in {"work", "commit"},
         NEW next \in {"work", "commit", "record"},
         pc' = [pc EXCEPT ![p] = next], UNCHANGED run,
         \A q \in Proc : q # p => /\ todo'[q] = todo[q]
                                  /\ pending'[q] = pending[q]
                                  /\ bad'[q] = bad[q],
         \A r \in RunId : /\ row'[r].status = row[r].status
                          /\ row'[r].plan = row[r].plan
                          /\ r # run[p] => row'[r].stored = row[r].stored,
         next # "commit" => pending'[p] = {},
         next # "record" /\ bad'[p] = FALSE =>
           row[run[p]].plan = row'[run[p]].stored \cup todo'[p] \cup pending'[p]
  PROVE  PInv'
  <1>1. run[p] \in Unified /\ run[p] # NoRun /\ row[run[p]].status # "success"
    BY RunAssumption DEF PInv, ExecInv, Collecting, RunId
  <1>2. /\ pc'[p] = next
        /\ \A q \in Proc : q # p => pc'[q] = pc[q]
    BY DEF PInv, TypeOK
  <1>3. ExecInv'
    BY <1>1, <1>2 DEF PInv, ExecInv, Collecting, RunId
  <1>4. OwnerInv'
    BY DEF PInv, OwnerInv
  <1>5. PendingInv'
    BY <1>2 DEF PInv, PendingInv, Collecting
  <1>6. AccountInv'
    <2>1. ASSUME NEW q \in Proc, q # p, pc'[q] \in {"work", "commit"}, bad'[q] = FALSE
          PROVE  row'[run[q]].plan = row'[run[q]].stored \cup todo'[q] \cup pending'[q]
      <3>1. run[q] \in RunId /\ run[q] # run[p]
        BY <2>1, <1>1, <1>2 DEF PInv, ExecInv, OwnerInv, Collecting, RunId
      <3> QED BY <2>1, <3>1, <1>2 DEF PInv, AccountInv
    <2>2. pc'[p] \in {"work", "commit"} /\ bad'[p] = FALSE =>
            row'[run[p]].plan = row'[run[p]].stored \cup todo'[p] \cup pending'[p]
      BY <1>1, <1>2 DEF RunId
    <2> QED BY <2>1, <2>2 DEF AccountInv
  <1>7. SuccessIsComplete'
    BY <1>1 DEF PInv, SuccessIsComplete, RunId
  <1> QED BY <1>3, <1>4, <1>5, <1>6, <1>7 DEF PInv

\* A fresh row keeps the invariant: nobody refers to it yet.
LEMMA StartingAccounts ==
  ASSUME PInv, TypeOK', NEW p \in Proc, ~Collecting(p), pc[p] # "standalone",
         NEW plan \in SUBSET Step, NEW r \in RunId, Unused(r),
         NEW next \in {"work", "standalone"},
         row' = [row EXCEPT ![r] = Started(plan)],
         run' = [run EXCEPT ![p] = r], pc' = [pc EXCEPT ![p] = next],
         UNCHANGED <<todo, pending, bad>>,
         next = "work" => r \in Unified /\ plan = todo[p],
         next = "standalone" => r \in Standalone
  PROVE  PInv'
  <1>1. /\ row'[r].status = "running" /\ row'[r].plan = plan /\ row'[r].stored = {}
        /\ \A s \in RunId : s # r => row'[s] = row[s]
    BY DEF PInv, TypeOK, Started
  <1>2. /\ run'[p] = r /\ pc'[p] = next
        /\ \A q \in Proc : q # p => pc'[q] = pc[q] /\ run'[q] = run[q]
    BY DEF PInv, TypeOK
  <1>3. \A q \in Proc : run[q] # r
    BY DEF Unused
  <1>4. pending[p] = {} /\ bad[p] = FALSE
    BY DEF PInv, PendingInv, Collecting
  <1>5. ExecInv'
    BY <1>1, <1>2, <1>3 DEF PInv, ExecInv, Collecting, RunId
  <1>6. OwnerInv'
    BY <1>2, <1>3 DEF PInv, OwnerInv
  <1>7. PendingInv'
    BY <1>2, <1>4 DEF PInv, PendingInv, Collecting
  <1>8. AccountInv'
    <2>1. ASSUME NEW q \in Proc, q # p, pc'[q] \in {"work", "commit"}, bad'[q] = FALSE
          PROVE  row'[run'[q]].plan = row'[run'[q]].stored \cup todo'[q] \cup pending'[q]
      <3>1. run[q] \in RunId
        BY <2>1, <1>2 DEF PInv, ExecInv, Collecting, RunId
      <3> QED BY <2>1, <3>1, <1>1, <1>2, <1>3 DEF PInv, AccountInv
    <2>2. pc'[p] \in {"work", "commit"} =>
            row'[run'[p]].plan = row'[run'[p]].stored \cup todo'[p] \cup pending'[p]
      BY <1>1, <1>2, <1>4
    <2> QED BY <2>1, <2>2 DEF AccountInv
  <1>9. SuccessIsComplete'
    BY <1>1 DEF PInv, SuccessIsComplete, RunId
  <1> QED BY <1>5, <1>6, <1>7, <1>8, <1>9 DEF PInv

\* Steps that neither start, settle nor advance a run keep the invariant.
LEMMA WaitingAccounts ==
  ASSUME PInv, TypeOK', UNCHANGED <<run, pending, bad>>,
         \A q \in Proc : \/ pc'[q] = pc[q] /\ todo'[q] = todo[q]
                         \/ /\ pc[q] \in {"idle", "reclaim", "insert"}
                            /\ pc'[q] \in {"idle", "reclaim", "insert"},
         \A r \in RunId : /\ row'[r].plan = row[r].plan
                          /\ row'[r].stored = row[r].stored
                          /\ row'[r].status = "success" => row[r].status = "success"
  PROVE  PInv'
  <1>1. ExecInv'
    BY DEF PInv, ExecInv, Collecting, RunId
  <1>2. OwnerInv'
    BY DEF PInv, OwnerInv
  <1>3. PendingInv'
    BY DEF PInv, PendingInv, Collecting
  <1>4. AccountInv'
    BY DEF PInv, ExecInv, AccountInv, Collecting, RunId
  <1>5. SuccessIsComplete'
    BY DEF PInv, SuccessIsComplete, RunId
  <1> QED BY <1>1, <1>2, <1>3, <1>4, <1>5 DEF PInv

\* Every step keeps the invariant.
LEMMA ProgressInductive ==
  ASSUME PInv, TypeOK', [Next]_vars PROVE PInv'
  <1>1. ASSUME NEW p \in Proc, Begins(p) PROVE PInv'
    <2>1. PICK plan \in SUBSET Step : Begin(p, plan)
      BY <1>1, PlanAssumption DEF Begins
    <2>2. \A q \in Proc : \/ pc'[q] = pc[q] /\ todo'[q] = todo[q]
                          \/ /\ pc[q] \in {"idle", "reclaim", "insert"}
                             /\ pc'[q] \in {"idle", "reclaim", "insert"}
      BY <2>1 DEF Begin, PInv, TypeOK
    <2> QED BY <2>1, <2>2, WaitingAccounts DEF Begin
  <1>2. ASSUME NEW p \in Proc, Reclaim(p) PROVE PInv'
    <2>1. \A r \in RunId : /\ row'[r].plan = row[r].plan
                           /\ row'[r].stored = row[r].stored
                           /\ row'[r].status = "success" => row[r].status = "success"
      BY <1>2 DEF Reclaim, PInv, TypeOK, Row
    <2>2. \A q \in Proc : \/ pc'[q] = pc[q] /\ todo'[q] = todo[q]
                          \/ /\ pc[q] \in {"idle", "reclaim", "insert"}
                             /\ pc'[q] \in {"idle", "reclaim", "insert"}
      BY <1>2 DEF Reclaim, PInv, TypeOK
    <2> QED BY <1>2, <2>1, <2>2, WaitingAccounts DEF Reclaim
  <1>3. ASSUME NEW p \in Proc, NEW r \in Unified, Enter(p, r) PROVE PInv'
    <2>1. todo[p] \in SUBSET Step /\ r \in RunId
      BY DEF PInv, TypeOK, RunId
    <2> QED BY <1>3, <2>1, StartingAccounts DEF Enter, Collecting
  <1>4. ASSUME NEW p \in Proc, DoStep(p) PROVE PInv'
    <2>1. PICK s \in todo[p] : /\ todo' = [todo EXCEPT ![p] = @ \ {s}]
                               /\ pending' = [pending EXCEPT ![p] = {s}]
      BY <1>4 DEF DoStep
    <2>2. pending[p] = {}
      BY <1>4 DEF DoStep, PInv, PendingInv
    <2>3. todo'[p] = todo[p] \ {s} /\ pending'[p] = {s}
      BY <2>1 DEF PInv, TypeOK
    <2>4. bad'[p] = FALSE =>
            row[run[p]].plan = row'[run[p]].stored \cup todo'[p] \cup pending'[p]
      BY <1>4, <2>2, <2>3 DEF DoStep, PInv, AccountInv
    <2>5. \A q \in Proc : q # p => /\ todo'[q] = todo[q]
                                   /\ pending'[q] = pending[q]
                                   /\ bad'[q] = bad[q]
      BY <1>4, <2>1 DEF DoStep, PInv, TypeOK
    <2> QED BY <1>4, <2>4, <2>5, WorkingAccounts DEF DoStep
  <1>5. ASSUME NEW p \in Proc, CommitStep(p) PROVE PInv'
    <2>1. run[p] \in RunId
      BY <1>5 DEF CommitStep, PInv, ExecInv, Collecting, RunId
    <2>2. /\ \A r \in RunId : /\ row'[r].status = row[r].status
                              /\ row'[r].plan = row[r].plan
                              /\ r # run[p] => row'[r].stored = row[r].stored
          /\ row'[run[p]].stored = row[run[p]].stored \cup pending[p]
      BY <1>5, <2>1 DEF CommitStep, PInv, TypeOK, Row
    <2>3. /\ pending'[p] = {}
          /\ \A q \in Proc : q # p => pending'[q] = pending[q]
      BY <1>5 DEF CommitStep, PInv, TypeOK
    <2>4. bad'[p] = FALSE =>
            row[run[p]].plan = row'[run[p]].stored \cup todo'[p] \cup pending'[p]
      BY <1>5, <2>2, <2>3 DEF CommitStep, PInv, AccountInv
    <2> QED BY <1>5, <2>2, <2>3, <2>4, WorkingAccounts DEF CommitStep
  <1>6. ASSUME NEW p \in Proc, StepError(p) PROVE PInv'
    <2>1. pc' = [pc EXCEPT ![p] = "work"] /\ pending'[p] = {}
      BY <1>6 DEF StepError, PInv, TypeOK, PendingInv
    <2>2. \A q \in Proc : q # p => todo'[q] = todo[q] /\ bad'[q] = bad[q]
      BY <1>6 DEF StepError, PInv, TypeOK
    <2>3. bad'[p] = TRUE
      BY <1>6 DEF StepError, PInv, TypeOK
    <2> QED BY <1>6, <2>1, <2>2, <2>3, WorkingAccounts DEF StepError
  <1>7. ASSUME NEW p \in Proc, Unexpected(p) PROVE PInv'
    <2>1. /\ pending'[p] = {}
          /\ \A q \in Proc : q # p => pending'[q] = pending[q]
      BY <1>7 DEF Unexpected, PInv, TypeOK
    <2> QED BY <1>7, <2>1, WorkingAccounts DEF Unexpected
  <1>8. ASSUME NEW p \in Proc, Finish(p) PROVE PInv'
    <2>1. bad[p] = FALSE => row[run[p]].stored = row[run[p]].plan
      BY <1>8 DEF Finish, PInv, AccountInv, PendingInv
    <2>2. bad[p] \in BOOLEAN
      BY DEF PInv, TypeOK
    <2>3. Collecting(p)
      BY <1>8 DEF Finish, Collecting
    <2>4. CASE bad[p] = FALSE
      BY <1>8, <2>1, <2>3, <2>4, SettlingAccounts DEF Finish, Status
    <2>5. CASE bad[p] = TRUE
      BY <1>8, <2>3, <2>5, SettlingAccounts DEF Finish, Status
    <2> QED BY <2>2, <2>4, <2>5
  <1>9. ASSUME NEW p \in Proc, RecordFailure(p) PROVE PInv'
    BY <1>9, SettlingAccounts DEF RecordFailure, Collecting, Status
  <1>10. ASSUME NEW p \in Proc, FinishStandalone(p) PROVE PInv'
    <2>1. run[p] \notin Unified
      BY <1>10, RunAssumption DEF FinishStandalone, PInv, ExecInv
    <2> QED BY <1>10, <2>1, SettlingAccounts DEF FinishStandalone, Status
  <1>11. ASSUME NEW p \in Request, NEW r \in Standalone, StartStandalone(p, r)
         PROVE PInv'
    <2>1. {} \in SUBSET Step /\ r \in RunId /\ p \in Proc
      BY DEF RunId, Proc
    <2> QED BY <1>11, <2>1, StartingAccounts DEF StartStandalone, Collecting
  <1>12. ASSUME NEW p \in Proc, Rejected(p) \/ NotStarted(p) \/ FailureLost(p)
         PROVE  PInv'
    BY <1>12, LeavingAlone DEF Rejected, NotStarted, FailureLost
  <1>13. ASSUME NEW ps \in SUBSET Proc, Crash(ps) PROVE PInv'
    BY <1>13, LeavingAlone DEF Crash
  <1>14. CASE Tick
    <2>1. \A r \in RunId : /\ row'[r].plan = row[r].plan
                           /\ row'[r].stored = row[r].stored
                           /\ row'[r].status = row[r].status
      BY <1>14 DEF Tick, PInv, TypeOK, Row
    <2> QED BY <1>14, <2>1, WaitingAccounts DEF Tick
  <1>15. CASE UNCHANGED vars
    BY <1>15, WaitingAccounts DEF vars
  <1> QED
    BY <1>1, <1>2, <1>3, <1>4, <1>5, <1>6, <1>7, <1>8, <1>9, <1>10, <1>11,
       <1>12, <1>13, <1>14, <1>15 DEF Next, Advance, Proc

\* It holds of an empty table.
LEMMA InitPInv == Init => PInv
  <1> SUFFICES ASSUME Init PROVE PInv
    OBVIOUS
  <1>1. TypeOK
    BY TimeAssumption DEF Init, TypeOK, Absent, Row, Status
  <1>2. ExecInv /\ OwnerInv /\ PendingInv /\ AccountInv
    BY DEF Init, ExecInv, OwnerInv, PendingInv, AccountInv, Collecting
  <1>3. SuccessIsComplete
    BY DEF Init, SuccessIsComplete, Absent, RunId
  <1> QED BY <1>1, <1>2, <1>3 DEF PInv

\* A run recorded as a success has stored every step it was asked for: for
\* every plan, and however long collections take.
THEOREM SuccessComplete == Spec => []SuccessIsComplete
  <1>1. PInv /\ TypeOK' /\ [Next]_vars => PInv'
    BY ProgressInductive
  <1>2. PInv => SuccessIsComplete
    BY DEF PInv
  <1> QED BY <1>1, <1>2, InitPInv, Typing, PTL DEF Spec

-----------------------------------------------------------------------------
(* CollectionRuns implements RunSlot, when no live collection outlasts the    *)
(* stale threshold: what the table and the sessions do is what a slot with    *)
(* one owner does.                                                            *)

\* A live collection is not overdue, and its row is running.
LEMMA LiveIsShort ==
  ASSUME RunLimit <= StaleAfter, IInv, ShortInv, NEW p \in Proc, Collecting(p)
  PROVE  run[p] \in RunId /\ ~Overdue(run[p]) /\ Running(run[p])
  <1>1. run[p] \in RunId /\ (Running(run[p]) \/ Overdue(run[p]))
    BY DEF IInv, SessionInv, RunId
  <1>2. row[run[p]].age <= RunLimit /\ row[run[p]].age \in Nat
    BY <1>1 DEF ShortInv, IInv, TypeOK, Row
  <1> QED BY <1>1, <1>2, TimeAssumption DEF Overdue

\* A row loaded as stale is not the run of any process.
LEMMA StaleNotLive ==
  ASSUME RunLimit <= StaleAfter, IInv, ShortInv, NEW p \in Proc, NEW q \in Proc,
         run[q] # NoRun
  PROVE  run[q] \notin stale[p]
  <1> SUFFICES ASSUME run[q] \in stale[p] PROVE FALSE
    OBVIOUS
  <1>1. Overdue(run[q])
    BY DEF IInv, StaleInv, Overdue
  <1>2. Collecting(q)
    BY <1>1, RunAssumption DEF IInv, SessionInv, Overdue
  <1> QED BY <1>1, <1>2, LiveIsShort

\* A row loaded as stale is running, or has been failed in the meantime.
LEMMA SettledOrLost ==
  ASSUME IInv, ShortInv, NEW p \in Proc, NEW r \in stale[p]
  PROVE  row[r].status \in {"running", "failed"}
  <1>1. r \in RunId /\ row[r].status \notin {"none", "success"}
    BY DEF IInv, StaleInv, ShortInv, RunId
  <1> QED BY <1>1 DEF IInv, TypeOK, Row, Status

\* Every step keeps live collections young: Tick does not let one outlast
\* RunLimit, and nobody settles a row that somebody has loaded as stale.
LEMMA ShortInductive ==
  ASSUME RunLimit <= StaleAfter, IInv, ShortInv, [Next]_vars PROVE ShortInv'
  <1>1. ASSUME row' = row,
               \A q \in Proc : Collecting(q)' => Collecting(q) /\ run'[q] = run[q],
               \A q \in Proc : stale'[q] \subseteq stale[q] \cup StaleRows
        PROVE  ShortInv'
    BY <1>1 DEF ShortInv, StaleRows, Running
  <1>2. ASSUME NEW ps \in SUBSET Proc, Leave(ps), row' = row PROVE ShortInv'
    <2>1. /\ \A q \in Proc : Collecting(q)' => Collecting(q) /\ run'[q] = run[q]
          /\ \A q \in Proc : stale'[q] \subseteq stale[q]
      BY <1>2, LeaveSession DEF IInv, Collecting
    <2> QED BY <1>1, <1>2, <2>1
  <1>3. ASSUME NEW p \in Proc, NEW status,
               Collecting(p) \/ pc[p] = "standalone",
               row' = [row EXCEPT ![run[p]].status = status], Leave({p})
        PROVE  ShortInv'
    <2>1. run[p] \in RunId /\ run[p] # NoRun
      BY <1>3, RunAssumption DEF IInv, SessionInv, RunId
    <2>2. \A r \in RunId : /\ row'[r].age = row[r].age
                           /\ r # run[p] => row'[r] = row[r]
      BY <1>3, <2>1, SettleRow DEF IInv
    <2>3. \A q \in Proc : run[p] \notin stale[q]
      BY <2>1, StaleNotLive
    <2>4. \A q \in Proc : /\ Collecting(q)' => Collecting(q) /\ run'[q] = run[q]
                          /\ stale'[q] \subseteq stale[q]
      BY <1>3, LeaveSession DEF IInv, Collecting
    <2>5. \A q \in Proc : /\ Collecting(q) => run[q] \in RunId
                          /\ stale[q] \subseteq RunId
      BY DEF IInv, SessionInv, TypeOK, RunId
    <2> QED BY <2>2, <2>3, <2>4, <2>5 DEF ShortInv
  <1>4. ASSUME NEW p \in Proc, NEW r \in RunId, NEW plan, Unused(r),
               row' = [row EXCEPT ![r] = Started(plan)],
               run' = [run EXCEPT ![p] = r], stale' = stale,
               \E next \in {"work", "standalone"} : pc' = [pc EXCEPT ![p] = next]
        PROVE  ShortInv'
    <2>1. /\ row'[r].age = 0 /\ run'[p] = r
          /\ \A s \in RunId : s # r => row'[s] = row[s]
          /\ \A q \in Proc : q # p => run'[q] = run[q] /\ pc'[q] = pc[q]
      BY <1>4 DEF IInv, TypeOK, Started
    <2>2. \A q \in Proc : run[q] # r /\ r \notin stale[q]
      BY <1>4 DEF Unused
    <2>3. \A q \in Proc : /\ Collecting(q) => run[q] \in RunId
                          /\ stale[q] \subseteq RunId
      BY DEF IInv, SessionInv, TypeOK, RunId
    <2>4. ASSUME NEW q \in Proc, Collecting(q)' PROVE row'[run'[q]].age <= RunLimit
      <3>1. CASE q = p
        BY <3>1, <2>1, TimeAssumption
      <3>2. CASE q # p
        BY <3>2, <2>1, <2>2, <2>3, <2>4 DEF ShortInv, Collecting
      <3> QED BY <3>1, <3>2
    <2>5. \A q \in Proc : \A s \in stale'[q] : row'[s].status # "success"
      BY <1>4, <2>1, <2>2, <2>3 DEF ShortInv
    <2> QED BY <2>4, <2>5 DEF ShortInv
  <1>5. ASSUME NEW p \in Proc, Begins(p) PROVE ShortInv'
    <2>1. PICK plan : Begin(p, plan)
      BY <1>5 DEF Begins
    <2>2. \A q \in Proc : /\ Collecting(q)' => Collecting(q)
                          /\ stale'[q] \subseteq stale[q] \cup StaleRows
      BY <2>1 DEF Begin, IInv, TypeOK, Collecting
    <2> QED BY <1>1, <2>1, <2>2 DEF Begin
  <1>6. ASSUME NEW p \in Proc, Reclaim(p) PROVE ShortInv'
    <2>1. \A r \in RunId : /\ row'[r].age = row[r].age
                           /\ row'[r].status \in {"failed", row[r].status}
      BY <1>6 DEF IInv, TypeOK, Row, Reclaim
    <2>2. \A q \in Proc : /\ Collecting(q)' => Collecting(q)
                          /\ stale'[q] \subseteq stale[q]
                          /\ Collecting(q) => run[q] \in RunId
                          /\ stale[q] \subseteq RunId
      BY <1>6 DEF Reclaim, IInv, SessionInv, TypeOK, Collecting, RunId
    <2>3. run' = run
      BY <1>6 DEF Reclaim
    <2> QED BY <2>1, <2>2, <2>3 DEF ShortInv
  <1>7. ASSUME NEW p \in Proc, DoStep(p) \/ StepError(p) \/ Unexpected(p) PROVE ShortInv'
    <2>1. \A q \in Proc : Collecting(q)' => Collecting(q)
      BY <1>7 DEF DoStep, StepError, Unexpected, IInv, TypeOK, Collecting
    <2> QED BY <1>1, <1>7, <2>1 DEF DoStep, StepError, Unexpected
  <1>8. ASSUME NEW p \in Proc, CommitStep(p) PROVE ShortInv'
    <2>1. \A r \in RunId : row'[r].age = row[r].age /\ row'[r].status = row[r].status
      BY <1>8 DEF CommitStep, IInv, TypeOK, Row
    <2>2. \A q \in Proc : /\ Collecting(q)' => Collecting(q)
                          /\ Collecting(q) => run[q] \in RunId
                          /\ stale[q] \subseteq RunId
      BY <1>8 DEF CommitStep, IInv, SessionInv, TypeOK, Collecting, RunId
    <2> QED BY <1>8, <2>1, <2>2 DEF CommitStep, ShortInv
  <1>9. ASSUME NEW p \in Proc, Advance(p) PROVE ShortInv'
    <2>1. ASSUME NEW r \in Unified, Enter(p, r) PROVE ShortInv'
      BY <1>4, <2>1 DEF Enter, RunId
    <2>2. CASE Rejected(p)
      BY <1>2, <2>2 DEF Rejected
    <2>3. CASE Finish(p)
      BY <1>3, <2>3 DEF Finish, Collecting
    <2>4. CASE RecordFailure(p)
      BY <1>3, <2>4 DEF RecordFailure, Collecting
    <2>5. CASE FinishStandalone(p)
      BY <1>3, <2>5 DEF FinishStandalone
    <2> QED BY <1>6, <1>7, <1>8, <1>9, <2>1, <2>2, <2>3, <2>4, <2>5 DEF Advance
  <1>10. ASSUME NEW p \in Request, NEW r \in Standalone, StartStandalone(p, r)
         PROVE  ShortInv'
    BY <1>4, <1>10 DEF StartStandalone, RunId, Proc
  <1>11. ASSUME NEW p \in Proc, NotStarted(p) \/ FailureLost(p) PROVE ShortInv'
    BY <1>2, <1>11 DEF NotStarted, FailureLost
  <1>12. ASSUME NEW ps \in SUBSET Proc, Crash(ps) PROVE ShortInv'
    BY <1>2, <1>12 DEF Crash
  <1>13. CASE Tick
    <2>1. \A r \in RunId : /\ row'[r].status = row[r].status
                           /\ row'[r].age \in {row[r].age, row[r].age + 1}
                           /\ row[r].age \in Nat
      BY <1>13 DEF Tick, IInv, TypeOK, Row
    <2>2. \A q \in Proc : /\ Collecting(q) => run[q] \in RunId
                          /\ stale[q] \subseteq RunId
      BY DEF IInv, SessionInv, TypeOK, RunId
    <2>3. ASSUME NEW q \in Proc, Collecting(q) PROVE row'[run[q]].age <= RunLimit
      <3>1. row[run[q]].age < RunLimit
        BY <1>13, <2>3, TimeAssumption DEF Tick
      <3> QED BY <3>1, <2>1, <2>2, <2>3, TimeAssumption
    <2> QED BY <1>13, <2>1, <2>2, <2>3 DEF Tick, ShortInv, Collecting
  <1>14. CASE UNCHANGED vars
    BY <1>1, <1>14 DEF vars, Collecting
  <1> QED BY <1>5, <1>9, <1>10, <1>11, <1>12, <1>13, <1>14 DEF Next, Proc

\* What the refinement mapping shows: the slot is the one running row and the
\* owner the one process that collects, if there are any.
SlotView ==
  /\ \A r \in Unified : Running(r) => HeldSlot = r
  /\ (\A r \in Unified : ~Running(r)) => HeldSlot = NoRun
  /\ \A p \in Proc : Collecting(p) => SlotOwner = p
  /\ (\A p \in Proc : ~Collecting(p)) => SlotOwner = NoProc
  /\ \A p \in Proc : Collecting(p) => run[p] \in Unified /\ Running(run[p])
  /\ \A r, s \in Unified : Running(r) /\ Running(s) => r = s

\* The invariant of the code makes the mapping well defined.
LEMMA MappingIsView ==
  ASSUME RunLimit <= StaleAfter, IInv, ShortInv PROVE SlotView
  <1>1. ASSUME NEW r \in Unified, Running(r) PROVE HeldSlot = r
    <2>1. HeldRun = {r}
      BY <1>1 DEF IInv, OneRunningRow, HeldRun
    <2> QED BY <2>1 DEF HeldSlot
  <1>2. ASSUME \A r \in Unified : ~Running(r) PROVE HeldSlot = NoRun
    BY <1>2 DEF HeldSlot, HeldRun
  <1>3. ASSUME NEW p \in Proc, Collecting(p) PROVE SlotOwner = p
    <2>1. run[p] \in HeldRun /\ p \in OwnerOf(run[p])
      BY <1>3, LiveIsShort DEF IInv, SessionInv, HeldRun, OwnerOf
    <2>2. ASSUME NEW q \in Proc, \E r \in HeldRun : q \in OwnerOf(r) PROVE q = p
      BY <2>1, <2>2, RunAssumption
      DEF HeldRun, OwnerOf, IInv, OwnerInv, OneRunningRow, RunId
    <2> QED BY <2>1, <2>2 DEF SlotOwner
  <1>4. ASSUME \A p \in Proc : ~Collecting(p) PROVE SlotOwner = NoProc
    BY <1>4 DEF SlotOwner, OwnerOf
  <1>5. \A p \in Proc : Collecting(p) => run[p] \in Unified /\ Running(run[p])
    BY LiveIsShort DEF IInv, SessionInv
  <1>6. \A r, s \in Unified : Running(r) /\ Running(s) => r = s
    BY DEF IInv, OneRunningRow
  <1> QED BY <1>1, <1>2, <1>3, <1>4, <1>5, <1>6 DEF SlotView

\* Nothing that the slot is made of changes: a stutter.
LEMMA SlotStutters ==
  ASSUME SlotView, SlotView',
         \A r \in Unified : row'[r].status = row[r].status,
         \A p \in Proc : Collecting(p)' = Collecting(p)
  PROVE  UNCHANGED <<HeldSlot, SlotOwner, RunOutcome>>
  <1>1. \A r \in Unified : Running(r)' = Running(r)
    BY DEF Running
  <1>2. RunOutcome' = RunOutcome
    BY <1>1 DEF RunOutcome
  <1>3. HeldSlot' = HeldSlot
    <2>1. CASE \A r \in Unified : ~Running(r)
      BY <2>1, <1>1 DEF SlotView
    <2>2. CASE \E r \in Unified : Running(r)
      BY <2>2, <1>1 DEF SlotView
    <2> QED BY <2>1, <2>2
  <1>4. SlotOwner' = SlotOwner
    <2>1. CASE \A p \in Proc : ~Collecting(p)
      BY <2>1 DEF SlotView
    <2>2. CASE \E p \in Proc : Collecting(p)
      BY <2>2 DEF SlotView
    <2> QED BY <2>1, <2>2
  <1> QED BY <1>2, <1>3, <1>4

\* A row starts, and its process collects: the slot is taken.
LEMMA SlotIsTaken ==
  ASSUME SlotView, SlotView', NEW p \in Proc, NEW r \in Unified,
         \A s \in Unified : ~Running(s), Running(r)', Collecting(p)',
         \A s \in Unified : s # r => row'[s].status = row[s].status
  PROVE  Slot!Take(p, r)
  <1>1. HeldSlot = NoRun /\ HeldSlot' = r /\ SlotOwner' = p
    BY DEF SlotView
  <1>2. RunOutcome' = [RunOutcome EXCEPT ![r] = "none"]
    BY DEF RunOutcome, Running
  <1> QED BY <1>1, <1>2 DEF Slot!Take

\* The owner settles its row: the slot is settled with that outcome.
LEMMA SlotIsSettled ==
  ASSUME SlotView, SlotView', NEW p \in Proc, Collecting(p), ~Collecting(p)',
         \A q \in Proc : q # p => Collecting(q)' = Collecting(q),
         NEW o \in {"success", "failed"}, row'[run[p]].status = o,
         \A s \in Unified : s # run[p] => row'[s].status = row[s].status
  PROVE  Slot!Settle(o)
  <1>1. /\ SlotOwner = p /\ HeldSlot = run[p]
        /\ run[p] \in Unified /\ Running(run[p])
    BY DEF SlotView
  <1>2. SlotOwner # NoProc
    BY <1>1, ProcAssumption DEF Proc
  <1>3. \A s \in Unified : ~Running(s)'
    BY <1>1 DEF SlotView, Running
  <1>4. \A q \in Proc : ~Collecting(q)'
    BY <1>1 DEF SlotView
  <1>5. HeldSlot' = NoRun /\ SlotOwner' = NoProc
    BY <1>3, <1>4 DEF SlotView
  <1>6. RunOutcome' = [RunOutcome EXCEPT ![HeldSlot] = o]
    BY <1>1, <1>3 DEF RunOutcome, Running
  <1> QED BY <1>2, <1>5, <1>6 DEF Slot!Settle

\* The owner stops collecting and its row stays running: it abandons the slot.
LEMMA SlotIsAbandoned ==
  ASSUME SlotView, SlotView', NEW p \in Proc, Collecting(p),
         \A q \in Proc : ~Collecting(q)',
         \A s \in Unified : row'[s].status = row[s].status
  PROVE  Slot!Abandon
  <1>1. /\ SlotOwner = p /\ HeldSlot = run[p]
        /\ run[p] \in Unified /\ Running(run[p])
    BY DEF SlotView
  <1>2. SlotOwner # NoProc
    BY <1>1, ProcAssumption DEF Proc
  <1>3. \A s \in Unified : Running(s)' = Running(s)
    BY DEF Running
  <1>4. HeldSlot' = HeldSlot /\ SlotOwner' = NoProc
    BY <1>1, <1>3 DEF SlotView
  <1>5. RunOutcome' = RunOutcome
    BY <1>3 DEF RunOutcome
  <1> QED BY <1>2, <1>4, <1>5 DEF Slot!Abandon

\* A running row without an owner is failed: the slot expires.
LEMMA SlotExpires ==
  ASSUME SlotView, SlotView', NEW r \in Unified, Running(r),
         row'[r].status = "failed",
         \A p \in Proc : ~Collecting(p), \A p \in Proc : ~Collecting(p)',
         \A s \in Unified : s # r => row'[s].status = row[s].status
  PROVE  Slot!Expire
  <1>1. HeldSlot = r /\ SlotOwner = NoProc
    BY DEF SlotView
  <1>2. r # NoRun
    BY RunAssumption DEF RunId
  <1>3. \A s \in Unified : ~Running(s)'
    BY DEF SlotView, Running
  <1>4. HeldSlot' = NoRun /\ SlotOwner' = NoProc
    BY <1>3 DEF SlotView
  <1>5. RunOutcome' = [RunOutcome EXCEPT ![HeldSlot] = "failed"]
    BY <1>1, <1>3 DEF RunOutcome, Running
  <1> QED BY <1>1, <1>2, <1>4, <1>5 DEF Slot!Expire

\* A process that leaves: it collects no more, the others as before.
LEMMA LeaveCollecting ==
  ASSUME IInv, NEW ps \in SUBSET Proc, Leave(ps)
  PROVE  \A p \in Proc : /\ p \in ps => ~Collecting(p)'
                         /\ p \notin ps => Collecting(p)' = Collecting(p)
  BY LeaveSession DEF IInv, Collecting

\* Processes that leave without touching the table abandon the slot if its
\* owner is one of them.
LEMMA LeavingRefines ==
  ASSUME IInv, SlotView, SlotView', NEW ps \in SUBSET Proc, Leave(ps), row' = row
  PROVE  Slot!Abandon \/ UNCHANGED <<HeldSlot, SlotOwner, RunOutcome>>
  <1>1. CASE \E p \in ps : Collecting(p)
    <2>1. PICK p \in ps : Collecting(p)
      BY <1>1
    <2>2. \A q \in Proc : Collecting(q) => q = p
      BY <2>1 DEF SlotView
    <2>3. \A q \in Proc : ~Collecting(q)'
      BY <2>1, <2>2, LeaveCollecting
    <2> QED BY <2>1, <2>3, SlotIsAbandoned
  <1>2. CASE \A p \in ps : ~Collecting(p)
    <2>1. \A q \in Proc : Collecting(q)' = Collecting(q)
      <3>1. \A q \in Proc : /\ q \in ps => ~Collecting(q)'
                            /\ q \notin ps => Collecting(q)' = Collecting(q)
        BY LeaveCollecting
      <3> QED BY <1>2, <3>1 DEF Collecting
    <2> QED BY <2>1, SlotStutters
  <1> QED BY <1>1, <1>2

\* A process that settles its row and leaves settles the slot, unless its run
\* is a standalone one.
LEMMA SettlingRefines ==
  ASSUME IInv, SlotView, SlotView', NEW p \in Proc,
         NEW o \in {"success", "failed"},
         Collecting(p) \/ pc[p] = "standalone",
         row' = [row EXCEPT ![run[p]].status = o], Leave({p})
  PROVE  Slot!Settle(o) \/ UNCHANGED <<HeldSlot, SlotOwner, RunOutcome>>
  <1>1. run[p] \in RunId
    BY DEF IInv, SessionInv, RunId
  <1>2. /\ row'[run[p]].status = o
        /\ \A s \in RunId : s # run[p] => row'[s].status = row[s].status
    BY <1>1 DEF IInv, TypeOK, Row
  <1>3. /\ ~Collecting(p)'
        /\ \A q \in Proc : q # p => Collecting(q)' = Collecting(q)
    BY LeaveCollecting
  <1>4. CASE Collecting(p)
    BY <1>2, <1>3, <1>4, SlotIsSettled DEF RunId
  <1>5. CASE pc[p] = "standalone"
    <2>1. run[p] \notin Unified /\ ~Collecting(p)
      BY <1>5, RunAssumption DEF IInv, SessionInv, Collecting
    <2>2. \A r \in Unified : row'[r].status = row[r].status
      BY <1>2, <2>1 DEF RunId
    <2>3. \A q \in Proc : Collecting(q)' = Collecting(q)
      BY <1>3, <2>1 DEF Collecting
    <2> QED BY <2>2, <2>3, SlotStutters
  <1> QED BY <1>4, <1>5

\* A reclaim fails rows that nobody executes: the slot expires, or the rows
\* have been failed already.
LEMMA ReclaimRefines ==
  ASSUME RunLimit <= StaleAfter, IInv, ShortInv, SlotView, SlotView',
         NEW p \in Proc, Reclaim(p)
  PROVE  Slot!Expire \/ UNCHANGED <<HeldSlot, SlotOwner, RunOutcome>>
  <1>1. \A r \in RunId : /\ r \in stale[p] => row'[r].status = "failed"
                         /\ r \notin stale[p] => row'[r] = row[r]
    BY DEF IInv, TypeOK, Row, Reclaim
  <1>2. \A q \in Proc : Collecting(q)' = Collecting(q)
    BY DEF IInv, TypeOK, Reclaim, Collecting
  <1>3. CASE \E r \in stale[p] : Running(r)
    <2>1. PICK r \in stale[p] : Running(r)
      BY <1>3
    <2>2. r \in Unified /\ row'[r].status = "failed"
      BY <1>1 DEF IInv, StaleInv, RunId
    <2>3. \A q \in Proc : ~Collecting(q)
      <3> SUFFICES ASSUME NEW q \in Proc, Collecting(q) PROVE FALSE
        OBVIOUS
      <3>1. run[q] = r /\ run[q] # NoRun
        BY <2>1, <2>2, RunAssumption DEF SlotView, RunId
      <3> QED BY <3>1, StaleNotLive
    <2>4. ASSUME NEW s \in Unified, s # r PROVE row'[s].status = row[s].status
      <3>1. CASE s \in stale[p]
        <4>1. row[s].status = "failed"
          BY <2>1, <2>2, <2>4, <3>1, SettledOrLost DEF SlotView, Running
        <4> QED BY <4>1, <3>1, <1>1 DEF RunId
      <3> QED BY <3>1, <1>1 DEF RunId
    <2> QED BY <1>2, <2>1, <2>2, <2>3, <2>4, SlotExpires
  <1>4. CASE \A r \in stale[p] : ~Running(r)
    <2>1. \A r \in stale[p] : row[r].status = "failed"
      BY <1>4, SettledOrLost DEF Running
    <2>2. \A r \in Unified : row'[r].status = row[r].status
      BY <1>1, <2>1 DEF RunId
    <2> QED BY <1>2, <2>2, SlotStutters
  <1> QED BY <1>3, <1>4

\* Every step is a step of the slot, or leaves it as it is.
LEMMA StepRefines ==
  ASSUME RunLimit <= StaleAfter, IInv, ShortInv, SlotView, SlotView', [Next]_vars
  PROVE  [Slot!SlotNext]_<<HeldSlot, SlotOwner, RunOutcome>>
  <1> DEFINE Goal == [Slot!SlotNext]_<<HeldSlot, SlotOwner, RunOutcome>>
  <1>1. ASSUME NEW p \in Proc, Begins(p) PROVE Goal
    <2>1. PICK plan : Begin(p, plan)
      BY <1>1 DEF Begins
    <2>2. \A q \in Proc : Collecting(q)' = Collecting(q)
      BY <2>1 DEF Begin, IInv, TypeOK, Collecting
    <2> QED BY <2>1, <2>2, SlotStutters DEF Begin
  <1>2. ASSUME NEW p \in Proc, Reclaim(p) PROVE Goal
    BY <1>2, ReclaimRefines DEF Slot!SlotNext
  <1>3. ASSUME NEW p \in Proc, NEW r \in Unified, Enter(p, r) PROVE Goal
    <2>1. /\ row'[r] = Started(todo[p])
          /\ \A s \in Unified : s # r => row'[s].status = row[s].status
      BY <1>3 DEF Enter, IInv, TypeOK, RunId
    <2>2. Running(r)' /\ Collecting(p)'
      BY <1>3, <2>1 DEF Enter, IInv, TypeOK, Started, Running, Collecting
    <2>3. \A s \in Unified : ~Running(s)
      BY <1>3 DEF Enter, SlotTaken
    <2>4. Slot!Take(p, r)
      BY <2>1, <2>2, <2>3, SlotIsTaken
    <2> QED BY <2>4 DEF Slot!SlotNext
  <1>4. ASSUME NEW p \in Proc, DoStep(p) \/ CommitStep(p) \/ StepError(p) \/ Unexpected(p)
        PROVE  Goal
    <2>1. \A r \in Unified : row'[r].status = row[r].status
      BY <1>4 DEF DoStep, CommitStep, StepError, Unexpected, IInv, TypeOK, Row, RunId
    <2>2. \A q \in Proc : Collecting(q)' = Collecting(q)
      BY <1>4 DEF DoStep, CommitStep, StepError, Unexpected, IInv, TypeOK, Collecting
    <2> QED BY <2>1, <2>2, SlotStutters
  <1>5. ASSUME NEW p \in Proc, Finish(p) PROVE Goal
    <2>1. CASE bad[p]
      BY <1>5, <2>1, SettlingRefines DEF Finish, Collecting, Slot!SlotNext, Slot!Outcome
    <2>2. CASE ~bad[p]
      BY <1>5, <2>2, SettlingRefines DEF Finish, Collecting, Slot!SlotNext, Slot!Outcome
    <2> QED BY <2>1, <2>2
  <1>6. ASSUME NEW p \in Proc, RecordFailure(p) \/ FinishStandalone(p) PROVE Goal
    BY <1>6, SettlingRefines
    DEF RecordFailure, FinishStandalone, Collecting, Slot!SlotNext, Slot!Outcome
  <1>7. ASSUME NEW p \in Request, NEW r \in Standalone, StartStandalone(p, r) PROVE Goal
    <2>1. \A s \in Unified : row'[s].status = row[s].status
      BY <1>7, RunAssumption DEF StartStandalone, IInv, TypeOK, RunId
    <2>2. \A q \in Proc : Collecting(q)' = Collecting(q)
      BY <1>7 DEF StartStandalone, IInv, TypeOK, Collecting, Proc
    <2> QED BY <2>1, <2>2, SlotStutters
  <1>8. ASSUME NEW p \in Proc, Rejected(p) \/ NotStarted(p) \/ FailureLost(p) PROVE Goal
    BY <1>8, LeavingRefines DEF Rejected, NotStarted, FailureLost, Slot!SlotNext
  <1>9. ASSUME NEW ps \in SUBSET Proc, Crash(ps) PROVE Goal
    BY <1>9, LeavingRefines DEF Crash, Slot!SlotNext
  <1>10. CASE Tick
    <2>1. \A r \in Unified : row'[r].status = row[r].status
      BY <1>10 DEF Tick, IInv, TypeOK, Row, RunId
    <2>2. \A q \in Proc : Collecting(q)' = Collecting(q)
      BY <1>10 DEF Tick, Collecting
    <2> QED BY <2>1, <2>2, SlotStutters
  <1>11. CASE UNCHANGED vars
    BY <1>11, SlotStutters DEF vars, Collecting
  <1> QED
    BY <1>1, <1>2, <1>3, <1>4, <1>5, <1>6, <1>7, <1>8, <1>9, <1>10, <1>11
    DEF Next, Advance, Proc

\* An empty table is a free slot.
LEMMA InitRefines == Init => Slot!SlotInit
  <1> SUFFICES ASSUME Init PROVE Slot!SlotInit
    OBVIOUS
  <1>2. /\ \A r \in Unified : ~Running(r) /\ row[r].status = "none"
        /\ \A p \in Proc : ~Collecting(p)
    BY DEF Init, Absent, Running, Collecting, RunId
  <1>3. RunOutcome = [r \in Unified |-> "none"]
    BY <1>2 DEF RunOutcome
  <1>4. HeldSlot = NoRun /\ SlotOwner = NoProc
    BY <1>2 DEF HeldSlot, HeldRun, SlotOwner, OwnerOf
  <1> QED BY <1>3, <1>4 DEF Slot!SlotInit

\* No collection is live in an empty table.
LEMMA InitShort == Init => ShortInv
  BY DEF Init, ShortInv, Collecting

\* If no live collection outlasts the stale threshold, the collection_runs
\* table and the processes around it are the slot of RunSlot.
THEOREM Implementation ==
  ASSUME RunLimit <= StaleAfter PROVE Spec => ImplementsSlot
  <1>1. IInv /\ ShortInv /\ [Next]_vars => ShortInv'
    BY ShortInductive
  <1>2. IInv /\ ShortInv => SlotView
    BY MappingIsView
  <1>3. IInv /\ ShortInv /\ SlotView /\ SlotView' /\ [Next]_vars
          => [Slot!SlotNext]_<<HeldSlot, SlotOwner, RunOutcome>>
    BY StepRefines
  <1>4. [][Slot!SlotNext]_<<HeldSlot, SlotOwner, RunOutcome>> /\ Slot!SlotInit
          => ImplementsSlot
    BY DEF ImplementsSlot, Slot!SlotSpec, Slot!slotVars
  <1> QED
    BY <1>1, <1>2, <1>3, <1>4, InitRefines, InitShort, InvariantIInv, PTL DEF Spec

=============================================================================
