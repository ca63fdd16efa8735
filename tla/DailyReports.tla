---------------------------- MODULE DailyReports ----------------------------
(***************************************************************************)
(* The daily report batch: services/daily_report.py, its two callers (the  *)
(* tick of workers/scheduler.py and POST /api/daily-reports/run) and the   *)
(* registrations and deletions of routers/symbols.py that go on meanwhile. *)
(*                                                                         *)
(* Every SELECT sees the last committed state and every COMMIT is atomic,  *)
(* so those are the steps.  A session's ORM objects are what it remembers  *)
(* of the rows: commit and rollback expire all of them, and an expired     *)
(* object is reloaded when touched, or found gone (ObjectDeletedError).    *)
(* Foreign keys are not enforced.  The report text is its subject.         *)
(***************************************************************************)
EXTENDS Integers, Sequences, FiniteSetsExt

CONSTANTS
  Worker,      \* the scheduler process
  Request,     \* API request threads
  Company,     \* market and code of what may be registered (unique in symbols)
  NoCompany,   \* no such row, or an expired object
  NoReport,    \* no such row
  Initial,     \* the companies registered at first, in order of their ids
  MaxSymbol, MaxReport, MaxDay,  \* bounds on ids and on the calendar
  MaxEdits,    \* bound on registrations and deletions
  MaxFaults    \* bound on failed generations, failed commits and crashes

Proc == Request \cup {Worker}
SymId == 1..MaxSymbol
RepId == 1..MaxReport
Day == 1..MaxDay

ASSUME ProcAssumption == Worker \notin Request
ASSUME TableAssumption ==
  /\ NoCompany \notin Company
  /\ Initial \in Seq(Company) /\ Len(Initial) <= MaxSymbol
  /\ \A s, t \in 1..Len(Initial) : Initial[s] = Initial[t] => s = t
ASSUME BoundAssumption ==
  /\ MaxSymbol \in Nat /\ MaxReport \in Nat /\ MaxDay \in Nat \ {0}
  /\ MaxEdits \in Nat /\ MaxFaults \in Nat

VARIABLES
  symbol,   \* the symbols table
  report,   \* the daily_reports table
  today,    \* the KST date
  dueDays,  \* days that have been due: a weekday, past 08:30
  job,      \* what each process is doing, with its session
  taken,    \* symbols and days whose report a deletion has taken away; the code
            \* keeps no such record, only properties read it
  edits, faults

vars == <<symbol, report, today, dueDays, job, taken, edits, faults>>

Report == [sym: SymId, day: Day, about: Company, by: Proc]

ASSUME ReportAssumption == NoReport \notin Report

Expired == [s \in SymId |-> NoCompany]

\* pc, report_date, overwrite, symbols still to do, the session's symbols,
\* the current symbol, its existing report (0: none), symbols generated, and
\* the reports a deletion is about to remove.
Idle == [pc |-> "idle", date |-> 0, over |-> FALSE, left |-> {},
         seen |-> Expired, cur |-> 0, old |-> 0, done |-> {}, doomed |-> {}]

Registered == {s \in SymId : symbol[s] # NoCompany}
Stored == {r \in RepId : report[r] # NoReport}
ReportsOf(s, d) == {r \in Stored : report[r].sym = s /\ report[r].day = d}

\* SQLite gives a new row one more than the largest id in use: the id of a
\* deleted last row comes back.
NextId(used) == Max(used \cup {0}) + 1

Fault == faults < MaxFaults /\ faults' = faults + 1
Edit == edits < MaxEdits /\ edits' = edits + 1

Init ==
  /\ symbol = [s \in SymId |-> IF s <= Len(Initial) THEN Initial[s] ELSE NoCompany]
  /\ report = [r \in RepId |-> NoReport]
  /\ today = 1
  /\ dueDays = {}
  /\ job = [p \in Proc |-> Idle]
  /\ taken = {}
  /\ edits = 0
  /\ faults = 0

-----------------------------------------------------------------------------

\* Mutant: the test for an existing report is inverted.
ReportsDue_Inverted == today \in dueDays /\ \E r \in Stored : report[r].day = today

\* should_generate_today
ReportsDue == today \in dueDays /\ \A r \in Stored : report[r].day # today

Start(p, ids, overwrite) ==
  /\ job[p].pc = "idle"
  /\ job' = [job EXCEPT ![p] = [Idle EXCEPT !.pc = "load", !.date = today,
                                            !.over = overwrite, !.left = ids]]
  /\ UNCHANGED <<symbol, report, today, dueDays, taken, edits, faults>>

\* The worker's tick, for all symbols.
Scheduled == ReportsDue /\ Start(Worker, {}, FALSE)

\* A user asks for some of the registered symbols, at any time.
Requested(p) ==
  \E ids \in SUBSET Registered \ {{}}, overwrite \in BOOLEAN : Start(p, ids, overwrite)

\* Mutant: a batch without a list of symbols takes the first.
Load_First(p) ==
  /\ job[p].pc = "load"
  /\ LET ids == IF p = Worker THEN Registered \cap {1} ELSE job[p].left \cap Registered
     IN  job' = [job EXCEPT
           ![p].pc = "look",
           ![p].left = ids,
           ![p].seen = [s \in SymId |-> IF s \in ids THEN symbol[s] ELSE NoCompany]]
  /\ UNCHANGED <<symbol, report, today, dueDays, taken, edits, faults>>

\* The symbols of the batch are loaded.
Load(p) ==
  /\ job[p].pc = "load"
  /\ LET ids == IF p = Worker THEN Registered ELSE job[p].left \cap Registered
     IN  job' = [job EXCEPT
           ![p].pc = "look",
           ![p].left = ids,
           ![p].seen = [s \in SymId |-> IF s \in ids THEN symbol[s] ELSE NoCompany]]
  /\ UNCHANGED <<symbol, report, today, dueDays, taken, edits, faults>>

\* What touching the object of symbol s gives: what the session remembers, or
\* the row it reloads, or NoCompany when that row is gone.
Touch(p, s) == IF job[p].seen[s] # NoCompany THEN job[p].seen[s] ELSE symbol[s]

\* Already reported today: skipped, unless asked to overwrite.
Skip(p, s) ==
  /\ job[p].pc = "look"
  /\ s \in job[p].left
  /\ Touch(p, s) # NoCompany
  /\ ReportsOf(s, job[p].date) # {}
  /\ ~job[p].over
  /\ job' = [job EXCEPT ![p].left = @ \ {s}, ![p].seen[s] = Touch(p, s)]
  /\ UNCHANGED <<symbol, report, today, dueDays, taken, edits, faults>>

\* The existing report, if any, is looked up before the text is generated.
Look(p, s) ==
  /\ job[p].pc = "look"
  /\ s \in job[p].left
  /\ Touch(p, s) # NoCompany
  /\ ReportsOf(s, job[p].date) = {} \/ job[p].over
  /\ job' = [job EXCEPT ![p].pc = "generate",
                        ![p].cur = s,
                        ![p].seen[s] = Touch(p, s),
                        ![p].old = Max(ReportsOf(s, job[p].date) \cup {0})]
  /\ UNCHANGED <<symbol, report, today, dueDays, taken, edits, faults>>

\* The prompt is built from the session's symbol; the CLI answers.
Generate(p) ==
  /\ job[p].pc = "generate"
  /\ job' = [job EXCEPT ![p].pc = "store"]
  /\ UNCHANGED <<symbol, report, today, dueDays, taken, edits, faults>>

\* The CLI is down or times out: None skips the symbol.
NoAnswer(p) ==
  /\ job[p].pc = "generate"
  /\ Fault
  /\ job' = [job EXCEPT ![p].pc = "look", ![p].left = @ \ {job[p].cur}]
  /\ UNCHANGED <<symbol, report, today, dueDays, taken, edits>>

\* A commit: the symbol is counted and every object expires.
Committed(p) ==
  job' = [job EXCEPT ![p].pc = "look",
                     ![p].left = @ \ {job[p].cur},
                     ![p].seen = Expired,
                     ![p].done = @ \cup {job[p].cur}]

\* Mutants of StoreNew: the insert replaces a report that appeared meanwhile;
\* the date is taken anew for each symbol; the symbol is read anew, unchecked.
StoreNew_Upsert(p) ==
  /\ job[p].pc = "store"
  /\ job[p].old = 0
  /\ LET r == IF ReportsOf(job[p].cur, job[p].date) = {} THEN NextId(Stored)
              ELSE Max(ReportsOf(job[p].cur, job[p].date))
     IN  /\ r \in RepId
         /\ report' = [report EXCEPT ![r] =
              [sym |-> job[p].cur, day |-> job[p].date,
               about |-> job[p].seen[job[p].cur], by |-> p]]
  /\ Committed(p)
  /\ UNCHANGED <<symbol, today, dueDays, taken, edits, faults>>
StoreNew_Today(p) ==
  /\ job[p].pc = "store"
  /\ job[p].old = 0
  /\ ReportsOf(job[p].cur, today) = {}
  /\ NextId(Stored) \in RepId
  /\ report' = [report EXCEPT ![NextId(Stored)] =
       [sym |-> job[p].cur, day |-> today,
        about |-> job[p].seen[job[p].cur], by |-> p]]
  /\ Committed(p)
  /\ UNCHANGED <<symbol, today, dueDays, taken, edits, faults>>

StoreNew_Reread(p) ==
  /\ job[p].pc = "store"
  /\ job[p].old = 0
  /\ ReportsOf(job[p].cur, job[p].date) = {}
  /\ NextId(Stored) \in RepId
  /\ report' = [report EXCEPT ![NextId(Stored)] =
       [sym |-> job[p].cur, day |-> job[p].date,
        about |-> symbol[job[p].cur], by |-> p]]
  /\ Committed(p)
  /\ UNCHANGED <<symbol, today, dueDays, taken, edits, faults>>

\* _store_report inserts, if the unique index still lets it.
StoreNew(p) ==
  /\ job[p].pc = "store"
  /\ job[p].old = 0
  /\ ReportsOf(job[p].cur, job[p].date) = {}
  /\ NextId(Stored) \in RepId
  /\ report' = [report EXCEPT ![NextId(Stored)] =
       [sym |-> job[p].cur, day |-> job[p].date,
        about |-> job[p].seen[job[p].cur], by |-> p]]
  /\ Committed(p)
  /\ UNCHANGED <<symbol, today, dueDays, taken, edits, faults>>

\* _store_report updates the report that was looked up, by its id.
StoreOver(p) ==
  /\ job[p].pc = "store"
  /\ job[p].old \in Stored
  /\ report' = [report EXCEPT ![job[p].old].about = job[p].seen[job[p].cur],
                              ![job[p].old].by = p]
  /\ Committed(p)
  /\ UNCHANGED <<symbol, today, dueDays, taken, edits, faults>>

\* IntegrityError or StaleDataError: the broad except rolls back.
Conflict(p) ==
  /\ job[p].pc = "store"
  /\ \/ job[p].old = 0 /\ ReportsOf(job[p].cur, job[p].date) # {}
     \/ job[p].old # 0 /\ job[p].old \notin Stored
  /\ job' = [job EXCEPT ![p].pc = "caught", ![p].seen = Expired]
  /\ UNCHANGED <<symbol, report, today, dueDays, taken, edits, faults>>

\* Mutant of Broken: the symbol is counted before the commit that failed.
Broken_Counted(p) ==
  /\ job[p].pc \in {"generate", "store"}
  /\ Fault
  /\ job' = [job EXCEPT ![p].pc = "caught", ![p].seen = Expired,
                        ![p].done = @ \cup {job[p].cur}]
  /\ UNCHANGED <<symbol, report, today, dueDays, taken, edits>>

\* Any other exception inside the try: the adapter, or a locked database.
Broken(p) ==
  /\ job[p].pc \in {"generate", "store"}
  /\ Fault
  /\ job' = [job EXCEPT ![p].pc = "caught", ![p].seen = Expired]
  /\ UNCHANGED <<symbol, report, today, dueDays, taken, edits>>

\* Mutant of Caught: the handler logs and re-raises.
Caught_Raises(p) ==
  /\ job[p].pc = "caught"
  /\ job' = [job EXCEPT ![p] = Idle]
  /\ UNCHANGED <<symbol, report, today, dueDays, taken, edits, faults>>

\* The handler names the symbol, which reloads it, and goes on.
Caught(p) ==
  /\ job[p].pc = "caught"
  /\ symbol[job[p].cur] # NoCompany
  /\ job' = [job EXCEPT ![p].pc = "look",
                        ![p].left = @ \ {job[p].cur},
                        ![p].seen[job[p].cur] = symbol[job[p].cur]]
  /\ UNCHANGED <<symbol, report, today, dueDays, taken, edits, faults>>

\* ObjectDeletedError outside the try, or in the handler: the batch is over.
Vanished(p) ==
  /\ \/ job[p].pc = "look" /\ \E s \in job[p].left : Touch(p, s) = NoCompany
     \/ job[p].pc = "caught" /\ symbol[job[p].cur] = NoCompany
  /\ job' = [job EXCEPT ![p] = Idle]
  /\ UNCHANGED <<symbol, report, today, dueDays, taken, edits, faults>>

Finish(p) ==
  /\ job[p].pc = "look"
  /\ job[p].left = {}
  /\ job' = [job EXCEPT ![p] = Idle]
  /\ UNCHANGED <<symbol, report, today, dueDays, taken, edits, faults>>

\* A process is killed: the worker, or the API server with all its requests.
Crash(ps) ==
  /\ \E p \in ps : job[p] # Idle
  /\ Fault
  /\ job' = [p \in Proc |-> IF p \in ps THEN Idle ELSE job[p]]
  /\ UNCHANGED <<symbol, report, today, dueDays, taken, edits>>

-----------------------------------------------------------------------------

\* create_symbol: market and code are unique.
Register ==
  /\ Edit
  /\ NextId(Registered) \in SymId
  /\ \E c \in Company \ {symbol[s] : s \in SymId} :
       symbol' = [symbol EXCEPT ![NextId(Registered)] = c]
  /\ UNCHANGED <<report, today, dueDays, job, taken, faults>>

\* delete_symbol: db.delete loads the symbol's reports ...
DeleteLoad(p, s) ==
  /\ job[p].pc = "idle"
  /\ Edit
  /\ s \in Registered
  /\ job' = [job EXCEPT ![p] = [Idle EXCEPT
               !.pc = "delete", !.cur = s,
               !.doomed = {r \in Stored : report[r].sym = s}]]
  /\ UNCHANGED <<symbol, report, today, dueDays, taken, faults>>

\* ... and the commit removes those, and the symbol, by id.
DeleteCommit(p) ==
  /\ job[p].pc = "delete"
  /\ symbol' = [symbol EXCEPT ![job[p].cur] = NoCompany]
  /\ report' = [r \in RepId |-> IF r \in job[p].doomed THEN NoReport ELSE report[r]]
  /\ taken' = taken \cup {<<report[r].sym, report[r].day>> :
                           r \in job[p].doomed \cap Stored}
  /\ job' = [job EXCEPT ![p] = Idle]
  /\ UNCHANGED <<today, dueDays, edits, faults>>

\* On a weekday the clock passes 08:30.
BecomesDue ==
  /\ today \notin dueDays
  /\ dueDays' = dueDays \cup {today}
  /\ UNCHANGED <<symbol, report, today, job, taken, edits, faults>>

Midnight ==
  /\ today < MaxDay
  /\ today' = today + 1
  /\ UNCHANGED <<symbol, report, dueDays, job, taken, edits, faults>>

-----------------------------------------------------------------------------

Advance(p) ==
  \/ Load(p)
  \/ \E s \in SymId : Skip(p, s) \/ Look(p, s)
  \/ Generate(p)
  \/ StoreNew(p)
  \/ StoreOver(p)
  \/ Conflict(p)
  \/ Caught(p)
  \/ Vanished(p)
  \/ Finish(p)
  \/ DeleteCommit(p)

Next ==
  \/ Scheduled
  \/ \E p \in Request : Requested(p)
  \/ \E p \in Proc : Advance(p)
  \/ \E p \in Proc : NoAnswer(p) \/ Broken(p)
  \/ Crash({Worker}) \/ Crash(Request)
  \/ Register
  \/ \E p \in Request, s \in SymId : DeleteLoad(p, s)
  \/ BecomesDue
  \/ Midnight

Spec == Init /\ [][Next]_vars

\* The worker ticks forever and calls in flight return (the CLI has a timeout).
Fairness == WF_vars(Scheduled) /\ \A p \in Proc : WF_vars(Advance(p))

FairSpec == Spec /\ Fairness

-----------------------------------------------------------------------------

Job == [pc: {"idle", "load", "look", "generate", "store", "caught", "delete"},
        date: Day \cup {0}, over: BOOLEAN, left: SUBSET SymId,
        seen: [SymId -> Company \cup {NoCompany}],
        cur: SymId \cup {0}, old: RepId \cup {0},
        done: SUBSET SymId, doomed: SUBSET RepId]

TypeOK ==
  /\ symbol \in [SymId -> Company \cup {NoCompany}]
  /\ report \in [RepId -> Report \cup {NoReport}]
  /\ today \in Day
  /\ dueDays \subseteq Day
  /\ job \in [Proc -> Job]
  /\ taken \subseteq SymId \X Day
  /\ edits \in 0..MaxEdits
  /\ faults \in 0..MaxFaults

\* A report is only ever replaced by a batch told to overwrite, working on
\* that very symbol and day: never by another batch that raced it, although
\* every batch decides before a generation that takes minutes.  Unless a deletion
\* took the report the batch had found: the id it still holds may since have been
\* given to the report of another symbol or day, which is then overwritten.
OverwritesOwn ==
  \A r \in Stored :
    report'[r] \notin {report[r], NoReport} =>
      LET by == job[report'[r].by]
      IN  /\ by.over
          /\ \/ by.cur = report[r].sym /\ by.date = report[r].day
             \/ <<by.cur, by.date>> \in taken

\* No step overwrites a report nobody asked to overwrite.
NoSilentOverwrite == [][OverwritesOwn]_vars

\* What the scheduler writes is dated on a weekday it was due on, even when
\* the batch runs past midnight into a day that is not.
ScheduledDayWasDue ==
  \A r \in Stored : report[r].by = Worker => report[r].day \in dueDays

\* A batch counts as generated only symbols whose report of its day is stored,
\* or has been taken away by a deletion.
GeneratedIsStored ==
  \A p \in Proc : \A s \in job[p].done :
    ReportsOf(s, job[p].date) # {} \/ <<s, job[p].date>> \in taken

\* Nothing but the deletion of a symbol still to be done, or the death of the
\* process, cuts a batch short: a failed generation, a lost race or a failed
\* commit never does.
OnlyDeletionAborts ==
  \A p \in Proc :
    job[p].pc \notin {"idle", "delete"} /\ job'[p].pc = "idle" /\ faults' = faults
    => job[p].left = {} \/ job[p].left \ Registered # {}

\* No step but one that finds a symbol deleted leaves symbols behind.
AbortedByDeletion == [][OnlyDeletionAborts]_vars

\* The reports shown under a registered symbol are about its company, even if
\* its id belonged to another one before.
AboutItsSymbol ==
  \A r \in Stored :
    report[r].sym \in Registered => report[r].about = symbol[report[r].sym]

\* What a batch carries from one step to the next: a day, a symbol it has seen,
\* and a report to overwrite only if it was told to.
JobInv ==
  \A p \in Proc :
    /\ job[p].pc \notin {"idle", "delete"} => job[p].date \in Day
    /\ job[p].pc \in {"generate", "store", "caught", "delete"} => job[p].cur \in SymId
    /\ job[p].pc \in {"generate", "store"} =>
         /\ job[p].seen[job[p].cur] # NoCompany
         /\ ~job[p].over => job[p].old = 0

\* The worker's batch has been due since it began, and never overwrites.
DueInv ==
  job[Worker].pc # "idle" =>
    /\ job[Worker].pc # "delete"
    /\ job[Worker].date \in dueDays
    /\ ~job[Worker].over

\* The report a batch found is still the one of its symbol and day when it
\* stores, unless a deletion has taken it.
TargetInv ==
  \A p \in Proc :
    job[p].pc \in {"generate", "store"} /\ job[p].old # 0 =>
      \/ <<job[p].cur, job[p].date>> \in taken
      \/ /\ job[p].old \in Stored
         /\ report[job[p].old].sym = job[p].cur
         /\ report[job[p].old].day = job[p].date

BatchInv == TypeOK /\ JobInv
WorkerInv == DueInv /\ ScheduledDayWasDue
StoreInv == TargetInv /\ GeneratedIsStored

ReportedOn(s, d) == ReportsOf(s, d) # {}

\* A due day gets a report in the end: a batch that failed or died before its
\* first report is retried by a later tick.
DueDayIsReported ==
  \A d \in Day :
    today = d /\ d \in dueDays /\ Registered # {}
      ~> today # d \/ Registered = {} \/ \E s \in SymId : ReportedOn(s, d)

\* On a due day every registered symbol gets its report, as long as nobody has
\* asked for one, no symbol comes or goes and nothing fails: any report of the
\* day keeps the scheduler from starting, so that a manual one, or a batch that
\* died after its first, leaves the others without.
EverySymbolIsReported ==
  \A d \in Day, s \in SymId :
    today = d /\ d \in dueDays /\ s \in Registered
      ~> \/ today # d \/ ReportedOn(s, d)
         \/ edits > 0 \/ faults > 0 \/ \E r \in Stored : report[r].by \in Request

=============================================================================
