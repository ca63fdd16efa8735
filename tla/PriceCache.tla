------------------------------ MODULE PriceCache ------------------------------
(***************************************************************************)
(* Daily closes: the price step of a collection (services/prices.py, with  *)
(* its commit in run_collection) over the table daily_prices.              *)
(*                                                                         *)
(* Time is the KST day and its phase: a trading day has no bar before the  *)
(* market opens, an intraday price while it is open, and its close from    *)
(* then on; a day may also pass without trading.  A symbol counts as fresh *)
(* for the whole day of its newest collected_at.  The first flush of a     *)
(* step takes the database's write lock, which is kept, over the requests  *)
(* for the other symbols, until the commit.  Two steps may overlap: a slow *)
(* collection can lose its slot (see CollectionRuns).                      *)
(***************************************************************************)
EXTENDS Integers, FiniteSets

CONSTANTS
  Worker, Request,  \* the scheduler process, API request threads
  Symbol,
  NoProc,      \* nobody holds the write lock
  MaxDay,      \* bound on the clock
  MaxFaults    \* bound on failed fetches, lock timeouts and crashes

Proc == Request \cup {Worker}
Day == 0..MaxDay

ASSUME PriceNames == Worker \notin Request /\ NoProc \notin Request \cup {Worker}
ASSUME PriceBounds == MaxDay \in Nat \ {0} /\ MaxFaults \in Nat

VARIABLES
  day, phase,  \* the clock in Korea
  traded,      \* the days the market has opened on; day 0 stands for the past
  price,       \* the daily_prices table: symbol and trade date -> row
  lock,        \* who holds the database's write lock
  job,         \* what each process is doing, with its session
  faults

vars == <<day, phase, traded, price, lock, job, faults>>
clock == <<day, phase, traded>>

\* A row's value, and the day of its collected_at (-1: there is no row).
NoRow == [value |-> "none", at |-> -1]
Row == [value: {"tick", "close"}, at: Day]
Rows == [Symbol -> [Day -> Row \cup {NoRow}]]

\* The answer of the data source: what each day's bar is now.
Market == [d \in Day |->
  IF d \notin traded THEN "none"
  ELSE IF d = day /\ phase = "open" THEN "tick" ELSE "close"]

\* today_kst, the symbols to do, those skipped as fresh, the current one, the
\* bars fetched for it, the dates it had rows for, the rows flushed; late says
\* that the clock has moved since.
Idle == [pc |-> "idle", today |-> -1, left |-> {}, cur |-> Worker,
         bars |-> [d \in Day |-> "none"], existing |-> {}, new |-> {},
         late |-> FALSE]

\* What p's session sees: the table, with its own flushed rows on top.
Seen(p, s, d) ==
  IF \E n \in job[p].new : n.sym = s /\ n.date = d
  THEN (CHOOSE n \in job[p].new : n.sym = s /\ n.date = d).row
  ELSE price[s][d]

MayWrite(p) == lock \in {NoProc, p}
Fault == faults < MaxFaults /\ faults' = faults + 1

Init ==
  /\ day = 1
  /\ phase = "before"
  /\ traded = {0}
  /\ price = [s \in Symbol |-> [d \in Day |-> NoRow]]
  /\ lock = NoProc
  /\ job = [p \in Proc |-> Idle]
  /\ faults = 0

-----------------------------------------------------------------------------

\* The session ends: what it has not committed is rolled back.
Leave(p) ==
  /\ job' = [job EXCEPT ![p] = Idle]
  /\ lock' = IF lock = p THEN NoProc ELSE lock

\* collect_prices_for_symbols begins: today_kst is fixed.
Begin(p) ==
  /\ job[p].pc = "idle"
  /\ job' = [job EXCEPT ![p] = [Idle EXCEPT
       !.pc = "next", !.today = day, !.left = Symbol]]
  /\ UNCHANGED <<clock, price, lock, faults>>

\* Mutant: any stored price will do.
Fresh_Ever(p, s) == \E d \in Day : Seen(p, s, d) # NoRow

\* _price_is_fresh: the newest collected_at is of today.
Fresh(p, s) ==
  /\ \E d \in Day : Seen(p, s, d).at = job[p].today
  /\ \A d \in Day : Seen(p, s, d).at <= job[p].today

\* A fresh symbol is skipped.
Skip(p, s) ==
  /\ job[p].pc = "next"
  /\ s \in job[p].left
  /\ Fresh(p, s)
  /\ job' = [job EXCEPT ![p].left = @ \ {s}]
  /\ UNCHANGED <<clock, price, lock, faults>>

\* For any other symbol the data source is asked.
Ask(p, s) ==
  /\ job[p].pc = "next"
  /\ s \in job[p].left
  /\ ~Fresh(p, s)
  /\ job' = [job EXCEPT ![p].pc = "fetch", ![p].cur = s, ![p].left = @ \ {s}]
  /\ UNCHANGED <<clock, price, lock, faults>>

\* PriceFetchError, or no bars at all: nothing to store, on to the next symbol.
FetchFails(p) ==
  /\ job[p].pc = "fetch"
  /\ Fault
  /\ job' = [job EXCEPT ![p].pc = "next"]
  /\ UNCHANGED <<clock, price, lock>>

\* The answer; store_daily_prices reads the rows there are.
Fetch(p) ==
  /\ job[p].pc = "fetch"
  /\ job' = [job EXCEPT
       ![p].pc = "store", ![p].bars = Market,
       ![p].existing = {d \in Day : Seen(p, job[p].cur, d) # NoRow}]
  /\ UNCHANGED <<clock, price, lock, faults>>

\* uq_daily_prices_symbol_date: a row thought to be missing is there by now.
Clash(p) ==
  \E d \in Day :
    /\ job[p].bars[d] # "none"
    /\ d \notin job[p].existing
    /\ Seen(p, job[p].cur, d) # NoRow

\* Mutant: rows that exist are left alone.
Upserted_InsertOnly(p) ==
  {[sym |-> job[p].cur, date |-> d, row |-> [value |-> job[p].bars[d], at |-> day]] :
     d \in {d \in Day \ job[p].existing : job[p].bars[d] # "none"}}

\* The rows the flush inserts or updates, with the time of the flush.
Upserted(p) ==
  {[sym |-> job[p].cur, date |-> d, row |-> [value |-> job[p].bars[d], at |-> day]] :
     d \in {d \in Day : job[p].bars[d] # "none"}}

\* Mutant: the lock is released after each symbol, the commit still comes last.
Flush_Unlocked(p) ==
  /\ job[p].pc = "store"
  /\ MayWrite(p)
  /\ ~Clash(p)
  /\ job' = [job EXCEPT ![p].pc = "next", ![p].new = @ \cup Upserted(p)]
  /\ UNCHANGED <<clock, price, lock, faults>>

\* store_daily_prices flushes, under the write lock.
Flush(p) ==
  /\ job[p].pc = "store"
  /\ MayWrite(p)
  /\ ~Clash(p)
  /\ job' = [job EXCEPT ![p].pc = "next", ![p].new = @ \cup Upserted(p)]
  /\ lock' = p
  /\ UNCHANGED <<clock, price, faults>>

\* IntegrityError is no PriceFetchError: the run fails, the step is rolled back.
FlushClash(p) ==
  /\ job[p].pc = "store"
  /\ MayWrite(p)
  /\ Clash(p)
  /\ Leave(p)
  /\ UNCHANGED <<clock, price, faults>>

\* run_collection commits the step.
Commit(p) ==
  /\ job[p].pc = "next"
  /\ job[p].left = {}
  /\ price' = [s \in Symbol |-> [d \in Day |-> Seen(p, s, d)]]
  /\ Leave(p)
  /\ UNCHANGED <<clock, faults>>

\* "database is locked": another step keeps the lock over its requests.
LockTimeout(p) ==
  /\ job[p].pc = "store"
  /\ ~MayWrite(p)
  /\ Fault
  /\ Leave(p)
  /\ UNCHANGED <<clock, price>>

\* A process is killed.
Crash(p) ==
  /\ job[p].pc # "idle"
  /\ Fault
  /\ Leave(p)
  /\ UNCHANGED <<clock, price>>

-----------------------------------------------------------------------------
(* The clock.  A price step is shorter than a phase, so that it lives to see *)
(* at most one of these changes.                                             *)

Pass ==
  /\ \A p \in Proc : ~job[p].late
  /\ job' = [p \in Proc |-> IF job[p].pc = "idle" THEN Idle
                            ELSE [job[p] EXCEPT !.late = TRUE]]
  /\ UNCHANGED <<price, lock, faults>>

Opens ==
  /\ phase = "before"
  /\ phase' = "open"
  /\ traded' = traded \cup {day}
  /\ UNCHANGED day
  /\ Pass

Closes ==
  /\ phase = "open"
  /\ phase' = "closed"
  /\ UNCHANGED <<day, traded>>
  /\ Pass

\* Midnight, after a day with or without trading.
Midnight ==
  /\ phase \in {"before", "closed"}
  /\ day < MaxDay
  /\ day' = day + 1
  /\ phase' = "before"
  /\ UNCHANGED traded
  /\ Pass

Advance(p) ==
  \/ \E s \in Symbol : Skip(p, s) \/ Ask(p, s)
  \/ Fetch(p) \/ Flush(p) \/ FlushClash(p) \/ Commit(p)

Next ==
  \/ \E p \in Proc :
       Begin(p) \/ Advance(p) \/ FetchFails(p) \/ LockTimeout(p) \/ Crash(p)
  \/ Opens \/ Closes \/ Midnight

Spec == Init /\ [][Next]_vars

\* The worker collects for ever, requests return, and time passes.
Fairness ==
  /\ WF_vars(Begin(Worker))
  /\ \A p \in Proc : WF_vars(Advance(p))
  /\ WF_vars(Midnight) /\ WF_vars(Closes)

FairSpec == Spec /\ Fairness

-----------------------------------------------------------------------------

\* The clock, the table and the sessions are well typed.
TypeOK ==
  /\ day \in Day
  /\ phase \in {"before", "open", "closed"}
  /\ traded \subseteq Day
  /\ price \in Rows
  /\ lock \in Proc \cup {NoProc}
  /\ job \in [Proc ->
       [pc: {"idle", "next", "fetch", "store"}, today: Day \cup {-1},
        left: SUBSET Symbol, cur: Symbol \cup {Worker},
        bars: [Day -> {"none", "tick", "close"}], existing: SUBSET Day,
        new: SUBSET [sym: Symbol, date: Day, row: Row],
        late: BOOLEAN]]
  /\ faults \in 0..MaxFaults

\* An intraday price never outlives the first refresh of a later day: once any
\* row of the symbol was collected after that day, the day's own is its close.
PastClosesAreFinal ==
  \A s \in Symbol, d \in Day :
    price[s][d].value = "tick" => \A e \in Day : price[s][e].at <= d

\* Both: what any step leaves in the table and in the sessions.
PriceInv == TypeOK /\ PastClosesAreFinal

\* A refresh that loses the race for a row loses nothing else: only the first
\* flush of a step can be rejected, later ones hold the lock and see every row.
LostRefreshLosesNothing ==
  \A p \in Proc : job[p].pc = "store" /\ job[p].new # {} => ~Clash(p)

\* Every trading day's close is stored in the end, for every symbol, whatever
\* steps fail or skip it as fresh that day; the last day of the clock aside.
EveryCloseArrives ==
  \A s \in Symbol, d \in 0..(MaxDay - 1) :
    d \in traded ~> price[s][d].value = "close"

=============================================================================
