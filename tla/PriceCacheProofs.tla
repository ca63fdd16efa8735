-------------------------- MODULE PriceCacheProofs --------------------------
(***************************************************************************)
(* Theorems about PriceCache, for every set of requests and symbols and    *)
(* all bounds on the days and the faults.                                  *)
(***************************************************************************)
EXTENDS PriceCache, TLAPS

\* What a job may be.
Job == [pc: {"idle", "next", "fetch", "store"}, today: Day \cup {-1},
        left: SUBSET Symbol, cur: Symbol \cup {Worker},
        bars: [Day -> {"none", "tick", "close"}], existing: SUBSET Day,
        new: SUBSET [sym: Symbol, date: Day, row: Row],
        late: BOOLEAN]

\* A price that may still change is one of the current day, read while the market
\* was open by a step that the clock has overtaken once since, if at all.
Unsettled(j, d) == d = day /\ (phase = "open" \/ j.late)

\* The answer a step is about to store has every day traded on, except the
\* current one if it was asked for before the market opened.
AnswerOK(j) ==
  /\ j.pc \in {"fetch", "store"} => j.cur \in Symbol
  /\ j.pc = "store" =>
       \A d \in Day :
         /\ j.bars[d] # "none" => d \in traded
         /\ j.bars[d] = "tick" => Unsettled(j, d)
         /\ j.bars[d] = "none" /\ d \in traded => d = day /\ j.late

\* The same of the rows it has flushed for a symbol.
FlushedOK(j) ==
  \A n \in j.new :
    /\ n.row.at <= day
    /\ n.row.value = "tick" => Unsettled(j, n.date) /\ n.date \in traded
    /\ \A d \in traded :
         (\E m \in j.new : m.sym = n.sym /\ m.date = d) \/ (d = day /\ j.late)

SessionInv == \A p \in Proc : AnswerOK(job[p]) /\ FlushedOK(job[p])

\* What is in the table is from a day traded on, and not from the future.
TableInv ==
  \A s \in Symbol, d \in Day :
    /\ price[s][d].at <= day
    /\ price[s][d].value = "tick" => d \in traded

\* The induction for PriceInv.
CloseInv == PriceInv /\ SessionInv /\ TableInv

-----------------------------------------------------------------------------
(* What a step sees and writes. *)

\* A session sees a row it has flushed, or else the one in the table.
LEMMA SeenRow ==
  ASSUME TypeOK, NEW p \in Proc, NEW s \in Symbol, NEW d \in Day
  PROVE  /\ Seen(p, s, d) \in Row \cup {NoRow}
         /\ \/ \E n \in job[p].new :
                 n.sym = s /\ n.date = d /\ Seen(p, s, d) = n.row
            \/ /\ \A n \in job[p].new : ~(n.sym = s /\ n.date = d)
               /\ Seen(p, s, d) = price[s][d]
  <1>1. price[s][d] \in Row \cup {NoRow}
    BY DEF TypeOK, Rows
  <1>2. job[p].new \subseteq [sym: Symbol, date: Day, row: Row]
    BY DEF TypeOK
  <1>3. CASE \E n \in job[p].new : n.sym = s /\ n.date = d
    <2> DEFINE m == CHOOSE n \in job[p].new : n.sym = s /\ n.date = d
    <2>1. m \in job[p].new /\ m.sym = s /\ m.date = d
      BY <1>3
    <2>2. Seen(p, s, d) = m.row
      BY <1>3 DEF Seen
    <2> HIDE DEF m
    <2> QED BY <2>1, <2>2, <1>2
  <1>4. CASE ~\E n \in job[p].new : n.sym = s /\ n.date = d
    BY <1>1, <1>4 DEF Seen
  <1> QED BY <1>3, <1>4

\* An idle job has nothing to answer for.
LEMMA IdleOK == Idle \in Job /\ AnswerOK(Idle) /\ FlushedOK(Idle)
  BY DEF Idle, Job, AnswerOK, FlushedOK

\* What is flushed are rows.
LEMMA UpsertedType ==
  ASSUME TypeOK, NEW p \in Proc, AnswerOK(job[p]), job[p].pc = "store"
  PROVE  /\ Upserted(p) \subseteq [sym: Symbol, date: Day, row: Row]
         /\ \A n \in Upserted(p) :
              /\ n.sym = job[p].cur /\ n.row.at = day
              /\ n.row.value = job[p].bars[n.date] /\ n.row.value # "none"
         /\ \A d \in Day : job[p].bars[d] # "none" =>
              \E n \in Upserted(p) : n.sym = job[p].cur /\ n.date = d
  <1>1. job[p].bars \in [Day -> {"none", "tick", "close"}] /\ job[p].cur \in Symbol
        /\ day \in Day
    BY DEF TypeOK, AnswerOK
  <1> DEFINE row(d) == [sym |-> job[p].cur, date |-> d,
                        row |-> [value |-> job[p].bars[d], at |-> day]]
  <1>2. ASSUME NEW n \in Upserted(p)
        PROVE  \E d \in Day : job[p].bars[d] # "none" /\ n = row(d)
    BY DEF Upserted
  <1>3. ASSUME NEW d \in Day, job[p].bars[d] # "none"
        PROVE  row(d) \in Upserted(p)
    BY <1>3 DEF Upserted
  <1>4. ASSUME NEW d \in Day, job[p].bars[d] # "none"
        PROVE  /\ row(d) \in [sym: Symbol, date: Day, row: Row]
               /\ row(d).sym = job[p].cur /\ row(d).date = d
               /\ row(d).row.at = day /\ row(d).row.value = job[p].bars[d]
    BY <1>1, <1>4 DEF Row
  <1> HIDE DEF row
  <1> QED BY <1>2, <1>3, <1>4

\* A step that changes one job, and not the clock, keeps the sessions' part.
LEMMA OneJob ==
  ASSUME CloseInv, NEW p \in Proc, NEW j \in Job, AnswerOK(j), FlushedOK(j),
         job' = [job EXCEPT ![p] = j], UNCHANGED clock
  PROVE  job' \in [Proc -> Job] /\ SessionInv'
  <1>1. job \in [Proc -> Job]
    BY DEF CloseInv, PriceInv, TypeOK, Job
  <1>2. job'[p] = j /\ \A q \in Proc : q # p => job'[q] = job[q]
    BY <1>1
  <1>3. day' = day /\ phase' = phase /\ traded' = traded
    BY DEF clock
  <1>4. AnswerOK(j)' /\ FlushedOK(j)'
    BY <1>3 DEF AnswerOK, FlushedOK, Unsettled
  <1>5. ASSUME NEW q \in Proc PROVE (AnswerOK(job[q]) /\ FlushedOK(job[q]))'
    <2>1. CASE q = p
      BY <2>1, <1>2, <1>3 DEF AnswerOK, FlushedOK, Unsettled
    <2>2. CASE q # p
      BY <2>2, <1>2, <1>3 DEF CloseInv, SessionInv, AnswerOK, FlushedOK, Unsettled
    <2> QED BY <2>1, <2>2
  <1> QED BY <1>1, <1>5 DEF SessionInv

-----------------------------------------------------------------------------
(* The steps. *)

\* Those of a job that do not end it.
LEMMA JobSteps ==
  ASSUME CloseInv, NEW p \in Proc,
         Begin(p) \/ FetchFails(p) \/ Fetch(p) \/ Flush(p)
           \/ \E s \in Symbol : Skip(p, s) \/ Ask(p, s)
  PROVE  job' \in [Proc -> Job] /\ SessionInv'
  <1>0. /\ job \in [Proc -> Job] /\ job[p] \in Job /\ day \in Day
        /\ AnswerOK(job[p]) /\ FlushedOK(job[p])
    BY DEF CloseInv, PriceInv, TypeOK, Job, SessionInv
  <1>1. CASE Begin(p)
    <2> DEFINE j == [Idle EXCEPT !.pc = "next", !.today = day, !.left = Symbol]
    <2>1. job' = [job EXCEPT ![p] = j] /\ UNCHANGED clock
      BY <1>1 DEF Begin
    <2>2. j \in Job /\ AnswerOK(j) /\ FlushedOK(j)
      BY <1>0, IdleOK DEF Idle, Job, AnswerOK, FlushedOK
    <2> HIDE DEF j
    <2> QED BY <2>1, <2>2, OneJob
  <1>2. CASE FetchFails(p)
    <2> DEFINE j == [job[p] EXCEPT !.pc = "next"]
    <2>1. job' = [job EXCEPT ![p] = j] /\ UNCHANGED clock
      BY <1>0, <1>2 DEF FetchFails, Job
    <2>2. j \in Job /\ AnswerOK(j) /\ FlushedOK(j)
      BY <1>0 DEF Job, AnswerOK, FlushedOK, Unsettled
    <2> HIDE DEF j
    <2> QED BY <2>1, <2>2, OneJob
  <1>3. ASSUME NEW s \in Symbol, Skip(p, s) PROVE job' \in [Proc -> Job] /\ SessionInv'
    <2> DEFINE j == [job[p] EXCEPT !.left = @ \ {s}]
    <2>1. job' = [job EXCEPT ![p] = j] /\ UNCHANGED clock
      BY <1>0, <1>3 DEF Skip, Job
    <2>2. j \in Job /\ AnswerOK(j) /\ FlushedOK(j)
      BY <1>0 DEF Job, AnswerOK, FlushedOK, Unsettled
    <2> HIDE DEF j
    <2> QED BY <2>1, <2>2, OneJob
  <1>4. ASSUME NEW s \in Symbol, Ask(p, s) PROVE job' \in [Proc -> Job] /\ SessionInv'
    <2> DEFINE j == [job[p] EXCEPT !.pc = "fetch", !.cur = s, !.left = @ \ {s}]
    <2>1. job' = [job EXCEPT ![p] = j] /\ UNCHANGED clock
      BY <1>0, <1>4 DEF Ask, Job
    <2>2. /\ j \in Job /\ j.new = job[p].new /\ j.late = job[p].late
          /\ j.pc = "fetch" /\ j.cur = s
      BY <1>0 DEF Job
    <2> HIDE DEF j
    <2>3. AnswerOK(j) /\ FlushedOK(j)
      BY <1>0, <2>2 DEF AnswerOK, FlushedOK, Unsettled
    <2> QED BY <2>1, <2>2, <2>3, OneJob
  <1>5. CASE Fetch(p)
    <2> DEFINE known == {d \in Day : Seen(p, job[p].cur, d) # NoRow}
               j == [job[p] EXCEPT !.pc = "store", !.bars = Market, !.existing = known]
    <2>1. job' = [job EXCEPT ![p] = j] /\ UNCHANGED clock
      BY <1>0, <1>5 DEF Fetch, Job
    <2>2. /\ Market \in [Day -> {"none", "tick", "close"}]
          /\ \A d \in Day :
               /\ Market[d] = "none" <=> d \notin traded
               /\ Market[d] = "tick" => d = day /\ phase = "open"
      BY DEF Market
    <2>3. known \in SUBSET Day
      OBVIOUS
    <2>4. job[p].cur \in Symbol
      BY <1>5, <1>0 DEF Fetch, AnswerOK
    <2>5. /\ j \in Job /\ j.new = job[p].new /\ j.late = job[p].late
          /\ j.bars = Market /\ j.cur = job[p].cur
      <3> HIDE DEF known
      <3> QED BY <1>0, <2>2, <2>3 DEF Job
    <2> HIDE DEF j, known
    <2>6. AnswerOK(j) /\ FlushedOK(j)
      BY <1>0, <2>2, <2>4, <2>5 DEF AnswerOK, FlushedOK, Unsettled
    <2> QED BY <2>1, <2>5, <2>6, OneJob
  <1>6. CASE Flush(p)
    <2> DEFINE j == [job[p] EXCEPT !.pc = "next", !.new = @ \cup Upserted(p)]
    <2>1. job' = [job EXCEPT ![p] = j] /\ UNCHANGED clock
      BY <1>0, <1>6 DEF Flush, Job
    <2>2. job[p].pc = "store" /\ TypeOK
      BY <1>6 DEF Flush, CloseInv, PriceInv
    <2>3. /\ j \in Job /\ j.new = job[p].new \cup Upserted(p)
          /\ j.late = job[p].late /\ j.pc = "next"
      BY <1>0, <2>2, UpsertedType DEF Job
    <2> HIDE DEF j
    <2>4. AnswerOK(j)
      BY <2>3 DEF AnswerOK
    <2>5. ASSUME NEW n \in j.new
          PROVE  /\ n.row.at <= day
                 /\ n.row.value = "tick" => Unsettled(j, n.date) /\ n.date \in traded
                 /\ \A d \in traded :
                      (\E m \in j.new : m.sym = n.sym /\ m.date = d)
                        \/ (d = day /\ j.late)
      <3>1. CASE n \in job[p].new
        BY <3>1, <1>0, <2>3 DEF FlushedOK, Unsettled
      <3>2. CASE n \in Upserted(p)
        <4>1. /\ n.sym = job[p].cur /\ n.row.at = day
              /\ n.row.value = job[p].bars[n.date] /\ n.date \in Day
          BY <3>2, <1>0, <2>2, UpsertedType
        <4>2. n.row.value = "tick" => Unsettled(j, n.date) /\ n.date \in traded
          BY <4>1, <1>0, <2>2, <2>3 DEF AnswerOK, Unsettled
        <4>3. ASSUME NEW d \in traded
              PROVE  (\E m \in j.new : m.sym = n.sym /\ m.date = d)
                       \/ (d = day /\ j.late)
          <5>1. d \in Day
            BY <2>2 DEF TypeOK
          <5>2. CASE job[p].bars[d] = "none"
            BY <5>1, <5>2, <1>0, <2>2, <2>3 DEF AnswerOK
          <5>3. CASE job[p].bars[d] # "none"
            BY <5>1, <5>3, <4>1, <1>0, <2>2, <2>3, UpsertedType
          <5> QED BY <5>2, <5>3
        <4> QED BY <4>1, <4>2, <4>3, <1>0 DEF Day
      <3> QED BY <3>1, <3>2, <2>3
    <2> QED BY <2>1, <2>3, <2>4, <2>5, OneJob DEF FlushedOK
  <1> QED BY <1>1, <1>2, <1>3, <1>4, <1>5, <1>6

\* A job that ends.
LEMMA LeaveStep ==
  ASSUME CloseInv, NEW p \in Proc, Leave(p), UNCHANGED clock
  PROVE  job' \in [Proc -> Job] /\ SessionInv' /\ lock' \in Proc \cup {NoProc}
  BY IdleOK, OneJob DEF Leave, CloseInv, PriceInv, TypeOK

\* The commit: what a session sees becomes the table.
LEMMA CommitRows ==
  ASSUME CloseInv, NEW p \in Proc, Commit(p)
  PROVE  price' \in Rows /\ TableInv' /\ PastClosesAreFinal'
  <1>0. /\ TypeOK /\ PastClosesAreFinal /\ TableInv /\ FlushedOK(job[p])
        /\ day \in Int /\ day' = day /\ traded' = traded
    BY DEF CloseInv, PriceInv, SessionInv, TypeOK, Commit, clock, Day
  <1>1. price' \in Rows /\ \A s \in Symbol, d \in Day : price'[s][d] = Seen(p, s, d)
    BY <1>0, SeenRow DEF Commit, Rows
  <1>2. ASSUME NEW s \in Symbol, NEW d \in Day
        PROVE  Seen(p, s, d).at <= day /\ Seen(p, s, d).at \in Int
    BY <1>0, SeenRow DEF TableInv, FlushedOK, Row, NoRow, Day
  <1>3. ASSUME NEW s \in Symbol, NEW d \in Day, Seen(p, s, d).value = "tick"
        PROVE  d \in traded /\ \A e \in Day : Seen(p, s, e).at <= d
    <2>1. CASE \E n \in job[p].new : n.sym = s /\ n.date = d /\ Seen(p, s, d) = n.row
      BY <2>1, <1>0, <1>2, <1>3 DEF FlushedOK, Unsettled
    <2>2. CASE /\ \A n \in job[p].new : ~(n.sym = s /\ n.date = d)
               /\ Seen(p, s, d) = price[s][d]
      <3>1. d \in traded /\ \A e \in Day : price[s][e].at <= d
        BY <2>2, <1>0, <1>3 DEF TableInv, PastClosesAreFinal
      <3>2. CASE \E n \in job[p].new : n.sym = s
        <4>1. d = day
          BY <2>2, <3>1, <3>2, <1>0 DEF FlushedOK
        <4> QED BY <3>1, <4>1, <1>2
      <3>3. CASE ~\E n \in job[p].new : n.sym = s
        <4>1. \A e \in Day : Seen(p, s, e) = price[s][e]
          BY <3>3, <1>0, SeenRow
        <4> QED BY <3>1, <4>1
      <3> QED BY <3>2, <3>3
    <2> QED BY <2>1, <2>2, <1>0, SeenRow
  <1> QED BY <1>0, <1>1, <1>2, <1>3 DEF TableInv, PastClosesAreFinal

\* A change of the phase or of the day.  It finds no step that one has overtaken
\* before, so that there are no unsettled prices when the day ends.
LEMMA ClockStep ==
  ASSUME CloseInv, Opens \/ Closes \/ Midnight
  PROVE  CloseInv'
  <1>0. /\ TypeOK /\ PastClosesAreFinal /\ TableInv /\ SessionInv
        /\ job \in [Proc -> Job] /\ day \in Int /\ traded \subseteq Day
    BY DEF CloseInv, PriceInv, TypeOK, Job, Day
  <1>1. /\ \A p \in Proc : ~job[p].late
        /\ UNCHANGED <<price, lock, faults>>
        /\ job' = [p \in Proc |-> IF job[p].pc = "idle" THEN Idle
                                  ELSE [job[p] EXCEPT !.late = TRUE]]
    BY DEF Opens, Closes, Midnight, Pass
  <1>2. /\ day' \in Day /\ day <= day' /\ phase' \in {"before", "open", "closed"}
        /\ traded \subseteq traded' /\ traded' \subseteq Day
    <2>1. CASE Opens
      BY <2>1, <1>0 DEF Opens, TypeOK
    <2>2. CASE Closes
      BY <2>2, <1>0 DEF Closes, TypeOK
    <2>3. CASE Midnight
      BY <2>3, <1>0, PriceBounds DEF Midnight, TypeOK, Day
    <2> QED BY <2>1, <2>2, <2>3
  <1>3. \/ day' = day /\ traded' \subseteq traded \cup {day}
        \/ traded' = traded /\ phase # "open"
    <2>1. CASE Opens \/ Closes
      BY <2>1 DEF Opens, Closes
    <2>2. CASE Midnight
      BY <2>2 DEF Midnight
    <2> QED BY <2>1, <2>2
  <1>4. phase = "open" => day' = day
    BY DEF Opens, Closes, Midnight
  <1>5. ASSUME NEW p \in Proc
        PROVE  job'[p] \in Job /\ (AnswerOK(job[p]) /\ FlushedOK(job[p]))'
    <2>1. CASE job[p].pc = "idle"
      BY <2>1, <1>1, IdleOK DEF Idle, AnswerOK, FlushedOK
    <2>2. CASE job[p].pc # "idle"
      <3> DEFINE j == [job[p] EXCEPT !.late = TRUE]
      <3>1. job'[p] = j
        BY <2>2, <1>1
      <3>2. /\ j \in Job /\ j.late /\ j.pc = job[p].pc /\ j.cur = job[p].cur
            /\ j.bars = job[p].bars /\ j.new = job[p].new
        BY <1>0 DEF Job
      <3> HIDE DEF j
      <3>3. AnswerOK(job[p]) /\ FlushedOK(job[p]) /\ ~job[p].late /\ job[p] \in Job
        BY <1>0, <1>1 DEF SessionInv
      <3>4. AnswerOK(job[p])'
        BY <1>2, <1>3, <1>4, <3>1, <3>2, <3>3 DEF AnswerOK, Unsettled
      <3>5. ASSUME NEW n \in job[p].new
            PROVE  /\ n.row.at <= day'
                   /\ n.row.value = "tick" => n.date = day' /\ n.date \in traded'
                   /\ \A d \in traded' :
                        (\E m \in job[p].new : m.sym = n.sym /\ m.date = d) \/ d = day'
        <4>1. n.row.at \in Int /\ day' \in Int
          BY <3>3, <1>2 DEF Job, Row, Day
        <4> QED BY <4>1, <1>0, <1>2, <1>3, <1>4, <3>3 DEF FlushedOK, Unsettled
      <3>6. FlushedOK(job[p])'
        BY <3>1, <3>2, <3>5 DEF FlushedOK, Unsettled
      <3> QED BY <3>1, <3>2, <3>4, <3>6
    <2> QED BY <2>1, <2>2
  <1>6. job' \in [Proc -> Job] /\ SessionInv'
    BY <1>1, <1>5 DEF SessionInv
  <1>7. TypeOK'
    BY <1>0, <1>1, <1>2, <1>6 DEF TypeOK, Job
  <1>8. TableInv' /\ PastClosesAreFinal'
    <2>1. \A s \in Symbol, d \in Day : price[s][d].at \in Int
      <3> SUFFICES ASSUME NEW s \in Symbol, NEW d \in Day PROVE price[s][d].at \in Int
        OBVIOUS
      <3>1. price[s][d] \in Row \cup {NoRow}
        BY <1>0 DEF TypeOK, Rows
      <3> QED BY <3>1 DEF Row, NoRow, Day
    <2> QED BY <2>1, <1>0, <1>1, <1>2 DEF TableInv, PastClosesAreFinal, Day
  <1> QED BY <1>6, <1>7, <1>8 DEF CloseInv, PriceInv

-----------------------------------------------------------------------------
(* Past closes. *)

\* At first there are no prices and no steps.
LEMMA InitCloseInv == Init => CloseInv
  <1> SUFFICES ASSUME Init PROVE CloseInv
    OBVIOUS
  <1>1. price \in Rows /\ \A s \in Symbol, d \in Day : price[s][d] = NoRow
    BY DEF Init, Rows
  <1>2. job \in [Proc -> Job] /\ SessionInv
    BY IdleOK DEF Init, SessionInv
  <1>3. TypeOK
    BY <1>1, <1>2, PriceBounds DEF Init, TypeOK, Job, Day
  <1>4. TableInv /\ PastClosesAreFinal
    BY <1>1 DEF Init, TableInv, PastClosesAreFinal, NoRow
  <1> QED BY <1>2, <1>3, <1>4 DEF CloseInv, PriceInv

\* Every step keeps it.
LEMMA CloseInductive == CloseInv /\ [Next]_vars => CloseInv'
  <1> SUFFICES ASSUME CloseInv, [Next]_vars PROVE CloseInv'
    OBVIOUS
  <1>0. TypeOK /\ PastClosesAreFinal /\ TableInv /\ SessionInv /\ faults \in Nat
        /\ MaxFaults \in Nat
    BY PriceBounds DEF CloseInv, PriceInv, TypeOK
  <1> DEFINE JobsKept == job' \in [Proc -> Job] /\ SessionInv'
  <1>1. ASSUME UNCHANGED <<clock, price>>, JobsKept, lock' \in Proc \cup {NoProc},
               faults' \in 0..MaxFaults
        PROVE  CloseInv'
    <2>1. TypeOK'
      BY <1>0, <1>1 DEF TypeOK, Job, clock
    <2>2. TableInv' /\ PastClosesAreFinal'
      BY <1>0, <1>1 DEF TableInv, PastClosesAreFinal, clock
    <2> QED BY <1>1, <2>1, <2>2 DEF CloseInv, PriceInv
  <1>2. Fault => faults' \in 0..MaxFaults
    BY <1>0 DEF Fault, TypeOK
  <1>3. ASSUME NEW p \in Proc,
               Begin(p) \/ FetchFails(p) \/ Fetch(p) \/ Flush(p)
                 \/ \E s \in Symbol : Skip(p, s) \/ Ask(p, s)
        PROVE  CloseInv'
    <2>1. JobsKept
      BY <1>3, JobSteps
    <2>2. /\ UNCHANGED <<clock, price>> /\ faults' \in 0..MaxFaults
          /\ lock' \in Proc \cup {NoProc}
      BY <1>0, <1>2, <1>3 DEF Begin, FetchFails, Fetch, Flush, Skip, Ask, TypeOK
    <2> QED BY <1>1, <2>1, <2>2
  <1>4. ASSUME NEW p \in Proc, FlushClash(p) \/ LockTimeout(p) \/ Crash(p)
        PROVE  CloseInv'
    <2>1. /\ Leave(p) /\ UNCHANGED <<clock, price>> /\ faults' \in 0..MaxFaults
      BY <1>0, <1>2, <1>4 DEF FlushClash, LockTimeout, Crash, TypeOK
    <2>2. JobsKept /\ lock' \in Proc \cup {NoProc}
      BY <2>1, LeaveStep DEF clock
    <2> QED BY <1>1, <2>1, <2>2
  <1>5. ASSUME NEW p \in Proc, Commit(p) PROVE CloseInv'
    <2>1. /\ Leave(p) /\ UNCHANGED <<clock, faults>>
      BY <1>5 DEF Commit
    <2>2. JobsKept /\ lock' \in Proc \cup {NoProc}
      BY <2>1, LeaveStep
    <2>3. price' \in Rows /\ TableInv' /\ PastClosesAreFinal'
      BY <1>5, CommitRows
    <2>4. TypeOK'
      BY <1>0, <2>1, <2>2, <2>3 DEF TypeOK, Job, clock
    <2> QED BY <2>2, <2>3, <2>4 DEF CloseInv, PriceInv
  <1>6. CASE Opens \/ Closes \/ Midnight
    BY <1>6, ClockStep
  <1>7. CASE UNCHANGED vars
    <2>1. JobsKept
      BY <1>0, <1>7 DEF vars, SessionInv, AnswerOK, FlushedOK, Unsettled, TypeOK, Job
    <2> QED BY <1>0, <1>1, <1>7, <2>1 DEF vars, clock, TypeOK
  <1> QED BY <1>3, <1>4, <1>5, <1>6, <1>7 DEF Next, Advance

\* The table is well typed, and no price of a day that has not closed outlives the
\* first refresh of a later day (services/prices.py: today's row is overwritten
\* until the day is over, because freshness goes by the day of collected_at).
THEOREM ClosesAreFinal == Spec => []PriceInv
  <1>1. CloseInv => PriceInv
    BY DEF CloseInv
  <1> QED BY <1>1, InitCloseInv, CloseInductive, PTL DEF Spec

-----------------------------------------------------------------------------
(* The write lock. *)

\* A step that has flushed holds the write lock, and after its next answer knows
\* of every row that it can see for the symbol of that answer.
KnowsAll(p) ==
  job[p].new # {} =>
    /\ lock = p
    /\ job[p].pc = "store" =>
         job[p].existing = {d \in Day : Seen(p, job[p].cur, d) # NoRow}

LockInv == TypeOK /\ \A p \in Proc : KnowsAll(p)

\* Whoever has not flushed commits nothing.
LEMMA EmptyCommit ==
  ASSUME TypeOK, NEW p \in Proc, Commit(p), job[p].new = {}
  PROVE  price' = price
  <1>1. \A s \in Symbol, d \in Day : Seen(p, s, d) = price[s][d]
    BY DEF Seen
  <1>2. price = [s \in Symbol |-> [d \in Day |-> price[s][d]]]
    BY DEF TypeOK, Rows
  <1> QED BY <1>1, <1>2 DEF Commit

\* A step does not disturb what another process knows.
LEMMA OthersKnow ==
  ASSUME LockInv, NEW p \in Proc, NEW q \in Proc \ {p},
         price' = price \/ job[p].new # {},
         lock' = lock \/ (lock' = p /\ MayWrite(p)) \/ lock = p,
         job'[q] = job[q]
  PROVE  KnowsAll(q)'
  <1> SUFFICES ASSUME job[q].new # {} PROVE KnowsAll(q)'
    BY DEF KnowsAll
  <1>1. lock = q /\ lock # NoProc /\ job[p].new = {}
    BY PriceNames DEF LockInv, KnowsAll, Proc
  <1>2. lock' = q /\ price' = price
    BY <1>1 DEF MayWrite
  <1> QED BY <1>1, <1>2 DEF LockInv, KnowsAll, Seen

\* A step of a process keeps what everyone knows.
LEMMA LockStep ==
  ASSUME LockInv, NEW p \in Proc,
         Begin(p) \/ Advance(p) \/ FetchFails(p) \/ LockTimeout(p) \/ Crash(p)
  PROVE  \A q \in Proc : KnowsAll(q)'
  <1>0. TypeOK /\ KnowsAll(p) /\ job \in [Proc -> Job]
    BY DEF LockInv, TypeOK, Job
  <1>1. \A q \in Proc : q # p => job'[q] = job[q]
    BY <1>0 DEF Begin, Advance, Skip, Ask, Fetch, Flush, FlushClash, Commit,
                FetchFails, LockTimeout, Crash, Leave
  <1>2. price' = price \/ job[p].new # {}
    BY <1>0, EmptyCommit DEF Begin, Advance, Skip, Ask, Fetch, Flush, FlushClash,
                             FetchFails, LockTimeout, Crash
  <1>3. lock' = lock \/ (lock' = p /\ MayWrite(p)) \/ lock = p
    BY DEF Begin, Advance, Skip, Ask, Fetch, Flush, FlushClash, Commit,
           FetchFails, LockTimeout, Crash, Leave
  <1>4. KnowsAll(p)'
    <2>1. CASE Begin(p)
      BY <2>1, <1>0 DEF Begin, Idle, KnowsAll
    <2>2. CASE FetchFails(p) \/ \E s \in Symbol : Skip(p, s) \/ Ask(p, s)
      <3> DEFINE Kept == job'[p].new = job[p].new /\ job'[p].pc # "store" /\ lock' = lock
      <3>1. ASSUME FetchFails(p) PROVE Kept
        BY <3>1, <1>0 DEF FetchFails, Job
      <3>2. ASSUME NEW s \in Symbol, Skip(p, s) PROVE Kept
        BY <3>2, <1>0 DEF Skip, Job
      <3>3. ASSUME NEW s \in Symbol, Ask(p, s) PROVE Kept
        BY <3>3, <1>0 DEF Ask, Job
      <3>4. Kept => KnowsAll(p)'
        BY <1>0 DEF KnowsAll
      <3> QED BY <2>2, <3>1, <3>2, <3>3, <3>4
    <2>3. CASE Fetch(p)
      <3>1. /\ job'[p].new = job[p].new /\ job'[p].cur = job[p].cur
            /\ job'[p].existing = {d \in Day : Seen(p, job[p].cur, d) # NoRow}
            /\ lock' = lock /\ price' = price
        BY <2>3, <1>0 DEF Fetch, Job
      <3> QED BY <3>1, <1>0 DEF KnowsAll, Seen
    <2>4. CASE Flush(p)
      BY <2>4, <1>0 DEF Flush, KnowsAll, Job
    <2>5. CASE FlushClash(p) \/ Commit(p) \/ LockTimeout(p) \/ Crash(p)
      BY <2>5, <1>0 DEF FlushClash, Commit, LockTimeout, Crash, Leave, Idle, KnowsAll
    <2> QED BY <2>1, <2>2, <2>3, <2>4, <2>5 DEF Advance
  <1>5. ASSUME NEW q \in Proc \ {p} PROVE KnowsAll(q)'
    BY <1>1, <1>2, <1>3, OthersKnow
  <1> QED BY <1>4, <1>5

\* So does the clock, which touches neither rows nor the lock.
LEMMA LockClock ==
  ASSUME LockInv, Pass, NEW p \in Proc
  PROVE  KnowsAll(p)'
  <1>0. job \in [Proc -> Job] /\ KnowsAll(p) /\ price' = price /\ lock' = lock
    BY DEF LockInv, TypeOK, Job, Pass
  <1>1. CASE job[p].pc = "idle"
    BY <1>0, <1>1 DEF Pass, Idle, KnowsAll
  <1>2. CASE job[p].pc # "idle"
    <2>1. /\ job'[p].new = job[p].new /\ job'[p].pc = job[p].pc
          /\ job'[p].existing = job[p].existing /\ job'[p].cur = job[p].cur
      BY <1>0, <1>2 DEF Pass, Job
    <2> QED BY <1>0, <2>1 DEF KnowsAll, Seen
  <1> QED BY <1>1, <1>2

\* A refresh that loses the race for a row loses nothing it has flushed
\* (services/prices.py: one transaction over all symbols, with the unique index
\* on symbol and trade date).
THEOREM LostRaceCostsNothing == Spec => []LostRefreshLosesNothing
  <1> DEFINE Knowing == \A p \in Proc : KnowsAll(p)
  <1>1. Init => Knowing
    BY DEF Init, Idle, KnowsAll
  <1>2. PriceInv /\ Knowing /\ [Next]_vars => Knowing'
    <2> SUFFICES ASSUME PriceInv, Knowing, [Next]_vars PROVE Knowing'
      OBVIOUS
    <2>0. LockInv
      BY DEF PriceInv, LockInv
    <2>1. CASE Opens \/ Closes \/ Midnight
      BY <2>0, <2>1, LockClock DEF Opens, Closes, Midnight
    <2>2. CASE UNCHANGED vars
      BY <2>2 DEF vars, KnowsAll, Seen
    <2> QED BY <2>0, <2>1, <2>2, LockStep DEF Next
  <1>3. Knowing => LostRefreshLosesNothing
    BY DEF LostRefreshLosesNothing, KnowsAll, Clash
  <1> QED BY <1>1, <1>2, <1>3, ClosesAreFinal, PTL DEF Spec
=============================================================================
