--------------------------- MODULE AiSummaryProofs ---------------------------
(***************************************************************************)
(* Theorems about AiSummary, for every set of processes, symbols and       *)
(* articles and all bounds on ids, deletions and faults.                   *)
(***************************************************************************)
EXTENDS AiSummary, WellFoundedInduction, TLAPS

JobState ==
  [busy: BOOLEAN, left: SUBSET Symbol, objects: SUBSET [id: ItemId, art: Article],
   todo: SUBSET ItemId, texts: SUBSET [id: ItemId, text: Text]]

\* What was read under id i is article a: so it is still, if the row is the one
\* that was given the id first.
Right(i, a) == i \in given /\ (i \in Stored /\ item[i].first => a = item[i].art)

\* What j has of row i to summarise, or summarised.
Has(j, i) == i \in j.todo \/ \E w \in j.texts : w.id = i

\* The session of process p: it has loaded what it is to summarise, what it has
\* loaded and written is right, and where a summary has been stored meanwhile
\* p is among the rivals.
JobOK(p, j) ==
  /\ \A i \in j.todo : \E o \in j.objects : o.id = i
  /\ \A o \in j.objects : Right(o.id, o.art)
  /\ \A w \in j.texts : Right(w.id, w.text.art) /\ w.text.by = p
  /\ \A i \in Stored : item[i].sum # NoText /\ Has(j, i) => p \in item[i].rivals

\* The inductive invariant.
BatchInv ==
  /\ SummaryInv
  /\ Stored \subseteq given
  /\ \A p \in Proc : JobOK(p, job[p])

-----------------------------------------------------------------------------
(* Ids, rows and sessions. *)

\* A bounded, non-empty set of naturals has a maximum: its least upper bound.
LEMMA MaxIsMember ==
  ASSUME NEW n \in Nat, NEW S \in SUBSET (0..n), S # {}
  PROVE  Max(S) \in S /\ \A x \in S : Max(S) >= x
  <1> DEFINE U == {k \in Nat : \A x \in S : x <= k}
  <1>1. n \in U /\ U \subseteq Nat
    OBVIOUS
  <1>2. \E k \in U : \A j \in U : ~(<<j, k>> \in OpToRel(<, Nat))
    <2> HIDE DEF U
    <2> QED BY <1>1, WFMin, NatLessThanWellFounded
  <1>3. PICK k \in U : \A j \in U : ~(j < k)
    BY <1>2 DEF OpToRel
  <1>4. k \in S
    <2> SUFFICES ASSUME k \notin S PROVE FALSE
      OBVIOUS
    <2>1. \A x \in S : x <= k - 1
      BY <1>3
    <2>2. PICK x \in S : TRUE
      OBVIOUS
    <2>3. x \in Nat /\ x <= k - 1 /\ k \in Nat
      BY <2>1
    <2>4. k - 1 \in U
      BY <2>1, <2>3
    <2> QED BY <2>3, <2>4, <1>3
  <1>5. \E x \in S : \A y \in S : x >= y
    BY <1>3, <1>4
  <1> QED BY <1>5 DEF Max

\* The id of a new row is not in use.
LEMMA NextIsNew == NextId \notin Stored
  <1> DEFINE m == Max(Stored \cup {0})
  <1>1. Stored \cup {0} \in SUBSET (0..MaxItem) /\ Stored \cup {0} # {} /\ MaxItem \in Nat
    BY SummaryBounds DEF Stored, ItemId
  <1>2. m \in 0..MaxItem /\ \A x \in Stored : m >= x
    BY <1>1, MaxIsMember
  <1>3. Stored \subseteq Int
    BY SummaryBounds DEF Stored, ItemId
  <1>4. m + 1 \notin Stored
    <2> HIDE DEF m
    <2> QED BY <1>1, <1>2, <1>3
  <1> QED BY <1>4 DEF NextId

LEMMA RowTypes ==
  ASSUME BatchInv
  PROVE  /\ item \in [ItemId -> Item \cup {NoItem}] /\ NoItem \notin Item /\ NoText \notin Text
         /\ \A i \in Stored : i \in ItemId /\ item[i] \in Item
         /\ job \in [Proc -> JobState] /\ \A p \in Proc : JobOK(p, job[p])
  BY SummaryNames DEF BatchInv, SummaryInv, TypeOK, Stored, JobState

\* An idle process has nothing.
LEMMA IdleOK ==
  ASSUME NEW p PROVE Idle \in JobState /\ JobOK(p, Idle)
  BY DEF Idle, JobState, JobOK, Has

\* A step of one process on its session only.
LEMMA SessionStep ==
  ASSUME BatchInv, NEW p \in Proc, NEW j \in JobState, JobOK(p, j),
         job' = [job EXCEPT ![p] = j], UNCHANGED <<item, given, edits>>,
         faults' \in 0..MaxFaults
  PROVE  BatchInv'
  <1>1. SummaryInv'
    BY DEF BatchInv, SummaryInv, TypeOK, SummaryOfItsArticle, Stored, JobState
  <1>2. \A q \in Proc : JobOK(q, job'[q])
    BY RowTypes
  <1>3. ASSUME NEW q, NEW k, JobOK(q, k) PROVE JobOK(q, k)'
    BY <1>3 DEF JobOK, Right, Stored
  <1>4. ASSUME NEW q \in Proc PROVE JobOK(q, job[q])'
    <2>1. PICK k : k = job'[q]
      OBVIOUS
    <2>2. JobOK(q, k)'
      BY <1>2, <1>3, <2>1
    <2> QED BY <2>1, <2>2 DEF JobOK
  <1> QED BY <1>1, <1>4 DEF BatchInv, Stored

-----------------------------------------------------------------------------
(* One lemma per kind of step. *)

\* A process begins, gives up or fails.
LEMMA BeginAndEnd ==
  ASSUME BatchInv, NEW p \in Proc,
         BeginBatch(p) \/ Lost(p) \/ LockTimeout(p) \/ Crash(p)
  PROVE  BatchInv'
  <1>1. faults' \in 0..MaxFaults
    BY SummaryBounds DEF BeginBatch, Lost, LockTimeout, Crash, Fault, BatchInv, SummaryInv, TypeOK
  <1>2. CASE BeginBatch(p)
    <2>1. PICK j : j = [Idle EXCEPT !.busy = TRUE, !.left = Symbol]
      OBVIOUS
    <2>2. j \in JobState /\ j.todo = {} /\ j.objects = {} /\ j.texts = {}
      BY <2>1 DEF Idle, JobState
    <2>3. JobOK(p, j)
      BY <2>2 DEF JobOK, Has
    <2> QED BY <1>1, <1>2, <2>1, <2>2, <2>3, SessionStep DEF BeginBatch
  <1>3. CASE Lost(p) \/ LockTimeout(p) \/ Crash(p)
    BY <1>1, <1>3, IdleOK, SessionStep DEF Lost, LockTimeout, Crash
  <1> QED BY <1>2, <1>3

\* What is loaded from a row is right, and so is an object kept for it.
LEMMA ObjectOK ==
  ASSUME BatchInv, NEW p \in Proc, NEW i \in ItemId,
         i \in Stored \/ \E o \in job[p].objects : o.id = i
  PROVE  Object(p, i) \in [id: ItemId, art: Article]
         /\ Object(p, i).id = i /\ Right(i, Object(p, i).art)
  <1>1. CASE \E o \in job[p].objects : o.id = i
    <2>1. Object(p, i) \in job[p].objects /\ Object(p, i).id = i
      BY <1>1 DEF Object
    <2>2. job[p] \in JobState /\ JobOK(p, job[p])
      BY RowTypes
    <2> QED BY <2>1, <2>2 DEF JobOK, JobState
  <1>2. CASE ~\E o \in job[p].objects : o.id = i
    <2>1. i \in Stored /\ item[i].art \in Article /\ Object(p, i) = [id |-> i, art |-> item[i].art]
      BY <1>2, RowTypes DEF Object, Loaded, Item
    <2> QED BY <2>1 DEF Right, BatchInv
  <1> QED BY <1>1, <1>2

\* Candidates have no summary.
LEMMA SelectKeeps ==
  ASSUME BatchInv, NEW p \in Proc, NEW s \in Symbol, Select(p, s)
  PROVE  BatchInv'
  <1>1. job[p] \in JobState /\ JobOK(p, job[p])
    BY RowTypes
  <1>2. Candidates(s) \subseteq Stored /\ \A i \in Candidates(s) : i \in ItemId /\ item[i].sum = NoText
    BY DEF Candidates, Bare, Stored
  <1>3. PICK j : j = [job[p] EXCEPT
          !.left = @ \ {s},
          !.objects = {o \in @ : o.id \in Written(p)}
                        \cup {Object(p, i) : i \in Candidates(s)},
          !.todo = Candidates(s)]
    OBVIOUS
  <1>4. /\ j.left = job[p].left \ {s} /\ j.todo = Candidates(s) /\ j.texts = job[p].texts
        /\ j.objects = {o \in job[p].objects : o.id \in Written(p)}
                         \cup {Object(p, i) : i \in Candidates(s)}
        /\ j.busy = job[p].busy
        /\ j = [busy |-> j.busy, left |-> j.left, objects |-> j.objects, todo |-> j.todo,
                texts |-> j.texts]
    BY <1>1, <1>3 DEF JobState
  <1>5. \A o \in j.objects : o \in [id: ItemId, art: Article] /\ Right(o.id, o.art)
    BY <1>1, <1>2, <1>4, ObjectOK DEF JobOK, JobState
  <1>6. j \in JobState
    <2>1. j.busy \in BOOLEAN /\ j.left \in SUBSET Symbol /\ j.todo \in SUBSET ItemId
          /\ j.texts \in SUBSET [id: ItemId, text: Text]
      BY <1>1, <1>2, <1>4 DEF JobState
    <2>2. j.objects \in SUBSET [id: ItemId, art: Article]
      BY <1>5
    <2> QED BY <1>4, <2>1, <2>2 DEF JobState
  <1>7. JobOK(p, j)
    <2>1. \A i \in j.todo : \E o \in j.objects : o.id = i
      BY <1>2, <1>4, ObjectOK
    <2>2. \A i \in Stored : item[i].sum # NoText /\ Has(j, i) => p \in item[i].rivals
      BY <1>1, <1>2, <1>4 DEF JobOK, Has
    <2> QED BY <1>1, <1>4, <1>5, <2>1, <2>2 DEF JobOK
  <1>8. job' = [job EXCEPT ![p] = j]
    BY <1>3 DEF Select
  <1> QED BY <1>6, <1>7, <1>8, SessionStep DEF Select, BatchInv, SummaryInv, TypeOK

\* An article that is opened has no summary.
LEMMA OpenKeeps ==
  ASSUME BatchInv, NEW p \in Proc, NEW i \in ItemId, Open(p, i)
  PROVE  BatchInv'
  <1>1. i \in Stored /\ item[i] \in Item /\ item[i].sum = NoText /\ i \in given
    BY RowTypes DEF Open, Bare, BatchInv
  <1>2. PICK j : j = [Idle EXCEPT !.busy = TRUE, !.objects = {Loaded(i)}, !.todo = {i}]
    OBVIOUS
  <1>3. /\ j \in JobState /\ j.todo = {i} /\ j.texts = {}
        /\ j.objects = {[id |-> i, art |-> item[i].art]}
    <2>1. PICK o : o = [id |-> i, art |-> item[i].art]
      OBVIOUS
    <2>2. o \in [id: ItemId, art: Article]
      BY <1>1, <2>1 DEF Item
    <2>3. j = [busy |-> TRUE, left |-> {}, objects |-> {o}, todo |-> {i}, texts |-> {}]
      BY <1>2, <2>1 DEF Idle, Loaded
    <2> QED BY <2>1, <2>2, <2>3 DEF JobState
  <1>4. JobOK(p, j)
    BY <1>1, <1>3 DEF JobOK, Right, Has
  <1>5. job' = [job EXCEPT ![p] = j]
    BY <1>2 DEF Open
  <1> QED BY <1>3, <1>4, <1>5, SessionStep DEF Open, BatchInv, SummaryInv, TypeOK

\* The CLI answers about the object that stands for the row, or not at all.
LEMMA AnswerKeeps ==
  ASSUME BatchInv, NEW p \in Proc, NEW i \in ItemId, Generate(p, i) \/ NoAnswer(p, i)
  PROVE  BatchInv'
  <1>1. job[p] \in JobState /\ JobOK(p, job[p]) /\ i \in job[p].todo
    BY RowTypes DEF Generate, NoAnswer
  <1>2. CASE Generate(p, i)
    <2>1. PICK w : w = [id |-> i, text |-> [art |-> Object(p, i).art, by |-> p]]
      OBVIOUS
    <2>2. Object(p, i).art \in Article /\ Right(i, Object(p, i).art)
      BY <1>1, ObjectOK DEF JobOK
    <2>3. /\ w \in [id: ItemId, text: Text] /\ w.id = i /\ w.text.by = p
          /\ Right(w.id, w.text.art)
      BY <2>1, <2>2 DEF Text
    <2>4. PICK j : j = [job[p] EXCEPT !.todo = @ \ {i}, !.texts = {v \in @ : v.id # i} \cup {w}]
      OBVIOUS
    <2>5. /\ j \in JobState /\ j.todo = job[p].todo \ {i} /\ j.objects = job[p].objects
          /\ j.texts = {v \in job[p].texts : v.id # i} \cup {w}
      BY <1>1, <2>3, <2>4 DEF JobState
    <2>6. JobOK(p, j)
      BY <1>1, <2>3, <2>5 DEF JobOK, Has
    <2>7. job' = [job EXCEPT ![p] = j]
      BY <1>2, <2>1, <2>4 DEF Generate
    <2> QED BY <1>2, <2>5, <2>6, <2>7, SessionStep DEF Generate, BatchInv, SummaryInv, TypeOK
  <1>3. CASE NoAnswer(p, i)
    <2>1. PICK j : j = [job[p] EXCEPT !.todo = @ \ {i}]
      OBVIOUS
    <2>2. /\ j \in JobState /\ j.todo = job[p].todo \ {i} /\ j.objects = job[p].objects
          /\ j.texts = job[p].texts
      BY <1>1, <2>1 DEF JobState
    <2>3. JobOK(p, j)
      BY <1>1, <2>2 DEF JobOK, Has
    <2>4. job' = [job EXCEPT ![p] = j] /\ UNCHANGED <<item, given, edits>>
          /\ faults' \in 0..MaxFaults
      BY <1>3, <2>1, SummaryBounds DEF NoAnswer, Fault, BatchInv, SummaryInv, TypeOK
    <2> QED BY <2>2, <2>3, <2>4, SessionStep
  <1> QED BY <1>2, <1>3

-----------------------------------------------------------------------------
(* Steps on the rows. *)

\* A row that is the first with its id was there before, with its article, if its
\* id had been given before.
RowsStay ==
  /\ given \subseteq given'
  /\ \A i \in given : i \in Stored' /\ item'[i].first =>
       i \in Stored /\ item[i].first /\ item'[i].art = item[i].art

LEMMA RightStays ==
  ASSUME RowsStay, NEW i, NEW a, Right(i, a)
  PROVE  Right(i, a)'
  BY DEF RowsStay, Right

\* A session that does not move keeps what it is owed, if it stays a rival.
LEMMA JobStays ==
  ASSUME RowsStay, NEW p, NEW j, JobOK(p, j),
         \A i \in Stored' : item'[i].sum # NoText /\ Has(j, i) => p \in item'[i].rivals
  PROVE  JobOK(p, j)'
  <1>1. \A o \in j.objects : Right(o.id, o.art)'
    BY RightStays DEF JobOK
  <1>2. \A w \in j.texts : Right(w.id, w.text.art)' /\ w.text.by = p
    BY RightStays DEF JobOK
  <1> QED BY <1>1, <1>2 DEF JobOK, Has

\* A new row: what may still be written to it was not read from a first one.
LEMMA CollectKeeps ==
  ASSUME BatchInv, NEW s \in Symbol, NEW a \in Article, Collect(s, a)
  PROVE  BatchInv'
  <1>1. PICK i, row : /\ i = NextId
                      /\ row = [sym |-> s, art |-> a, sum |-> NoText,
                                first |-> i \notin given, rivals |-> {}]
    OBVIOUS
  <1>2. /\ i \in ItemId /\ item' = [item EXCEPT ![i] = row] /\ given' = given \cup {i}
        /\ UNCHANGED <<job, edits, faults>> /\ i \notin Stored
    BY <1>1, NextIsNew DEF Collect
  <1>3. row \in Item /\ row.art = a /\ row.sum = NoText /\ row.first = (i \notin given)
        /\ row # NoItem
    <2>1. (i \notin given) \in BOOLEAN /\ {} \in SUBSET Proc
      OBVIOUS
    <2>2. row \in Item
      BY <1>1, <2>1 DEF Item
    <2> QED BY <1>1, <2>2, SummaryNames
  <1>4. /\ Stored' = Stored \cup {i} /\ item'[i] = row
        /\ \A k \in Stored : item'[k] = item[k]
    BY <1>2, <1>3, RowTypes DEF Stored
  <1>5. SummaryInv'
    <2>1. item' \in [ItemId -> Item \cup {NoItem}] /\ given' \subseteq ItemId
      BY <1>2, <1>3, RowTypes DEF BatchInv, SummaryInv, TypeOK
    <2>2. SummaryOfItsArticle'
      BY <1>3, <1>4 DEF BatchInv, SummaryInv, SummaryOfItsArticle
    <2> QED BY <1>2, <2>1, <2>2 DEF BatchInv, SummaryInv, TypeOK
  <1>6. RowsStay
    BY <1>2, <1>3, <1>4 DEF RowsStay
  <1>7. ASSUME NEW p \in Proc PROVE JobOK(p, job[p])'
    <2>1. \A k \in Stored' : item'[k].sum # NoText /\ Has(job[p], k) => p \in item'[k].rivals
      BY <1>3, <1>4, RowTypes DEF JobOK
    <2>2. \A j : j = job[p] => JobOK(p, j)'
      BY <1>6, <2>1, RowTypes, JobStays
    <2> QED BY <1>2, <2>2 DEF JobOK, Has
  <1> QED BY <1>2, <1>4, <1>5, <1>7 DEF BatchInv

LEMMA DeleteKeeps ==
  ASSUME BatchInv, NEW s \in Symbol, DeleteSymbol(s)
  PROVE  BatchInv'
  <1>1. /\ edits' \in 0..MaxEdits /\ UNCHANGED <<given, job, faults>>
        /\ item' = [i \in ItemId |->
             IF i \in Stored /\ item[i].sym = s THEN NoItem ELSE item[i]]
    BY SummaryBounds DEF DeleteSymbol, BatchInv, SummaryInv, TypeOK
  <1>2. Stored' \subseteq Stored /\ \A k \in Stored' : item'[k] = item[k]
    BY <1>1 DEF Stored
  <1>3. item' \in [ItemId -> Item \cup {NoItem}]
    BY <1>1, RowTypes
  <1>4. SummaryInv'
    BY <1>1, <1>2, <1>3 DEF BatchInv, SummaryInv, TypeOK, SummaryOfItsArticle
  <1>5. RowsStay
    BY <1>1, <1>2 DEF RowsStay
  <1>6. ASSUME NEW p \in Proc PROVE JobOK(p, job[p])'
    <2>1. \A k \in Stored' : item'[k].sum # NoText /\ Has(job[p], k) => p \in item'[k].rivals
      BY <1>2, RowTypes DEF JobOK
    <2>2. \A j : j = job[p] => JobOK(p, j)'
      BY <1>5, <2>1, RowTypes, JobStays
    <2> QED BY <1>1, <2>2 DEF JobOK, Has
  <1> QED BY <1>1, <1>2, <1>4, <1>6 DEF BatchInv

\* A commit by id: the text was written for this row, or for one before it with
\* the same id; whoever else has the row is its rival.
LEMMA SaveWrites ==
  ASSUME BatchInv, NEW p \in Proc, Save(p)
  PROVE  /\ item' \in [ItemId -> Item \cup {NoItem}] /\ Stored' = Stored
         /\ \A i \in Stored :
              /\ item'[i].art = item[i].art /\ item'[i].first = item[i].first
              /\ \/ item'[i] = item[i] /\ i \notin Written(p)
                 \/ /\ i \in Written(p) /\ Right(i, item'[i].sum.art)
                    /\ item'[i].sum.by = p
                    /\ item'[i].rivals = IF item[i].sum = NoText
                                         THEN {q \in Proc \ {p} : Holds(q, i)}
                                         ELSE item[i].rivals \ {p}
  <1>1. job[p] \in JobState /\ JobOK(p, job[p])
    BY RowTypes
  <1>2. ASSUME NEW i \in Stored
        PROVE  /\ item'[i] \in Item
               /\ item'[i].art = item[i].art /\ item'[i].first = item[i].first
               /\ \/ item'[i] = item[i] /\ i \notin Written(p)
                  \/ /\ i \in Written(p) /\ Right(i, item'[i].sum.art)
                     /\ item'[i].sum.by = p
                     /\ item'[i].rivals = IF item[i].sum = NoText
                                          THEN {q \in Proc \ {p} : Holds(q, i)}
                                          ELSE item[i].rivals \ {p}
    <2>1. item[i] \in Item /\ i \in ItemId
      BY RowTypes
    <2>2. item'[i] = Saved(p, i)
      BY <2>1 DEF Save
    <2>3. CASE i \notin Written(p)
      BY <2>1, <2>2, <2>3 DEF Saved
    <2>4. CASE i \in Written(p)
      <3>1. PICK w : w = CHOOSE v \in job[p].texts : v.id = i
        OBVIOUS
      <3>2. w \in job[p].texts /\ w.id = i
        BY <2>4, <3>1 DEF Written
      <3>3. w.text \in Text /\ w.text.by = p /\ Right(i, w.text.art)
        BY <1>1, <3>2 DEF JobOK, JobState
      <3>4. PICK rs : rs = IF item[i].sum = NoText THEN {q \in Proc \ {p} : Holds(q, i)}
                           ELSE item[i].rivals \ {p}
        OBVIOUS
      <3>5. rs \in SUBSET Proc
        BY <2>1, <3>4 DEF Item
      <3>6. item'[i] = [item[i] EXCEPT !.sum = w.text, !.rivals = rs]
        BY <2>2, <2>4, <3>1, <3>4 DEF Saved
      <3>7. /\ item'[i] \in Item /\ item'[i].art = item[i].art
            /\ item'[i].first = item[i].first /\ item'[i].sum = w.text
            /\ item'[i].rivals = rs
        BY <2>1, <3>3, <3>5, <3>6 DEF Item
      <3> QED BY <2>4, <3>3, <3>4, <3>7
    <2> QED BY <2>3, <2>4
  <1>3. \A i \in ItemId \ Stored : item'[i] = NoItem
    BY DEF Save, Saved, Stored
  <1>4. item' \in [ItemId -> Item \cup {NoItem}]
    BY <1>2, <1>3 DEF Save
  <1>5. Stored' = Stored
    BY <1>2, <1>3, SummaryNames DEF Stored
  <1> QED BY <1>2, <1>4, <1>5

LEMMA SaveKeeps ==
  ASSUME BatchInv, NEW p \in Proc, Save(p)
  PROVE  BatchInv'
  <1>1. job' = [job EXCEPT ![p] = Idle] /\ UNCHANGED <<given, edits, faults>>
        /\ job \in [Proc -> JobState] /\ \A q \in Proc : JobOK(q, job[q])
    BY RowTypes DEF Save
  <1>2. SummaryInv'
    <2>1. SummaryOfItsArticle'
      BY SaveWrites DEF SummaryOfItsArticle, BatchInv, SummaryInv, Right
    <2>2. job' \in [Proc -> JobState]
      BY <1>1, IdleOK
    <2> QED BY <1>1, <2>1, <2>2, SaveWrites DEF BatchInv, SummaryInv, TypeOK, JobState
  <1>3. RowsStay
    BY <1>1, SaveWrites DEF RowsStay
  <1>4. ASSUME NEW q \in Proc PROVE JobOK(q, job[q])'
    <2>1. CASE q = p
      BY <1>1, <2>1 DEF Idle, JobOK, Has
    <2>2. CASE q # p
      <3>1. job'[q] = job[q]
        BY <1>1, <2>2
      <3>2. ASSUME NEW i \in Stored, item'[i].sum # NoText, Has(job[q], i)
            PROVE  q \in item'[i].rivals
        <4>1. Holds(q, i)
          BY <3>2 DEF Has, Holds, Written
        <4>2. item[i].sum # NoText => q \in item[i].rivals
          BY <1>1, <3>2 DEF JobOK
        <4>3. CASE i \notin Written(p)
          BY <3>2, <4>2, <4>3, SaveWrites
        <4>4. CASE i \in Written(p)
          <5>1. item'[i].rivals = IF item[i].sum = NoText THEN {k \in Proc \ {p} : Holds(k, i)}
                                  ELSE item[i].rivals \ {p}
            BY <4>4, SaveWrites
          <5> QED BY <2>2, <4>1, <4>2, <5>1
        <4> QED BY <4>3, <4>4
      <3>3. \A j : j = job[q] => JobOK(q, j)'
        BY <1>1, <1>3, <3>2, SaveWrites, JobStays
      <3> QED BY <3>1, <3>3 DEF JobOK, Has
    <2> QED BY <2>1, <2>2
  <1> QED BY <1>1, <1>2, <1>4, SaveWrites DEF BatchInv

-----------------------------------------------------------------------------
(* The induction and what follows from it. *)

LEMMA BatchInit == Init => BatchInv
  <1> SUFFICES ASSUME Init PROVE BatchInv
    OBVIOUS
  <1>1. Stored = {}
    BY DEF Init, Stored
  <1>2. SummaryInv
    BY <1>1, IdleOK, SummaryBounds
       DEF Init, SummaryInv, TypeOK, SummaryOfItsArticle, JobState
  <1>3. \A p \in Proc : JobOK(p, job[p])
    BY IdleOK DEF Init
  <1> QED BY <1>1, <1>2, <1>3 DEF BatchInv

LEMMA BatchNext == BatchInv /\ [Next]_vars => BatchInv'
  <1> SUFFICES ASSUME BatchInv, [Next]_vars PROVE BatchInv'
    OBVIOUS
  <1> USE DEF Proc
  <1>1. CASE \E s \in Symbol, a \in Article : Collect(s, a)
    BY <1>1, CollectKeeps
  <1>2. CASE \E s \in Symbol : DeleteSymbol(s)
    BY <1>2, DeleteKeeps
  <1>3. CASE \E p \in Batcher : BeginBatch(p)
    BY <1>3, BeginAndEnd
  <1>4. CASE \E p \in Reader, i \in ItemId : Open(p, i)
    BY <1>4, OpenKeeps
  <1>5. CASE \E p \in Proc :
               \/ Advance(p) \/ LockTimeout(p) \/ Crash(p)
               \/ \E i \in ItemId : NoAnswer(p, i)
    BY <1>5, SelectKeeps, AnswerKeeps, SaveKeeps, BeginAndEnd DEF Advance
  <1>6. CASE UNCHANGED vars
    <2>1. \A p \in Proc : JobOK(p, job[p])'
      BY <1>6, RowTypes DEF vars, JobOK, Right, Has, Stored
    <2> QED BY <1>6, <2>1 DEF vars, BatchInv, SummaryInv, TypeOK, SummaryOfItsArticle, Stored
  <1> QED BY <1>1, <1>2, <1>3, <1>4, <1>5, <1>6 DEF Next

LEMMA BatchAlways == Spec => []BatchInv
  BY BatchInit, BatchNext, PTL DEF Spec

\* Rows, texts and sessions are well typed, and a summary is one of its row's own
\* article unless the row's id belonged to a deleted one before.
THEOREM SummariesFit == Spec => []SummaryInv
  <1>1. BatchInv => SummaryInv
    BY DEF BatchInv
  <1> QED BY <1>1, BatchAlways, PTL

\* A stored summary is only replaced by a process that was summarising the same
\* row when it was stored.
THEOREM RivalsOnly == Spec => OnlyRivalsReplace
  <1>1. BatchInv /\ [Next]_vars =>
          [\A i \in Stored :
             item[i].sum # NoText /\ item'[i] # NoItem /\ item'[i].sum # item[i].sum
               => item'[i].sum.by \in item[i].rivals]_vars
    <2> SUFFICES ASSUME BatchInv, Next, NEW i \in Stored, item[i].sum # NoText,
                        item'[i] # NoItem, item'[i].sum # item[i].sum
                 PROVE  item'[i].sum.by \in item[i].rivals
      OBVIOUS
    <2>1. ASSUME NEW p \in Proc, Save(p) PROVE item'[i].sum.by \in item[i].rivals
      <3>1. i \in Written(p) /\ item'[i].sum.by = p
        BY <2>1, SaveWrites
      <3>2. Has(job[p], i)
        BY <3>1 DEF Written, Has
      <3> QED BY <3>1, <3>2, RowTypes DEF JobOK
    <2>2. ASSUME NEW s \in Symbol, NEW a \in Article, Collect(s, a) PROVE FALSE
      BY <2>2, NextIsNew, RowTypes DEF Collect
    <2>3. ASSUME NEW s \in Symbol, DeleteSymbol(s) PROVE FALSE
      BY <2>3, RowTypes DEF DeleteSymbol
    <2>4. item' # item
      OBVIOUS
    <2> QED BY <2>1, <2>2, <2>3, <2>4
            DEF Next, Advance, BeginBatch, Open, Select, Generate, NoAnswer, Lost,
                LockTimeout, Crash
  <1> QED BY <1>1, BatchAlways, PTL DEF Spec, OnlyRivalsReplace
=============================================================================
