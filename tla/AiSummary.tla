------------------------------- MODULE AiSummary -------------------------------
(***************************************************************************)
(* AI summaries of news: the eager batch at the end of a collection and    *)
(* the lazy one of POST /api/news/{id}/ai-summary (news_summary.py and     *)
(* routers/news.py), over the rows of news_items.                          *)
(*                                                                         *)
(* A row is read without a summary, the claude CLI is asked for up to 90   *)
(* seconds without holding anything, and what it says is written to the    *)
(* row of that id, whatever it is by then.  A batch writes all of it in    *)
(* one commit at its end.  Two batches may overlap: a collection that      *)
(* summarises for long is taken for dead (see CollectionRuns).             *)
(***************************************************************************)
EXTENDS Integers, FiniteSetsExt

CONSTANTS
  Batcher,     \* processes that run collections
  Reader,      \* those that serve users who open an article
  Symbol,
  Article,     \* what a canonical_url points to
  NoItem,      \* no such row
  NoText,      \* ai_summary is NULL
  PerSymbol,   \* ai_summary_eager_per_symbol
  MaxItem,     \* bound on ids
  MaxEdits,    \* bound on deletions of symbols
  MaxFaults    \* bound on unanswered calls, lock timeouts and crashes

Proc == Batcher \cup Reader
ItemId == 1..MaxItem

ASSUME SummaryBounds ==
  MaxItem \in Nat /\ MaxEdits \in Nat /\ MaxFaults \in Nat /\ PerSymbol \in Nat

VARIABLES
  item,    \* the news_items table
  given,   \* the ids that have been given to a row so far
  job,     \* what each process is doing
  edits, faults

vars == <<item, given, job, edits, faults>>

\* What the CLI writes: which article it read, and for whom.
Text == [art: Article, by: Proc]

\* A row; first says that no row had its id before; rivals are the processes
\* that were already summarising it when its summary was stored.
Item == [sym: Symbol, art: Article, sum: Text \cup {NoText},
         first: BOOLEAN, rivals: SUBSET Proc]

ASSUME SummaryNames == NoItem \notin Item /\ NoText \notin Text

\* left are the symbols whose candidates are still to be selected, objects the
\* rows the session has loaded, todo those of them that are to be summarised,
\* and texts what it has written to them.
Idle == [busy |-> FALSE, left |-> {}, objects |-> {}, todo |-> {}, texts |-> {}]

Stored == {i \in ItemId : item[i] # NoItem}
NextId == Max(Stored \cup {0}) + 1
Bare(i) == i \in Stored /\ item[i].sum = NoText
Written(p) == {w.id : w \in job[p].texts}
Holds(p, i) == i \in Written(p) \cup job[p].todo

Fault == faults < MaxFaults /\ faults' = faults + 1

Init ==
  /\ item = [i \in ItemId |-> NoItem]
  /\ given = {}
  /\ job = [p \in Proc |-> Idle]
  /\ edits = 0
  /\ faults = 0

-----------------------------------------------------------------------------

\* store_news, committed: a new row for an article that has none.
Collect(s, a) ==
  /\ \A i \in Stored : item[i].art # a
  /\ NextId \in ItemId
  /\ item' = [item EXCEPT ![NextId] =
       [sym |-> s, art |-> a, sum |-> NoText,
        first |-> NextId \notin given, rivals |-> {}]]
  /\ given' = given \cup {NextId}
  /\ UNCHANGED <<job, edits, faults>>

\* A deleted symbol takes its rows with it.
DeleteSymbol(s) ==
  /\ edits < MaxEdits
  /\ edits' = edits + 1
  /\ item' = [i \in ItemId |->
       IF i \in Stored /\ item[i].sym = s THEN NoItem ELSE item[i]]
  /\ UNCHANGED <<given, job, faults>>

\* The news step went well: summarize_recent_for_symbols begins.
BeginBatch(p) ==
  /\ ~job[p].busy
  /\ PerSymbol > 0
  /\ job' = [job EXCEPT ![p] = [Idle EXCEPT !.busy = TRUE, !.left = Symbol]]
  /\ UNCHANGED <<item, given, edits, faults>>


\* The latest rows of a symbol that have no summary, at most PerSymbol.
Candidates(s) ==
  LET rows == {i \in Stored : item[i].sym = s /\ Bare(i)}
      newer(i) == {j \in rows : j > i}
  IN  {i \in rows : Cardinality(newer(i)) < PerSymbol}

Loaded(i) == [id |-> i, art |-> item[i].art]

\* A row of an id that the session still has an object for is not loaded again:
\* the object stands for it, with the title and body it had.
Object(p, i) ==
  IF \E o \in job[p].objects : o.id = i
  THEN CHOOSE o \in job[p].objects : o.id = i ELSE Loaded(i)

\* The next symbol's candidates are selected once this one's are done.  Then the
\* session only keeps these and the rows it has written to.
Select(p, s) ==
  /\ s \in job[p].left
  /\ job[p].todo = {}
  /\ job' = [job EXCEPT
       ![p].left = @ \ {s},
       ![p].objects = {o \in @ : o.id \in Written(p)}
                        \cup {Object(p, i) : i \in Candidates(s)},
       ![p].todo = Candidates(s)]
  /\ UNCHANGED <<item, given, edits, faults>>

\* Mutant: a cached summary is not looked at.
Open_Always(p, i) ==
  /\ ~job[p].busy
  /\ i \in Stored
  /\ job' = [job EXCEPT ![p] =
       [Idle EXCEPT !.busy = TRUE, !.objects = {Loaded(i)}, !.todo = {i}]]
  /\ UNCHANGED <<item, given, edits, faults>>

\* generate_ai_summary: an article is opened whose row has no summary yet.
Open(p, i) ==
  /\ ~job[p].busy
  /\ Bare(i)
  /\ job' = [job EXCEPT ![p] =
       [Idle EXCEPT !.busy = TRUE, !.objects = {Loaded(i)}, !.todo = {i}]]
  /\ UNCHANGED <<item, given, edits, faults>>

\* _generate_and_store: the CLI answers for one row.
Generate(p, i) ==
  /\ i \in job[p].todo
  /\ job' = [job EXCEPT
       ![p].todo = @ \ {i},
       ![p].texts = {w \in @ : w.id # i} \cup
         {[id |-> i, text |-> [art |-> Object(p, i).art, by |-> p]]}]
  /\ UNCHANGED <<item, given, edits, faults>>

\* Mutant: the text of the row before stays in the variable.
NoAnswer_Last(p, i) ==
  /\ i \in job[p].todo
  /\ Fault
  /\ job' = [job EXCEPT
       ![p].todo = @ \ {i},
       ![p].texts = @ \cup {[id |-> i, text |-> w.text] : w \in @}]
  /\ UNCHANGED <<item, given, edits>>

\* It fails, times out or says nothing: the row stays as it is.
NoAnswer(p, i) ==
  /\ i \in job[p].todo
  /\ Fault
  /\ job' = [job EXCEPT ![p].todo = @ \ {i}]
  /\ UNCHANGED <<item, given, edits>>

Ready(p) == job[p].busy /\ job[p].left = {} /\ job[p].todo = {}

\* The row once p has committed: the update goes by id.
Saved(p, i) ==
  IF i \notin Written(p) THEN item[i]
  ELSE [item[i] EXCEPT
         !.sum = (CHOOSE w \in job[p].texts : w.id = i).text,
         !.rivals = IF item[i].sum = NoText
                    THEN {q \in Proc \ {p} : Holds(q, i)} ELSE @ \ {p}]

\* The commit of everything that was generated.
Save(p) ==
  /\ Ready(p)
  /\ Written(p) \subseteq Stored
  /\ item' = [i \in ItemId |-> Saved(p, i)]
  /\ job' = [job EXCEPT ![p] = Idle]
  /\ UNCHANGED <<given, edits, faults>>

\* StaleDataError: a row is gone.  Nothing of the batch is stored, and the run
\* fails; a reader gets a 500.
Lost(p) ==
  /\ Ready(p)
  /\ ~(Written(p) \subseteq Stored)
  /\ job' = [job EXCEPT ![p] = Idle]
  /\ UNCHANGED <<item, given, edits, faults>>

\* "database is locked" at the commit.
LockTimeout(p) ==
  /\ Ready(p)
  /\ Fault
  /\ job' = [job EXCEPT ![p] = Idle]
  /\ UNCHANGED <<item, given, edits>>

\* A process is killed.
Crash(p) ==
  /\ job[p].busy
  /\ Fault
  /\ job' = [job EXCEPT ![p] = Idle]
  /\ UNCHANGED <<item, given, edits>>

-----------------------------------------------------------------------------

Advance(p) ==
  \/ \E s \in Symbol : Select(p, s)
  \/ \E i \in ItemId : Generate(p, i)
  \/ Save(p) \/ Lost(p)

Next ==
  \/ \E s \in Symbol, a \in Article : Collect(s, a)
  \/ \E s \in Symbol : DeleteSymbol(s)
  \/ \E p \in Batcher : BeginBatch(p)
  \/ \E p \in Reader, i \in ItemId : Open(p, i)
  \/ \E p \in Proc :
       \/ Advance(p) \/ LockTimeout(p) \/ Crash(p)
       \/ \E i \in ItemId : NoAnswer(p, i)

Spec == Init /\ [][Next]_vars

\* Collections go on for ever and calls in flight return.
Fairness ==
  /\ \A p \in Batcher : WF_vars(BeginBatch(p))
  /\ \A p \in Proc : WF_vars(Advance(p))

FairSpec == Spec /\ Fairness

-----------------------------------------------------------------------------

\* Rows, texts and sessions are well typed.
TypeOK ==
  /\ item \in [ItemId -> Item \cup {NoItem}]
  /\ given \subseteq ItemId
  /\ job \in [Proc ->
       [busy: BOOLEAN, left: SUBSET Symbol,
        objects: SUBSET [id: ItemId, art: Article], todo: SUBSET ItemId,
        texts: SUBSET [id: ItemId, text: Text]]]
  /\ edits \in 0..MaxEdits
  /\ faults \in 0..MaxFaults

\* A summary is one of its row's own article, however generations and deletions
\* interleave, unless the row's id belonged to a deleted one before: then what
\* is still being generated for the old row is written to the new one.
SummaryOfItsArticle ==
  \A i \in Stored :
    item[i].first /\ item[i].sum # NoText => item[i].sum.art = item[i].art

\* Both: what any step leaves in the table and in the sessions.
SummaryInv == TypeOK /\ SummaryOfItsArticle

\* A stored summary is only replaced by a process that was summarising the same
\* row when it was stored, and by each such process once: opening an article or
\* collecting again never spends a call on what is already cached.
OnlyRivalsReplace ==
  [][\A i \in Stored :
       item[i].sum # NoText /\ item'[i] # NoItem /\ item'[i].sum # item[i].sum
         => item'[i].sum.by \in item[i].rivals]_vars


=============================================================================
