-------------------------------- MODULE Startup --------------------------------
(***************************************************************************)
(* Booting: init_db of database.py, which the API server (main.py) and the *)
(* worker both run, over a database of this or an earlier build.           *)
(*                                                                         *)
(* Each part of init_db first inspects the schema and then changes it, and *)
(* the other process may do the same in between.  DDL is committed         *)
(* statement by statement, except where an UPDATE before it has opened a   *)
(* transaction.  A statement that fails ends the process, which its        *)
(* supervisor starts again.  A process that is done serves: it logs users  *)
(* in, registers symbols and runs collections.                             *)
(***************************************************************************)
EXTENDS Integers, Sequences, FiniteSets, Functions

CONSTANTS
  TableOrder,  \* the tables, in the order in which create_all makes them
  Ix, IxOf,    \* the plain indexes, and the table of each
  Proc,        \* the API server and the worker
  Old,         \* collection runs left behind by dead processes of the past
  User, Symbol,
  NoRow, Nobody,  \* an unused symbol id; a symbol whose owner is NULL
  MaxFaults    \* bound on kills

Table == Range(TableOrder)
NewsColumn == {"ai_summary", "ai_summary_model", "ai_summary_at"}
Addition == NewsColumn \cup {"owner_user_id", "uq_collection_runs_one_running"}

ASSUME StartupNames ==
  /\ Proc \cap Old = {} /\ Nobody \notin User /\ NoRow \notin User \cup {Nobody}
  /\ Table \cap Addition = {} /\ Ix \cap (Table \cup Addition) = {}
ASSUME StartupBounds == MaxFaults \in Nat
ASSUME StartupTables ==
  /\ {"collection_runs", "users", "symbols", "news_items"} \subseteq Table
  /\ IxOf \in [Ix -> Table]

VARIABLES
  schema,    \* the tables, what was added to them since, and the plain indexes
  users,     \* the users table
  owner,     \* the symbols table: owner_user_id
  running,   \* the unified runs whose row is running
  job,       \* how far each process is
  faults

vars == <<schema, users, owner, running, job, faults>>

Steps == <<"tables", "owner", "claim", "index", "news", "serving">>

\* at is an index into Steps; todo is what the inspection found to do; busy
\* says that a serving process has a collection running.
Booting == [at |-> 1, looked |-> FALSE, todo |-> {}, busy |-> FALSE]
StepOf(p) == Steps[job[p].at]
Serving(p) == StepOf(p) = "serving"

\* What CREATE TABLE brings with it, unique constraints included; the indexes
\* that follow it are statements of their own.
Created(x) ==
  CASE x = "symbols" -> {x, "owner_user_id"}
    [] x = "news_items" -> {x} \cup NewsColumn
    [] OTHER -> {x}
IndexesOf(x) ==
  {k \in Ix : IxOf[k] = x} \cup
  IF x = "collection_runs" THEN {"uq_collection_runs_one_running"} ELSE {}

\* Any tables with any of their columns and indexes: a new file, one of an
\* earlier build, or one that a killed process left half way.  The owner's
\* column came with the users; without the index several dead runs may be
\* running.
Init ==
  /\ schema \in {T \cup X : T \in SUBSET Table, X \in SUBSET (Addition \cup Ix)}
  /\ \A x \in Table \ schema : schema \cap (Created(x) \cup IndexesOf(x)) = {}
  /\ "owner_user_id" \in schema => "users" \in schema
  /\ users \in IF "users" \in schema THEN SUBSET User ELSE {{}}
  /\ owner \in [Symbol ->
       {NoRow} \cup (IF "symbols" \in schema THEN {Nobody} ELSE {})
               \cup (IF "owner_user_id" \in schema THEN users ELSE {})]
  /\ running \in IF "collection_runs" \in schema THEN SUBSET Old ELSE {{}}
  /\ "uq_collection_runs_one_running" \in schema => Cardinality(running) <= 1
  /\ job = [p \in Proc |-> Booting]
  /\ faults = 0

-----------------------------------------------------------------------------

\* Mutant: the columns are taken to come together.
Missing_AllOrNothing(step) ==
  CASE step = "tables" -> Table \ schema
    [] step = "owner" -> {"owner_user_id"} \ schema
    [] step = "claim" -> IF Cardinality(users) = 1 THEN users ELSE {}
    [] step = "index" -> {"uq_collection_runs_one_running"} \ schema
    [] step = "news" -> IF "ai_summary" \in schema THEN {} ELSE NewsColumn \ schema

\* What a part of init_db finds to do: missing tables and columns and the
\* one-running index, but no plain index; the sole user, if there is exactly one.
Missing(step) ==
  CASE step = "tables" -> Table \ schema
    [] step = "owner" -> {"owner_user_id"} \ schema
    [] step = "claim" -> IF Cardinality(users) = 1 THEN users ELSE {}
    [] step = "index" -> {"uq_collection_runs_one_running"} \ schema
    [] step = "news" -> NewsColumn \ schema

Look(p) ==
  /\ ~Serving(p)
  /\ ~job[p].looked
  /\ job' = [job EXCEPT ![p].looked = TRUE, ![p].todo = Missing(StepOf(p))]
  /\ UNCHANGED <<schema, users, owner, running, faults>>

\* Nothing (more) to do: on to the next part, or to serving.
Proceed(p) ==
  /\ job[p].looked
  /\ job[p].todo = {}
  /\ job' = [job EXCEPT ![p] = [Booting EXCEPT !.at = job[p].at + 1]]
  /\ UNCHANGED <<schema, users, owner, running, faults>>

\* The statements that may come next: the indexes of the table just made, in
\* any order, before the next table; tables and columns in their fixed order.
Due(p) ==
  LET todo  == job[p].todo
      new   == todo \cap (Ix \cup {"uq_collection_runs_one_running"})
      order == TableOrder \o <<"owner_user_id", "ai_summary", "ai_summary_model",
                               "ai_summary_at">>
  IN  IF new # {} THEN new
      ELSE {x \in todo : \A i, j \in DOMAIN order :
                           i < j /\ order[j] = x => order[i] \notin todo}

\* create_all makes a table; its indexes are to follow.
CreateTable(p, x) ==
  /\ StepOf(p) = "tables"
  /\ x \in Due(p) \cap Table
  /\ x \notin schema
  /\ schema' = schema \cup Created(x)
  /\ job' = [job EXCEPT ![p].todo = (@ \ {x}) \cup IndexesOf(x)]
  /\ UNCHANGED <<users, owner, running, faults>>

\* ALTER TABLE ADD COLUMN, committed by itself.
AddColumn(p, x) ==
  /\ StepOf(p) \in {"owner", "news"}
  /\ x \in Due(p) \ schema
  /\ schema' = schema \cup {x}
  /\ job' = [job EXCEPT ![p].todo = @ \ {x}]
  /\ UNCHANGED <<users, owner, running, faults>>

\* Mutants: the index is built over whatever runs there are; IF NOT EXISTS.
CreateIndex_NoUpdate(p, x) ==
  /\ StepOf(p) = "index"
  /\ x \in job[p].todo \ schema
  /\ Cardinality(running) <= 1
  /\ schema' = schema \cup {x}
  /\ job' = [job EXCEPT ![p].todo = @ \ {x}]
  /\ UNCHANGED <<users, owner, running, faults>>
CreateIndex_IfNotExists(p, x) ==
  /\ StepOf(p) = "index"
  /\ x \in job[p].todo
  /\ running' = {}
  /\ schema' = schema \cup {x}
  /\ job' = [job EXCEPT ![p].todo = @ \ {x}]
  /\ UNCHANGED <<users, owner, faults>>

\* The running collections are failed and the index is created, in one
\* transaction.
CreateIndex(p, x) ==
  /\ StepOf(p) = "index"
  /\ x \in job[p].todo \ schema
  /\ running' = {}
  /\ schema' = schema \cup {x}
  /\ job' = [job EXCEPT ![p].todo = @ \ {x}]
  /\ UNCHANGED <<users, owner, faults>>

\* An index of a table that create_all has just made: no runs are touched.
IndexNewTable(p, x) ==
  /\ StepOf(p) = "tables"
  /\ x \in Due(p) \ (Table \cup schema)
  /\ x = "uq_collection_runs_one_running" => Cardinality(running) <= 1
  /\ schema' = schema \cup {x}
  /\ job' = [job EXCEPT ![p].todo = @ \ {x}]
  /\ UNCHANGED <<users, owner, running, faults>>

\* _backfill_symbol_owner gives the legacy symbols to the user it has read.  The
\* read has opened no transaction: others may have signed up since.
Claim(p, u) ==
  /\ StepOf(p) = "claim"
  /\ u \in job[p].todo
  /\ owner' = [s \in Symbol |-> IF owner[s] = Nobody THEN u ELSE owner[s]]
  /\ job' = [job EXCEPT ![p].todo = @ \ {u}]
  /\ UNCHANGED <<schema, users, running, faults>>

\* The other process was first: the statement fails, its transaction is rolled
\* back, and the process ends and is started again.  The indexes that it still
\* owed to a new table are never made: the next create_all finds the table.
Duplicate(p) ==
  /\ Due(p) \cap schema # {}
  /\ job' = [job EXCEPT ![p] = Booting]
  /\ UNCHANGED <<schema, users, owner, running, faults>>

\* A process is killed, booting or serving.
Kill(p) ==
  /\ faults < MaxFaults
  /\ faults' = faults + 1
  /\ job' = [job EXCEPT ![p] = Booting]
  /\ UNCHANGED <<schema, users, owner, running>>

-----------------------------------------------------------------------------
(* What a process that is up does to the same tables. *)

Login(p, u) ==
  /\ Serving(p)
  /\ u \notin users
  /\ users' = users \cup {u}
  /\ UNCHANGED <<schema, owner, running, job, faults>>

\* create_symbol always sets the owner.
Register(p, s, u) ==
  /\ Serving(p)
  /\ u \in users
  /\ owner[s] = NoRow
  /\ owner' = [owner EXCEPT ![s] = u]
  /\ UNCHANGED <<schema, users, running, job, faults>>

\* A collection starts; rows of dead runs are reclaimed first, in their time.
StartRun(p) ==
  /\ Serving(p)
  /\ \A q \in Proc : ~job[q].busy
  /\ running' = {p}
  /\ job' = [job EXCEPT ![p].busy = TRUE]
  /\ UNCHANGED <<schema, users, owner, faults>>

FinishRun(p) ==
  /\ job[p].busy
  /\ running' = running \ {p}
  /\ job' = [job EXCEPT ![p].busy = FALSE]
  /\ UNCHANGED <<schema, users, owner, faults>>

Boot(p) ==
  \/ Look(p) \/ Proceed(p) \/ Duplicate(p)
  \/ \E x \in Table \cup Addition \cup Ix :
       CreateTable(p, x) \/ AddColumn(p, x) \/ CreateIndex(p, x) \/ IndexNewTable(p, x)
  \/ \E u \in User : Claim(p, u)

Next ==
  \E p \in Proc :
    \/ Boot(p) \/ Kill(p)
    \/ \E u \in User : Login(p, u) \/ \E s \in Symbol : Register(p, s, u)
    \/ StartRun(p) \/ FinishRun(p)

Spec == Init /\ [][Next]_vars

\* A process that is started gets on, and is started again when it ends.
Fairness == \A p \in Proc : WF_vars(Boot(p))

FairSpec == Spec /\ Fairness

-----------------------------------------------------------------------------

\* Tables and processes are well typed.
TypeOK ==
  /\ schema \subseteq Table \cup Addition \cup Ix
  /\ users \subseteq User
  /\ owner \in [Symbol -> User \cup {NoRow, Nobody}]
  /\ running \subseteq Proc \cup Old
  /\ job \in [Proc -> [at: DOMAIN Steps, looked: BOOLEAN,
                       todo: SUBSET (Table \cup Addition \cup Ix \cup User), busy: BOOLEAN]]
  /\ faults \in 0..MaxFaults

\* Whoever serves finds every table, every column and the one-running index,
\* whatever build the file was of and wherever this or the other process was
\* killed or beaten while migrating it.  It need not find the plain indexes: one
\* whose statement was lost after its CREATE TABLE stays missing for ever.
ServesFullTables == \A p \in Proc : Serving(p) => Table \cup Addition \subseteq schema

\* Both: the rows, and what a process may rely on once it is up.
SchemaInv == TypeOK /\ ServesFullTables

\* A late migration never fails the run of a process that already collects: its
\* UPDATE is rolled back with the index it finds in place.
LiveRunSpared == \A p \in Proc : job[p].busy => p \in running

\* What database.py promises of the claim ("with zero or multiple users we cannot
\* safely attribute ownership"): a legacy symbol goes to a user only while there
\* is no other.  The code counts the users before its UPDATE and does not hold
\* the count.
OnlySoleUserClaims ==
  [][\A s \in Symbol : owner[s] = Nobody /\ owner'[s] \in User => users = {owner'[s]}]_vars

\* Both processes come up in the end, also from databases with several running
\* collections, and after kills and lost races.
BothServe == \A p \in Proc : []<>Serving(p)

=============================================================================
