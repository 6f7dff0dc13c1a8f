----------------------------- MODULE SchemaIndex -----------------------------
(***************************************************************************)
(* POST /schema/index: SchemaExtractionPipeline.run and the                *)
(* SchemaCrawlerService it drives (services/pipelines/offline/extraction,  *)
(* services/source_sql).  A request crawls the source database with four   *)
(* queries and the samples of each table, while the source changes, drops  *)
(* the tables without a meaningful sample, and then upserts what is left   *)
(* in one transaction, one row after the other, each found or inserted by  *)
(* a SELECT of its own.  Several requests may do so at once.               *)
(*                                                                         *)
(* The crawl is synchronous code: it holds the event loop of the process,  *)
(* of which there is one (workers_count in settings.py), so that no other  *)
(* request takes a step from the first query to the last sample.  The      *)
(* transaction awaits every statement.                                     *)
(***************************************************************************)
EXTENDS MetadataStore, Functions

CONSTANTS
  InitialColumns,  \* columns of the source at the start
  DeclaredKeys,    \* foreign keys of the source: pairs of columns
  IdColumns,       \* the columns named "id"
  RefersTo,        \* for "x_id": the tables named x, xs or xes
  MaxTries,        \* stop_after_attempt(3)
  Changing,        \* bound: the tables of the source that change
  MaxEdits         \* bound: changes of the source

ASSUME IndexAssumption ==
  /\ InitialColumns \subseteq Columns /\ IdColumns \subseteq Columns
  /\ IsFiniteSet(Columns)
  /\ DeclaredKeys \subseteq Columns \X Columns
  /\ RefersTo \in [Columns -> SUBSET Tables]
  /\ Changing \subseteq Tables
  /\ MaxTries \in Nat \ {0} /\ MaxEdits \in Nat

VARIABLES
  source,     \* the source database
  edits,      \* changes of the source so far
  job,        \* the index requests
  disturbed,  \* history: since the request began, the source changed or
              \* another request committed
  overlapped  \* history: two requests were saving at the same time

indexVars == <<source, edits, job, disturbed, overlapped>>

----------------------------------------------------------------------------
(* The source.                                                              *)

(* No meaningful value, be it for lack of rows; meaningful values only      *)
(* beyond the first and the last hundred rows; meaningful values among them.*)
Contents == {"blank", "late", "early"}

SourceTables == {Parent[c] : c \in source.columns}
SourceSchemas == {Parent[t] : t \in SourceTables}
SourceKeys == {k \in DeclaredKeys : {k[1], k[2]} \subseteq source.columns}

FetchPcs == {"fetch_schemas", "fetch_tables", "fetch_columns", "fetch_keys"}
CrawlPcs == FetchPcs \union {"sample"}
SavePcs == {"upsert_database", "upsert"}
Ended == {"success", "failed"}

(* What a request does or did can still matter.                             *)
Underway(r) == job[r].pc \notin {"idle", "failed"}

(* Some request holds the event loop.                                       *)
LoopHeld == \E r \in Requests : job[r].pc \in CrawlPcs

(* Only a crawl reads the source: a change while there is none comes to the *)
(* same as one before the first query of the next.                          *)
EditSource(changed) ==
  /\ edits < MaxEdits /\ LoopHeld
  /\ edits' = edits + 1
  /\ source' = changed
  /\ disturbed' = [r \in Requests |-> Underway(r)]
  /\ UNCHANGED <<store, job, overlapped>>

SourceChanges ==
  \/ \E c \in Columns : Parent[c] \in Changing /\
       \/ /\ c \notin source.columns
          /\ EditSource([source EXCEPT !.columns = @ \union {c}])
       \/ /\ c \in source.columns
          /\ \/ EditSource([source EXCEPT !.columns = @ \ {c}])
             \/ EditSource([source EXCEPT !.version[c] = @ + 1])
  \/ \E t \in Changing \intersect SourceTables :
       \E k \in Contents \ {source.contents[t]} :
         EditSource([source EXCEPT !.contents[t] = k])

----------------------------------------------------------------------------
(* A request.                                                               *)

Nothing == [x \in {} |-> x]

(* The request, what it has crawled, and its transaction: the rows it found *)
(* or inserted, its inserts, its updates and the trees it deleted.          *)
NewJob ==
  [pc |-> "idle", force |-> FALSE, tries |-> 0,
   schemas |-> {}, tables |-> {}, columns |-> Nothing, keys |-> {},
   unread |-> {}, listed |-> {},
   ids |-> Nothing, inserts |-> {}, updates |-> Nothing, deletes |-> {}]

(* What an earlier request left of the initial source.                      *)
EarlierRow(o) ==
  [id |-> <<Earlier, o>>,
   parent |-> IF o = DatabaseName THEN NoRow ELSE <<Earlier, Parent[o]>>,
   root |-> <<Earlier, DatabaseName>>,
   facts |-> [listed |-> TRUE, version |->
     IF o \in Tables THEN Cardinality({c \in InitialColumns : Parent[c] = o}) ELSE 0],
   text |-> NoText]

EarlierIndex ==
  LET tables == {Parent[c] : c \in InitialColumns}
  IN {EarlierRow(o) : o \in {DatabaseName} \union {Parent[t] : t \in tables}
                              \union tables \union InitialColumns}

IndexInit ==
  /\ store \in {{}, EarlierIndex}
  /\ source = [columns |-> InitialColumns,
               version |-> [c \in Columns |-> 0],
               contents |-> [t \in Tables |-> "early"]]
  /\ edits = 0
  /\ job = [r \in Requests |-> NewJob]
  /\ disturbed = [r \in Requests |-> FALSE]
  /\ overlapped = FALSE

(* What remains to be seen of a request that ended.                         *)
EndAs(r, pc) ==
  job' = [job EXCEPT ![r] =
    IF pc = "success"
    THEN [NewJob EXCEPT !.pc = pc, !.force = job[r].force,
                        !.unread = job[r].unread,
                        !.ids = Restrict(job[r].ids, {DatabaseName})]
    ELSE [NewJob EXCEPT !.pc = pc]]

FailCommits(r) ==
  /\ EndAs(r, "failed")
  /\ store' = WithoutTrees(store, job[r].deletes) \union job[r].inserts
  /\ disturbed' = [disturbed EXCEPT ![r] = FALSE]
  /\ UNCHANGED <<source, edits, overlapped>>

(* An exception leaves session.begin(): the transaction is rolled back.     *)
Fail(r) ==
  /\ EndAs(r, "failed")
  /\ disturbed' = [disturbed EXCEPT ![r] = FALSE]
  /\ UNCHANGED <<store, source, edits, overlapped>>

Start(r, force) ==
  /\ job[r].pc = "idle"
  /\ job' = [job EXCEPT ![r].pc = "fetch_schemas", ![r].force = force]
  /\ UNCHANGED <<store, source, edits, disturbed, overlapped>>

----------------------------------------------------------------------------
(* The crawl.                                                               *)

(* The query of pc is answered from the source as it is now.                *)
Answered(r, pc, next, answer) ==
  /\ job[r].pc = pc
  /\ job' = [job EXCEPT ![r] = [answer EXCEPT !.pc = next, !.tries = 0]]
  /\ UNCHANGED <<store, source, edits, disturbed, overlapped>>

FetchSchemas(r) ==
  Answered(r, "fetch_schemas", "fetch_tables",
           [job[r] EXCEPT !.schemas = SourceSchemas])

FetchTables(r) ==
  Answered(r, "fetch_tables", "fetch_columns",
           [job[r] EXCEPT !.tables = SourceTables])

FetchColumns(r) ==
  Answered(r, "fetch_columns", "fetch_keys",
           [job[r] EXCEPT !.columns = Restrict(source.version, source.columns)])

(* fetch_foreign_keys answers a failed query with no keys.                  *)
FetchKeys(r) ==
  \E found \in {SourceKeys, {}} :
    Answered(r, "fetch_keys", "sample", [job[r] EXCEPT !.keys = found])

NextTry(r) == job[r].tries + 1

(* The other fetches are tried again, and fail the request at the last try. *)
FetchFails(r) ==
  /\ job[r].pc \in FetchPcs \ {"fetch_keys"}
  /\ IF NextTry(r) = MaxTries
     THEN Fail(r)
     ELSE /\ job' = [job EXCEPT ![r].tries = NextTry(r)]
          /\ UNCHANGED <<store, source, edits, disturbed, overlapped>>

(* Of a table of which the first look, a hundred rows from either end,      *)
(* finds no meaningful value, all rows are read.                            *)
FirstLook(t) == source.contents[t] = "early"
FullScan(t) == source.contents[t] = "late"
HasSamples(t) == FirstLook(t) \/ FullScan(t)

KeptUnread(r, sampled) == job[r].tables

KeptFirstLook(r, sampled) ==
  {t \in sampled :
     FirstLook(t) /\ \E c \in DOMAIN job[r].columns \intersect source.columns :
                       Parent[c] = t}

(* tables_with_samples: some crawled column, still there, has a sample.     *)
Kept(r, sampled) ==
  {t \in sampled :
     HasSamples(t) /\ \E c \in DOMAIN job[r].columns \intersect source.columns :
                        Parent[c] = t}

(* The samples of the tables, one task each; a query that fails, of the     *)
(* tables in unread, counts as a table without rows.  Tables without        *)
(* samples are dropped with their columns.                                  *)
Sample(r) ==
  /\ job[r].pc = "sample"
  /\ \E unread \in SUBSET job[r].tables :
       LET sampled == (job[r].tables \intersect SourceTables) \ unread
           kept == Kept(r, sampled)
       IN job' = [job EXCEPT
            ![r].pc = "upsert_database",
            ![r].unread = {t \in unread : HasSamples(t)},
            ![r].listed = sampled \intersect kept,
            ![r].tables = job[r].tables \intersect kept,
            ![r].columns = Restrict(@, {c \in DOMAIN @ : Parent[c] \in kept})]
  /\ UNCHANGED <<store, source, edits, disturbed, overlapped>>

----------------------------------------------------------------------------
(* The transaction.                                                         *)

(* An entry of the maps from names to row ids, and of a session's changes.  *)
Put(f, x, v) == [y \in DOMAIN f \union {x} |-> IF y = x THEN v ELSE f[y]]

(* What a SELECT of r sees.                                                 *)
View(r) == WithoutTrees(store, job[r].deletes) \union job[r].inserts

NewRow(r, o, parent, root, facts) ==
  [id |-> <<r, o>>, parent |-> parent, root |-> root, facts |-> facts,
   text |-> NoText]

NoFacts == [version |-> 0, listed |-> TRUE]

(* scalars().first() of the databases row, if there is one.                 *)
UpsertDatabase(r) ==
  /\ job[r].pc = "upsert_database"
  /\ LET found == RowsNamed(store, {DatabaseName})
         new == <<r, DatabaseName>>
         inserting == [job[r] EXCEPT
           !.pc = "upsert", !.ids = Put(Nothing, DatabaseName, new),
           !.inserts = {NewRow(r, DatabaseName, NoRow, new, NoFacts)}]
     IN \/ /\ found = {}
           /\ job' = [job EXCEPT ![r] = inserting]
        \/ /\ job[r].force
           /\ \E x \in found :
                job' = [job EXCEPT ![r] = [inserting EXCEPT !.deletes = {x.id}]]
        \/ /\ ~job[r].force
           /\ \E x \in found :
                job' = [job EXCEPT ![r].pc = "upsert",
                                   ![r].ids = Put(Nothing, DatabaseName, x.id)]
  /\ overlapped' = (overlapped \/ \E q \in Requests \ {r} : job[q].pc = "upsert")
  /\ UNCHANGED <<store, source, edits, disturbed>>

(* The objects of a level whose parent has been saved.                      *)
Waiting(r, level) ==
  {o \in level \ DOMAIN job[r].ids : Parent[o] \in DOMAIN job[r].ids}

(* Schemas, then tables, then columns; within a level in the order of the   *)
(* source's answer, for which CHOOSE stands.                                *)
Pending(r) ==
  LET schemas == Waiting(r, job[r].schemas)
      tables == Waiting(r, job[r].tables)
  IN IF schemas # {} THEN schemas
     ELSE IF tables # {} THEN tables
     ELSE Waiting(r, DOMAIN job[r].columns)

FactsOf(r, o) ==
  IF o \in Columns
  THEN [version |-> job[r].columns[o], listed |-> Parent[o] \in job[r].listed]
  ELSE IF o \in Tables
  THEN [version |-> Cardinality({c \in DOMAIN job[r].columns : Parent[c] = o}),
        listed |-> TRUE]
  ELSE NoFacts

MatchOwn(r, o) == {x \in job[r].inserts : Name(x) = o}
Match(r, o) == RowsNamed(ChildrenOf(View(r), job[r].ids[Parent[o]]), {o})

(* The row of o under its parent gets the crawled facts; if the SELECT      *)
(* finds none, it is inserted.  Only facts that differ make an UPDATE.      *)
Upsert(r) ==
  /\ job[r].pc = "upsert" /\ Pending(r) # {}
  /\ LET o == CHOOSE p \in Pending(r) : TRUE
         parent == job[r].ids[Parent[o]]
         facts == FactsOf(r, o)
     IN \/ /\ Match(r, o) = {}
           /\ job' = [job EXCEPT
                ![r].ids = Put(@, o, <<r, o>>),
                ![r].inserts = @ \union
                  {NewRow(r, o, parent, job[r].ids[DatabaseName], facts)}]
        \/ \E x \in Match(r, o) :
             job' = [job EXCEPT
               ![r].ids = Put(@, o, x.id),
               ![r].updates = IF x.facts = facts THEN @ ELSE Put(@, x.id, facts)]
  /\ UNCHANGED <<store, source, edits, disturbed, overlapped>>

(* "x_id" points at the "id" of another table named x, xs or xes.           *)
VirtualKeys(columns) ==
  {k \in columns \X (columns \intersect IdColumns) :
     k[1] \notin IdColumns /\ Parent[k[2]] \in RefersTo[k[1]] \ {Parent[k[1]]}}

(* Foreign keys, declared or virtual, between two columns that were saved.  *)
KeysToSave(r) ==
  {k \in job[r].keys \union VirtualKeys(DOMAIN job[r].columns) :
     {k[1], k[2]} \subseteq DOMAIN job[r].ids}

(* _upsert_foreign_key reads ForeignKey.column_id, an attribute the model   *)
(* does not have.                                                           *)
ForeignKeyFails(r) ==
  /\ job[r].pc = "upsert" /\ Pending(r) = {}
  /\ KeysToSave(r) # {}
  /\ Fail(r)

(* A parent of a new row, or a row to be updated, has been deleted by a     *)
(* transaction that committed: foreign key violation, StaleDataError.       *)
Conflicts(r) ==
  LET mine == IdsOf(job[r].inserts) \union {NoRow}
      there == IdsOf(WithoutTrees(store, job[r].deletes))
  IN \/ \E x \in job[r].inserts : x.parent \notin mine \union there
     \/ DOMAIN job[r].updates \ there # {}

UpdatedForgetsText(r, x) ==
  IF x.id \in DOMAIN job[r].updates
  THEN [x EXCEPT !.facts = job[r].updates[x.id], !.text = NoText] ELSE x

Updated(r, x) ==
  IF x.id \in DOMAIN job[r].updates
  THEN [x EXCEPT !.facts = job[r].updates[x.id]] ELSE x

Commit(r) ==
  /\ job[r].pc = "upsert" /\ Pending(r) = {}
  /\ KeysToSave(r) = {} /\ ~Conflicts(r)
  /\ store' = {Updated(r, x) : x \in WithoutTrees(store, job[r].deletes)}
                \union job[r].inserts
  /\ EndAs(r, "success")
  /\ disturbed' = [q \in Requests |-> IF q = r THEN disturbed[r] ELSE Underway(q)]
  /\ UNCHANGED <<source, edits, overlapped>>

SaveFails(r) ==
  /\ job[r].pc = "upsert" /\ Conflicts(r)
  /\ Fail(r)

(* A connection is lost or the process dies.                                *)
Fault(r) ==
  /\ job[r].pc \notin Ended \union {"idle"}
  /\ Fail(r)

----------------------------------------------------------------------------

Crawl(r) ==
  \/ FetchSchemas(r) \/ FetchTables(r) \/ FetchColumns(r) \/ FetchKeys(r)
  \/ FetchFails(r) \/ Sample(r)

Save(r) ==
  \/ UpsertDatabase(r) \/ Upsert(r)
  \/ ForeignKeyFails(r) \/ Commit(r) \/ SaveFails(r)

Work(r) == Crawl(r) \/ (~LoopHeld /\ Save(r))

IndexNext ==
  \/ SourceChanges
  \/ \E r \in Requests : Work(r) \/ Fault(r)
  \/ ~LoopHeld /\ \E r \in Requests, force \in BOOLEAN : Start(r, force)

=============================================================================
