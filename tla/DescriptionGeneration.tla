------------------------ MODULE DescriptionGeneration ------------------------
(***************************************************************************)
(* POST /schema/descriptions/generate: DescriptionGenerationPipeline.run   *)
(* and DescriptionGenerator (services/pipelines/offline/generate).  A run  *)
(* loads the tables of one database with their columns and descriptions,   *)
(* then, table by table, has the language model describe the table and all *)
(* its columns and commits the descriptions in a transaction of their own. *)
(*                                                                         *)
(* The calls of the language model read nothing that can change meanwhile, *)
(* and a call that fails only makes the text a placeholder, so generating  *)
(* the texts of a table and committing them is one step.  What matters is  *)
(* that the rows were loaded before the first of these steps.              *)
(***************************************************************************)
EXTENDS MetadataStore

CONSTANTS
  Runs,       \* the runs of description generation
  Selections  \* sets of tables that table_names or limit may select

ASSUME GenerationAssumption == Selections \subseteq SUBSET Tables

VARIABLE run

----------------------------------------------------------------------------

(* rows: the tables and columns as loaded; todo: the tables still to do.    *)
NewRun == [pc |-> "idle", rows |-> {}, todo |-> {}]

GenerationInit == run = [g \in Runs |-> NewRun]

(* What a run goes on to use of a row.                                      *)
LoadedRow == [id : RowId, parent : RowId, text : Texts \union {NoText}]

Loaded(x) == [id |-> x.id, parent |-> x.parent, text |-> x.text]

(* The selected tables of the first database there is, with their columns.  *)
Load(g) ==
  /\ run[g].pc = "idle"
  /\ \E d \in RowsNamed(store, {DatabaseName}), names \in Selections :
       LET tables == RowsNamed({x \in store : x.root = d.id}, names)
           columns == {x \in store : x.parent \in IdsOf(tables)}
       IN run' = [run EXCEPT ![g] =
            [pc |-> "generate", todo |-> IdsOf(tables),
             rows |-> {Loaded(x) : x \in tables \union columns}]]
  /\ UNCHANGED store

NoDatabase(g) ==
  /\ run[g].pc = "idle"
  /\ RowsNamed(store, {DatabaseName}) = {}
  /\ run' = [run EXCEPT ![g].pc = "not_found"]
  /\ UNCHANGED store

(* The loaded rows that belong to table t.                                  *)
RowsOf(g, t) == {x \in run[g].rows : x.id = t \/ x.parent = t}

(* What the session has to write: only texts that differ from those loaded. *)
ToWrite(g, t, text) == {x \in RowsOf(g, t) : text[x.id] # x.text}

(* The row a description belongs to has been deleted, or another run has    *)
(* inserted a description where this one loaded none: foreign key or unique *)
(* violation, or StaleDataError.                                            *)
CannotWrite(rows) ==
  \E x \in rows :
    \A y \in store : y.id = x.id => x.text = NoText /\ y.text # NoText

DescribedExistingOnly(rows, text) ==
  {IF x.id \in IdsOf(rows) /\ x.text # NoText
   THEN [x EXCEPT !.text = text[x.id]] ELSE x : x \in store}

Described(rows, text) ==
  {IF x.id \in IdsOf(rows) THEN [x EXCEPT !.text = text[x.id]] ELSE x : x \in store}

DescribeTable(g, t) ==
  /\ run[g].pc = "generate" /\ t \in run[g].todo
  /\ \E text \in [IdsOf(RowsOf(g, t)) -> Texts] :
       /\ ~CannotWrite(ToWrite(g, t, text))
       /\ store' = Described(ToWrite(g, t, text), text)
  /\ run' = [run EXCEPT ![g].todo = @ \ {t}]

(* The rollback expires every loaded object, and the error message that     *)
(* follows it reads table.name: refreshing it outside of a greenlet raises, *)
(* in the handler, and the run is over.                                     *)
Rollback(g, t) ==
  run' = [run EXCEPT ![g] = [NewRun EXCEPT !.pc = "aborted"]]

CommitFails(g, t) ==
  /\ run[g].pc = "generate" /\ t \in run[g].todo
  /\ \E text \in [IdsOf(RowsOf(g, t)) -> Texts] : CannotWrite(ToWrite(g, t, text))
  /\ Rollback(g, t)
  /\ UNCHANGED store

Finish(g) ==
  /\ run[g].pc = "generate" /\ run[g].todo = {}
  /\ run' = [run EXCEPT ![g].pc = "success"]
  /\ UNCHANGED store

(* The process dies or the connection of the session is lost.               *)
Crash(g) ==
  /\ run[g].pc = "generate"
  /\ run' = [run EXCEPT ![g] = [NewRun EXCEPT !.pc = "crashed"]]
  /\ UNCHANGED store

----------------------------------------------------------------------------

Generate(g) ==
  Finish(g) \/ \E t \in run[g].todo : DescribeTable(g, t) \/ CommitFails(g, t)

GenerationNext ==
  \E g \in Runs : Load(g) \/ NoDatabase(g) \/ Generate(g) \/ Crash(g)

=============================================================================
