------------------------------ MODULE Validator ------------------------------
(***************************************************************************)
(* What the self-correction loop may expect of one validation, free of how *)
(* the metadata are read: the index goes on changing while a query is      *)
(* checked.  A verdict that accepts is right about the tables at some      *)
(* moment since the query was given and about the columns at the moment it *)
(* is given; one that rejects is right if the index did not change.        *)
(* SqlValidation is shown to implement this specification.                 *)
(***************************************************************************)
EXTENDS QueryMeaning

CONSTANT Queries

VARIABLES
  catalog,  \* the committed tables
  seen,     \* all there was in the index since the query was given
  query,    \* the query given
  verdict   \* "none" until it is given

vars == <<catalog, seen, query, verdict>>

Init ==
  /\ catalog \in SUBSET TableRow /\ seen = {catalog}
  /\ query \in Queries /\ verdict = "none"

Give(v) ==
  /\ verdict = "none" /\ verdict' = v
  /\ UNCHANGED <<catalog, seen, query>>

(* A query whose tables were in the index together and whose columns are in *)
(* tables of these names now, in the very ones the query means where this   *)
(* can be told.                                                             *)
Accept ==
  /\ query.kind = "query"
  /\ \E found \in seen : TablesThere(query, found)
  /\ ColumnsSomewhere(query, catalog)
  /\ OneScope(query) /\ (\A found \in seen : NamesUnique(found))
       => ColumnsThere(query, catalog)
  /\ Give("accepted")

(* What is no query, or a query that refers to what is not there.  The      *)
(* service may err where it says so: while the index changes, and when a    *)
(* name stands for more than one thing.                                     *)
Reject ==
  /\ \/ query.kind # "query"
     \/ seen # {catalog} \/ ~OneScope(query) \/ ~RowsUnique(catalog)
     \/ RefersToNothing(query, catalog)
  /\ Give("rejected")

(* The index could not be read.                                             *)
Fail == query.kind = "query" /\ Give("failed")

Commit ==
  /\ catalog' \in SUBSET TableRow /\ seen' = seen \union {catalog'}
  /\ UNCHANGED <<query, verdict>>

Next == Accept \/ Reject \/ Fail \/ Commit

Spec == Init /\ [][Next]_vars

=============================================================================
