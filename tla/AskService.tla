----------------------------- MODULE AskService -----------------------------
(***************************************************************************)
(* What POST /ask and POST /ask/stream promise about one question, free of *)
(* how they get there: queries are accepted by the validator, accepted     *)
(* queries may be run on the source database, and the one reply either     *)
(* carries a query with the rows of a run of that query, or carries no     *)
(* rows at all.  OnlinePipeline is shown to implement this specification.  *)
(***************************************************************************)
EXTENDS Naturals

CONSTANTS Sql, ReadOnly, Rows, EmptyRows, NoSql

VARIABLES
  accepted,   \* queries the validator has accepted so far
  ran,        \* the runs so far: pairs of a query and its rows
  reply       \* the reply, Pending until it is given

vars == <<accepted, ran, reply>>

Refusals == {"conversational", "schema_missing", "no_sql",
             "correction_failed", "error", "disconnected"}

Reply == [kind : {"pending", "answered"} \union Refusals,
          sql : Sql \union {NoSql}, rows : Rows]

Pending == [kind |-> "pending", sql |-> NoSql, rows |-> EmptyRows]

Init == accepted = {} /\ ran = {} /\ reply = Pending

(* Only read-only queries are ever accepted.                                *)
Accept(sql) ==
  /\ reply = Pending
  /\ sql \in ReadOnly
  /\ accepted' = accepted \union {sql}
  /\ UNCHANGED <<ran, reply>>

(* Only accepted queries reach the source database, and none after the      *)
(* reply.                                                                   *)
Run(sql, rows) ==
  /\ reply = Pending
  /\ sql \in accepted
  /\ ran' = ran \union {<<sql, rows>>}
  /\ UNCHANGED <<accepted, reply>>

Answer(sql, rows) ==
  /\ reply = Pending
  /\ <<sql, rows>> \in ran
  /\ reply' = [kind |-> "answered", sql |-> sql, rows |-> rows]
  /\ UNCHANGED <<accepted, ran>>

(* A reply without data; the failed query may be shown to the user.         *)
Refuse(kind, sql) ==
  /\ reply = Pending
  /\ reply' = [kind |-> kind, sql |-> sql, rows |-> EmptyRows]
  /\ UNCHANGED <<accepted, ran>>

Conclude ==
  \/ \E run \in ran : Answer(run[1], run[2])
  \/ \E kind \in Refusals, sql \in Sql \union {NoSql} : Refuse(kind, sql)

Next ==
  \/ \E sql \in Sql : Accept(sql)
  \/ \E sql \in Sql, rows \in Rows : Run(sql, rows)
  \/ Conclude

(* What never happens to a question, and that every question is concluded.  *)
Safety == Init /\ [][Next]_vars
Spec == Safety /\ WF_vars(Conclude)
============================================================================
