--------------------------- MODULE OnlinePipeline ---------------------------
(***************************************************************************)
(* One question going through OnlinePipeline                               *)
(* (services/pipelines/online/online_pipeline.py) behind the /online API   *)
(* (web/api/online/views.py): ask_question, the blocking form, or          *)
(* ask_question_stream, the SSE form.  Between two awaits or yields the    *)
(* coroutine runs alone, so each await of a service, and each yield, is an *)
(* action.  The validate / execute / correct loop is SelfCorrection.       *)
(*                                                                         *)
(* Prompts, schema texts and wording are left out; of the schema context   *)
(* only its emptiness matters, of a result set whether it is empty, thin,  *)
(* or not serialisable by json.dumps.                                      *)
(***************************************************************************)
EXTENDS SelfCorrection, FiniteSets

CONSTANTS
  IntentOutputs,  \* the arrays of codes the intent prompt can return, as sets
  ThinRows,       \* results of at most two columns that all look like ids
  OpaqueRows      \* results json.dumps cannot serialise

ASSUME PipelineAssumption ==
  /\ ThinRows \subseteq Rows \ {EmptyRows}
  /\ OpaqueRows \subseteq Rows \ {EmptyRows}

VARIABLES
  mode,           \* which endpoint was called
  pc,             \* where the request's coroutine is suspended
  strategies,     \* strategy codes returned by intent detection
  has_schema,     \* schema_context is not blank
  refined_sql,
  final_sql, final_data,
  wire,           \* the SSE events written to the client so far
  outcome         \* the reply

requestVars == <<mode, pc, strategies, has_schema, refined_sql, final_sql,
                 final_data, wire, outcome>>
vars == <<loopVars, requestVars>>

----------------------------------------------------------------------------

ValidCodes == 0..5

Progress == {"intent_detected", "schema_retrieved", "planning_steps",
             "sql_generated", "sql_validated", "query_executed",
             "refining_result", "refinement_sql_generated",
             "refinement_completed"}
Terminal == {"final_answer", "schema_missing", "correction_failed", "error"}

Event == [event : Progress \union Terminal, sql : Sql \union {NoSql}]

Outcome == [kind : {"pending", "answered", "conversational", "schema_missing",
                    "no_sql", "correction_failed", "error", "disconnected"},
            sql : Sql \union {NoSql}, rows : Rows,
            answer : {"none", "no_data", "llm", "apology", "canned"}]

Pending == [kind |-> "pending", sql |-> NoSql, rows |-> EmptyRows,
            answer |-> "none"]

Init ==
  /\ LoopInit
  /\ mode \in {"blocking", "stream"}
  /\ pc = "start"
  /\ strategies = {}
  /\ has_schema = FALSE
  /\ refined_sql = NoSql
  /\ final_sql = NoSql /\ final_data = EmptyRows
  /\ wire = <<>>
  /\ outcome = Pending

(* yield: only the streaming form has a client that sees events.            *)
Yield(event, sql) ==
  wire' = IF mode = "stream"
          THEN Append(wire, [event |-> event, sql |-> sql])
          ELSE wire

(* The reply.  The streaming form ends with one terminal event.             *)
Reply(kind, sql, rows, answer, event) ==
  /\ pc' = "closed"
  /\ outcome' = [kind |-> kind, sql |-> sql, rows |-> rows, answer |-> answer]
  /\ Yield(event, sql)

NoLoopStep == UNCHANGED loopVars

----------------------------------------------------------------------------
(* Intent detection.                                                        *)

(* _get_pipeline builds the shared services on the first request.           *)
PipelineReady ==
  /\ pc = "start"
  /\ pc' = "intent"
  /\ NoLoopStep
  /\ UNCHANGED <<mode, strategies, has_schema, refined_sql, final_sql,
                 final_data, wire, outcome>>

(* A constructor raised: the API layer turns it into an error reply.        *)
PipelineUnavailable ==
  /\ pc = "start"
  /\ Reply("error", NoSql, EmptyRows, "none", "error")
  /\ NoLoopStep
  /\ UNCHANGED <<mode, strategies, has_schema, refined_sql, final_sql,
                 final_data>>

RequiresQuery(codes) == codes \ {0} # {}

(* Unknown codes are dropped, and 0 is dropped beside any other code.       *)
NormaliseKeepsZero(codes) == codes \intersect ValidCodes
Normalise(codes) ==
  LET valid == codes \intersect ValidCodes
  IN IF RequiresQuery(valid) THEN valid \ {0} ELSE valid

(* {1} is the fallback for a failed call and for an unparsable output.      *)
DetectedStrategies == {Normalise(codes) : codes \in IntentOutputs} \union {{1}}

DetectIntent ==
  /\ pc = "intent"
  /\ strategies' \in DetectedStrategies
  /\ pc' = IF RequiresQuery(strategies') THEN "retrieve" ELSE "chat"
  /\ Yield("intent_detected", NoSql)
  /\ NoLoopStep
  /\ UNCHANGED <<mode, has_schema, refined_sql, final_sql, final_data, outcome>>

(* AnswerGenerationService.generate(question, []): the result is empty, so  *)
(* the answer is the fixed "No data was found" text, without the LLM.       *)
ChatAnswer ==
  /\ pc = "chat"
  /\ Reply("conversational", NoSql, EmptyRows, "no_data", "final_answer")
  /\ NoLoopStep
  /\ UNCHANGED <<mode, strategies, has_schema, refined_sql, final_sql,
                 final_data>>

----------------------------------------------------------------------------
(* Schema retrieval and SQL generation.                                     *)

(* A failed embedding or search gives the empty schema.                     *)
Retrieve ==
  /\ pc = "retrieve"
  /\ has_schema' \in BOOLEAN
  /\ pc' = IF 4 \notin strategies THEN "generate"
           ELSE IF mode = "stream" THEN "announce_plan" ELSE "plan"
  /\ Yield("schema_retrieved", NoSql)
  /\ NoLoopStep
  /\ UNCHANGED <<mode, strategies, refined_sql, final_sql, final_data, outcome>>

AnnouncePlan ==
  /\ pc = "announce_plan"
  /\ pc' = "plan"
  /\ Yield("planning_steps", NoSql)
  /\ NoLoopStep
  /\ UNCHANGED <<mode, strategies, has_schema, refined_sql, final_sql,
                 final_data, outcome>>

(* The planner, unlike the generator, does not look at the schema context.  *)
MayGenerate == pc = "plan" \/ (pc = "generate" /\ has_schema)

SchemaMissing ==
  /\ pc = "generate"
  /\ ~has_schema
  /\ Reply("schema_missing", NoSql, EmptyRows, "canned", "schema_missing")
  /\ NoLoopStep
  /\ UNCHANGED <<mode, strategies, has_schema, refined_sql, final_sql,
                 final_data>>

(* The LLM failed, or its answer is the empty text.                         *)
NoSqlGenerated ==
  /\ MayGenerate
  /\ Reply("no_sql", NoSql, EmptyRows, "canned", "error")
  /\ NoLoopStep
  /\ UNCHANGED <<mode, strategies, has_schema, refined_sql, final_sql,
                 final_data>>

(* Any text: neither form drops a text without SELECT here.                 *)
SqlGenerated(sql) ==
  /\ MayGenerate
  /\ Yield("sql_generated", sql)
  /\ pc' = "loop"
  /\ Start(sql)
  /\ UNCHANGED <<mode, strategies, has_schema, refined_sql, final_sql,
                 final_data, outcome>>

----------------------------------------------------------------------------
(* The self-correction loop.                                                *)

InLoop ==
  /\ pc = "loop"
  /\ LoopStep
  /\ UNCHANGED requestVars

CorrectionExhaustedGoesOn ==
  /\ pc = "loop"
  /\ loop_pc = "returned"
  /\ result.status = "error"
  /\ Yield("correction_failed", result.sql)
  /\ pc' = "answer"
  /\ NoLoopStep
  /\ UNCHANGED <<mode, strategies, has_schema, refined_sql, final_sql,
                 final_data, outcome>>

CorrectionExhausted ==
  /\ pc = "loop"
  /\ loop_pc = "returned"
  /\ result.status = "error"
  /\ Reply("correction_failed", result.sql, EmptyRows, "canned",
           "correction_failed")
  /\ NoLoopStep
  /\ UNCHANGED <<mode, strategies, has_schema, refined_sql, final_sql,
                 final_data>>

(* Strategy 3 exists in the streaming form only.                            *)
QuerySucceeded ==
  /\ pc = "loop"
  /\ loop_pc = "returned"
  /\ result.status = "success"
  /\ final_sql' = result.sql
  /\ final_data' = result.data
  /\ Yield("sql_validated", result.sql)
  /\ pc' = IF mode = "stream" THEN "report_rows" ELSE "answer"
  /\ NoLoopStep
  /\ UNCHANGED <<mode, strategies, has_schema, refined_sql, outcome>>

ReportRows ==
  /\ pc = "report_rows"
  /\ Yield("query_executed", NoSql)
  /\ pc' = IF 3 \in strategies /\ final_data \in ThinRows
           THEN "announce_refinement" ELSE "answer"
  /\ NoLoopStep
  /\ UNCHANGED <<mode, strategies, has_schema, refined_sql, final_sql,
                 final_data, outcome>>

----------------------------------------------------------------------------
(* Result refinement.                                                       *)

AnnounceRefinement ==
  /\ pc = "announce_refinement"
  /\ Yield("refining_result", NoSql)
  /\ pc' = "refine"
  /\ NoLoopStep
  /\ UNCHANGED <<mode, strategies, has_schema, refined_sql, final_sql,
                 final_data, outcome>>

RefineSkipsValidation(sql) ==
  /\ pc = "refine"
  /\ refined_sql' = sql
  /\ Yield("refinement_sql_generated", sql)
  /\ pc' = "refine_execute"
  /\ NoLoopStep
  /\ UNCHANGED <<mode, strategies, has_schema, final_sql, final_data, outcome>>

(* refine() strips the LLM's text and passes it on, even when it is empty.  *)
Refine(sql) ==
  /\ pc = "refine"
  /\ refined_sql' = sql
  /\ Yield("refinement_sql_generated", sql)
  /\ pc' = "refine_validate"
  /\ NoLoopStep
  /\ UNCHANGED <<mode, strategies, has_schema, final_sql, final_data, outcome>>

RefinementCall(op, ok, data) ==
  calls' = Append(calls, [op |-> op, sql |-> refined_sql,
                          ok |-> ok, data |-> data])

RefinementAccepted ==
  /\ pc = "refine_validate"
  /\ refined_sql \in ReadOnly
  /\ RefinementCall("validate", TRUE, EmptyRows)
  /\ pc' = "refine_execute"
  /\ UNCHANGED <<loop_pc, attempt_num, current_sql, attempts, result>>
  /\ UNCHANGED <<mode, strategies, has_schema, refined_sql, final_sql,
                 final_data, wire, outcome>>

RefinementKeepsOldSql(rows) ==
  /\ final_data' = rows
  /\ UNCHANGED final_sql

(* Rows and text of the answer are replaced together.                       *)
TakeRefinement(rows) ==
  /\ final_data' = rows
  /\ final_sql' = refined_sql

RefinementExecuted(rows) ==
  /\ pc = "refine_execute"
  /\ RefinementCall("execute", TRUE, rows)
  /\ TakeRefinement(rows)
  /\ Yield("refinement_completed", NoSql)
  /\ pc' = "answer"
  /\ UNCHANGED <<loop_pc, attempt_num, current_sql, attempts, result>>
  /\ UNCHANGED <<mode, strategies, has_schema, refined_sql, outcome>>

(* No text, rejected or failed: the original result is answered.            *)
RefinementAbandoned ==
  /\ \/ pc = "refine" /\ UNCHANGED calls
     \/ pc = "refine_validate" /\ RefinementCall("validate", FALSE, EmptyRows)
     \/ pc = "refine_execute" /\ RefinementCall("execute", FALSE, EmptyRows)
  /\ pc' = "answer"
  /\ UNCHANGED <<loop_pc, attempt_num, current_sql, attempts, result>>
  /\ UNCHANGED <<mode, strategies, has_schema, refined_sql, final_sql,
                 final_data, wire, outcome>>

----------------------------------------------------------------------------
(* Answer generation and the end of the stream.                             *)

(* generate() catches every failure, json.dumps of the rows included.       *)
Answers(rows) ==
  IF rows = EmptyRows THEN {"no_data"}
  ELSE IF rows \in OpaqueRows THEN {"apology"} ELSE {"llm", "apology"}

(* _event_generator writes each event with json.dumps; the blocking form    *)
(* encodes its reply with FastAPI, which knows more types.                  *)
Writable(rows) == mode = "blocking" \/ rows \notin OpaqueRows

DeliverAnswer ==
  /\ pc = "answer"
  /\ Writable(final_data)
  /\ \E answer \in Answers(final_data) :
       Reply("answered", final_sql, final_data, answer, "final_answer")
  /\ NoLoopStep
  /\ UNCHANGED <<mode, strategies, has_schema, refined_sql, final_sql,
                 final_data>>

(* The client gets an error event in place of final_answer.                 *)
DeliverUnwritable ==
  /\ pc = "answer"
  /\ ~Writable(final_data)
  /\ Reply("error", NoSql, EmptyRows, "none", "error")
  /\ NoLoopStep
  /\ UNCHANGED <<mode, strategies, has_schema, refined_sql, final_sql,
                 final_data>>

(* The SSE client goes away: the server cancels the generator at its await  *)
(* or yield; "except Exception" does not catch that.                        *)
Disconnect ==
  /\ mode = "stream"
  /\ pc # "closed"
  /\ pc' = "closed"
  /\ outcome' = [Pending EXCEPT !.kind = "disconnected"]
  /\ NoLoopStep
  /\ UNCHANGED <<mode, strategies, has_schema, refined_sql, final_sql,
                 final_data, wire>>

----------------------------------------------------------------------------

Work ==
  \/ PipelineReady \/ PipelineUnavailable
  \/ DetectIntent \/ ChatAnswer
  \/ Retrieve \/ AnnouncePlan
  \/ SchemaMissing \/ NoSqlGenerated
  \/ \E sql \in Sql : SqlGenerated(sql)
  \/ InLoop \/ CorrectionExhausted \/ QuerySucceeded \/ ReportRows
  \/ AnnounceRefinement
  \/ \E sql \in Sql \union {NoSql} : Refine(sql)
  \/ RefinementAccepted
  \/ \E rows \in Rows : RefinementExecuted(rows)
  \/ RefinementAbandoned
  \/ DeliverAnswer \/ DeliverUnwritable

Next == Work \/ Disconnect

(* The event loop resumes a coroutine whose await has completed, and every  *)
(* awaited call completes: the LLM gateway gives up after three tries per   *)
(* provider, the drivers have timeouts.  No client is obliged to leave.     *)
Spec == Init /\ [][Next]_vars /\ WF_vars(Work)

----------------------------------------------------------------------------
(* Properties.                                                              *)

(* Loop and request have their types.                                       *)
TypeOK ==
  /\ LoopTypeOK
  /\ mode \in {"blocking", "stream"}
  /\ pc \in {"start", "intent", "chat", "retrieve", "announce_plan", "plan",
             "generate", "loop", "report_rows", "announce_refinement",
             "refine", "refine_validate", "refine_execute", "answer", "closed"}
  /\ strategies \in SUBSET ValidCodes
  /\ 0 \in strategies => strategies = {0}
  /\ has_schema \in BOOLEAN
  /\ refined_sql \in Sql \union {NoSql}
  /\ final_sql \in Sql \union {NoSql}
  /\ final_data \in Rows
  /\ wire \in Seq(Event)
  /\ outcome \in Outcome

(* Which events may follow which; a terminal event is followed by nothing.  *)
Follows ==
  ({"intent_detected"} \X {"schema_retrieved", "final_answer"}) \union
  ({"schema_retrieved"} \X {"planning_steps", "sql_generated",
                            "schema_missing", "error"}) \union
  ({"planning_steps"} \X {"sql_generated", "error"}) \union
  ({"sql_generated"} \X {"sql_validated", "correction_failed"}) \union
  ({"sql_validated"} \X {"query_executed"}) \union
  ({"query_executed"} \X {"refining_result", "final_answer", "error"}) \union
  ({"refining_result"} \X {"refinement_sql_generated", "final_answer",
                           "error"}) \union
  ({"refinement_sql_generated"} \X {"refinement_completed", "final_answer",
                                    "error"}) \union
  ({"refinement_completed"} \X {"final_answer", "error"})

(* The events a client sees are a run of the protocol, and a stream the     *)
(* client did not leave ends with exactly one terminal event: nothing       *)
(* follows error, schema_missing, correction_failed or final_answer         *)
(* (online_pipeline.py:271-516, views.py:63-75).                            *)
StreamProtocol ==
  /\ wire # <<>> => wire[1].event \in {"intent_detected", "error"}
  /\ \A i \in 1..(Len(wire) - 1) :
       <<wire[i].event, wire[i+1].event>> \in Follows
  /\ mode = "stream" /\ outcome.kind \notin {"pending", "disconnected"} =>
       wire # <<>> /\ wire[Len(wire)].event \in Terminal

Said(event) == {wire[i].sql : i \in {j \in 1..Len(wire) : wire[j].event = event}}

(* The query named in final_answer is the one the client was last told is   *)
(* in force: the refinement if its completion was announced, the validated  *)
(* query if not (online_pipeline.py:437-512).                               *)
StreamTellsTheTruth ==
  mode = "stream" /\ outcome.kind = "answered" =>
    Said("final_answer") =
      IF Said("refinement_completed") # {}
      THEN Said("refinement_sql_generated") ELSE Said("sql_validated")

(* A question costs the source database at most one query per attempt and   *)
(* one refinement (online_pipeline.py:202-217, 465-487).                    *)
QueryBudget ==
  Cardinality({i \in 1..Len(calls) : calls[i].op = "execute"}) <= MaxAttempts + 1

(* A request implements AskService: the validator's yes precedes every run, *)
(* the reply pairs a query with the rows of a run of it, carries no rows    *)
(* otherwise, comes once, and comes eventually.                             *)
Service == INSTANCE AskService WITH
  accepted <- {calls[i].sql : i \in {j \in 1..Len(calls) :
                 calls[j].op = "validate" /\ calls[j].ok}},
  ran <- {<<calls[i].sql, calls[i].data>> : i \in {j \in 1..Len(calls) :
            calls[j].op = "execute" /\ calls[j].ok}},
  reply <- [kind |-> outcome.kind, sql |-> outcome.sql, rows |-> outcome.rows]

ImplementsAskService == Service!Spec

(* The awaits and yields a question still has before it, at most: three for *)
(* each attempt left to the loop, and those on the way in and on the way    *)
(* out.                                                                     *)
LoopStage(place) ==
  CASE place = "validate" -> 3 [] place = "execute" -> 2
    [] place = "correct" -> 1  [] place \in {"idle", "returned"} -> 0

Stage(place) ==
  CASE place = "start" -> 12          [] place = "intent" -> 11
    [] place = "retrieve" -> 10       [] place = "announce_plan" -> 9
    [] place \in {"plan", "generate"} -> 8
    [] place = "loop" -> 7            [] place = "report_rows" -> 6
    [] place = "announce_refinement" -> 5
    [] place = "refine" -> 4          [] place = "refine_validate" -> 3
    [] place = "refine_execute" -> 2  [] place \in {"chat", "answer"} -> 1
    [] place = "closed" -> 0

StepsLeft ==
  3 * (MaxAttempts - attempt_num) + LoopStage(loop_pc) + Stage(pc)

(* No answer, rejection, failure or departing client sends a question back: *)
(* whatever its callees say, it is over within 3 * MAX_ATTEMPTS + 12 awaits *)
(* and yields (online_pipeline.py:90-269, 271-516,                          *)
(* sql_correction_service.py:139-259).                                      *)
QuestionsAreFinite ==
  /\ StepsLeft = 3 * MaxAttempts + 12
  /\ [][StepsLeft' \in 0..(StepsLeft - 1)]_vars

(* What a comment says: without a retrieved schema the pipeline generates   *)
(* no SQL ("SCENARIO 1 - No schema was retrieved", online_pipeline.py:165;  *)
(* sql_generation_service.py:58 "skip LLM to avoid hallucination").         *)
NoSqlWithoutSchema == pc = "loop" => has_schema

(* What the documentation says: refinement yields "a richer user response"  *)
(* (docs/services/pipelines/online/README.md:51), so it does not turn a     *)
(* result with rows into an empty one.                                      *)
RefinementKeepsData ==
  outcome.kind = "answered" /\ result.data # EmptyRows =>
    outcome.rows # EmptyRows
============================================================================
