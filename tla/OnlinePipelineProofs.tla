------------------------ MODULE OnlinePipelineProofs ------------------------
(***************************************************************************)
(* What OnlinePipeline guarantees for every set of SQL texts, result sets  *)
(* and intent outputs and every number of attempts.  Each theorem rests on *)
(* an invariant that says, for each place the request can be suspended at, *)
(* what has happened so far: to the loop (LoopPhase), to the reply and the *)
(* data (ReplyPhase, DataPhase), on the wire (WirePhase, TruthPhase), and  *)
(* at the source database (BudgetPhase).                                   *)
(***************************************************************************)
EXTENDS OnlinePipeline, SelfCorrectionProofs, FiniteSetTheorems

BeforeLoop == {"start", "intent", "chat", "retrieve", "announce_plan", "plan",
               "generate"}
AfterLoop == {"report_rows", "announce_refinement", "refine",
              "refine_validate", "refine_execute", "answer"}

(* Until it hands over its result, the loop's own invariant holds.          *)
LoopPhase ==
  /\ pc \in BeforeLoop => loop_pc = "idle"
  /\ pc = "loop" => loop_pc # "idle"
  /\ pc \in BeforeLoop \union {"loop"} => LoopInv

TypeInv == TypeOK /\ LoopPhase

----------------------------------------------------------------------------
(* Types.                                                                   *)

(* What only reads the loop's state keeps what is true of it.               *)
LEMMA LoopKept ==
  ASSUME UNCHANGED loopVars
  PROVE  (LoopTypeOK => LoopTypeOK') /\ (LoopInv => LoopInv')
  BY DEF loopVars, LoopInv, LoopTypeOK, Position, History, Returned, LastCall,
     ExecutesOnlyWhatItJustValidated, CorrectsWhatJustFailed

(* A call made outside the loop keeps the loop's state typed.               *)
LEMMA CallKeepsType ==
  ASSUME LoopTypeOK, NEW c \in Call, calls' = Append(calls, c),
         UNCHANGED <<loop_pc, attempt_num, current_sql, attempts, result>>
  PROVE  LoopTypeOK'
  BY AppendFacts DEF LoopTypeOK

(* A yield of an event of the protocol keeps the wire typed.                *)
LEMMA YieldKeepsType ==
  ASSUME wire \in Seq(Event), NEW event \in Progress \union Terminal,
         NEW sql \in Sql \union {NoSql}, Yield(event, sql)
  PROVE  wire' \in Seq(Event)
  BY AppendFacts DEF Yield, Event

(* A reply keeps outcome and wire typed.                                    *)
LEMMA ReplyKeepsType ==
  ASSUME wire \in Seq(Event), NEW event \in Terminal,
         NEW kind \in {"answered", "conversational", "schema_missing",
                       "no_sql", "correction_failed", "error"},
         NEW sql \in Sql \union {NoSql}, NEW rows \in Rows,
         NEW answer \in {"none", "no_data", "llm", "apology", "canned"},
         Reply(kind, sql, rows, answer, event)
  PROVE  /\ wire' \in Seq(Event) /\ outcome' \in Outcome
         /\ pc' = "closed" /\ outcome'.kind = kind
  <1>1. Yield(event, NoSql) \/ Yield(event, sql)
    BY DEF Reply
  <1>2. wire' \in Seq(Event)
    BY <1>1, YieldKeepsType DEF Reply
  <1> QED
    BY <1>2 DEF Reply, Outcome

(* The codes the pipeline acts on are valid, and 0 stands alone.            *)
LEMMA DetectedAreValid ==
  ASSUME NEW codes \in DetectedStrategies
  PROVE  codes \in SUBSET ValidCodes /\ (0 \in codes => codes = {0})
  BY DEF DetectedStrategies, Normalise, RequiresQuery, ValidCodes

LEMMA TypeInitInv == Init => TypeInv
  <1> SUFFICES ASSUME Init PROVE TypeInv
    OBVIOUS
  <1>1. LoopInv
    BY LoopInitInv DEF Init
  <1>2. outcome \in Outcome
    BY RowsAssumption DEF Init, Pending, Outcome
  <1>3. TypeOK
    <2>1. wire \in Seq(Event) /\ strategies \in SUBSET ValidCodes
      BY DEF Init
    <2> QED
      BY <1>1, <1>2, <2>1, RowsAssumption DEF Init, TypeOK, LoopInv
  <1>4. LoopPhase
    BY <1>1 DEF Init, LoopPhase, LoopInit, BeforeLoop
  <1> QED
    BY <1>3, <1>4 DEF TypeInv

(* Every step keeps the types and the loop's phase.                         *)
LEMMA TypeStepInv == TypeInv /\ [Next]_vars => TypeInv'
  <1> SUFFICES ASSUME TypeInv, [Next]_vars PROVE TypeInv'
    OBVIOUS
  <1> USE SqlAssumption, RowsAssumption, PipelineAssumption
  <1>0. TypeOK /\ LoopPhase /\ LoopTypeOK /\ wire \in Seq(Event)
    BY DEF TypeInv, TypeOK
  <1> USE DEF BeforeLoop, Progress, Terminal
  <1>1. CASE PipelineReady
    BY <1>0, <1>1, LoopKept
    DEF PipelineReady, NoLoopStep, TypeInv, TypeOK, LoopPhase, loopVars
  <1>2. CASE PipelineUnavailable
    <2>1. wire' \in Seq(Event) /\ outcome' \in Outcome /\ pc' = "closed"
      BY <1>0, <1>2, ReplyKeepsType DEF PipelineUnavailable
    <2> QED
      BY <1>0, <1>2, <2>1, LoopKept
      DEF PipelineUnavailable, NoLoopStep, TypeInv, TypeOK, LoopPhase, loopVars
  <1>3. CASE DetectIntent
    <2>1. wire' \in Seq(Event)
      BY <1>0, <1>3, YieldKeepsType DEF DetectIntent
    <2>2. strategies' \in SUBSET ValidCodes
          /\ (0 \in strategies' => strategies' = {0})
      BY <1>3, DetectedAreValid DEF DetectIntent
    <2> QED
      BY <1>0, <1>3, <2>1, <2>2, LoopKept
      DEF DetectIntent, NoLoopStep, TypeInv, TypeOK, LoopPhase, loopVars
  <1>4. CASE ChatAnswer
    <2>1. wire' \in Seq(Event) /\ outcome' \in Outcome /\ pc' = "closed"
      BY <1>0, <1>4, ReplyKeepsType DEF ChatAnswer
    <2> QED
      BY <1>0, <1>4, <2>1, LoopKept
      DEF ChatAnswer, NoLoopStep, TypeInv, TypeOK, LoopPhase, loopVars
  <1>5. CASE Retrieve
    <2>1. wire' \in Seq(Event)
      BY <1>0, <1>5, YieldKeepsType DEF Retrieve
    <2> QED
      BY <1>0, <1>5, <2>1, LoopKept
      DEF Retrieve, NoLoopStep, TypeInv, TypeOK, LoopPhase, loopVars
  <1>6. CASE AnnouncePlan
    <2>1. wire' \in Seq(Event)
      BY <1>0, <1>6, YieldKeepsType DEF AnnouncePlan
    <2> QED
      BY <1>0, <1>6, <2>1, LoopKept
      DEF AnnouncePlan, NoLoopStep, TypeInv, TypeOK, LoopPhase, loopVars
  <1>7. CASE SchemaMissing
    <2>1. wire' \in Seq(Event) /\ outcome' \in Outcome /\ pc' = "closed"
      BY <1>0, <1>7, ReplyKeepsType DEF SchemaMissing
    <2> QED
      BY <1>0, <1>7, <2>1, LoopKept
      DEF SchemaMissing, NoLoopStep, TypeInv, TypeOK, LoopPhase, loopVars
  <1>8. CASE NoSqlGenerated
    <2>1. wire' \in Seq(Event) /\ outcome' \in Outcome /\ pc' = "closed"
      BY <1>0, <1>8, ReplyKeepsType DEF NoSqlGenerated
    <2> QED
      BY <1>0, <1>8, <2>1, LoopKept
      DEF NoSqlGenerated, NoLoopStep, TypeInv, TypeOK, LoopPhase, loopVars
  <1>9. ASSUME NEW sql \in Sql, SqlGenerated(sql) PROVE TypeInv'
    <2>1. wire' \in Seq(Event)
      BY <1>0, <1>9, YieldKeepsType DEF SqlGenerated
    <2>2. LoopInv'
      BY <1>0, <1>9, LoopStepInv
      DEF SqlGenerated, MayGenerate, LoopPhase, LoopNext
    <2>3. loop_pc' # "idle" /\ LoopTypeOK'
      BY <1>9, <2>2 DEF SqlGenerated, Start, LoopInv
    <2> QED
      BY <1>0, <1>9, <2>1, <2>2, <2>3
      DEF SqlGenerated, TypeInv, TypeOK, LoopPhase
  <1>10. CASE InLoop
    <2>1. LoopInv'
      BY <1>0, <1>10, LoopStepInv DEF InLoop, LoopPhase, LoopNext
    <2>2. loop_pc' # "idle" /\ LoopTypeOK'
      BY <1>0, <1>10, <2>1
      DEF InLoop, LoopPhase, LoopInv, LoopStep, ValidationAccepts,
          ValidationRejects, ExecutionFails, ExecutionSucceeds,
          CorrectionSucceeds, CorrectionFails, AttemptFailed, ReturnError
    <2> QED
      BY <1>0, <1>10, <2>1, <2>2
      DEF InLoop, TypeInv, TypeOK, LoopPhase, requestVars
  <1>11. CASE CorrectionExhausted
    <2>1. wire' \in Seq(Event) /\ outcome' \in Outcome /\ pc' = "closed"
      BY <1>0, <1>11, ReplyKeepsType DEF CorrectionExhausted, LoopTypeOK, Result
    <2> QED
      BY <1>0, <1>11, <2>1, LoopKept
      DEF CorrectionExhausted, NoLoopStep, TypeInv, TypeOK, LoopPhase, loopVars
  <1>12. CASE QuerySucceeded
    <2>1. result.sql \in Sql \union {NoSql} /\ result.data \in Rows
      BY <1>0 DEF LoopTypeOK, Result
    <2>2. wire' \in Seq(Event)
      BY <1>0, <1>12, <2>1, YieldKeepsType DEF QuerySucceeded
    <2> QED
      BY <1>0, <1>12, <2>1, <2>2, LoopKept
      DEF QuerySucceeded, NoLoopStep, TypeInv, TypeOK, LoopPhase, loopVars
  <1>13. CASE ReportRows
    <2>1. wire' \in Seq(Event)
      BY <1>0, <1>13, YieldKeepsType DEF ReportRows
    <2> QED
      BY <1>0, <1>13, <2>1, LoopKept
      DEF ReportRows, NoLoopStep, TypeInv, TypeOK, LoopPhase, loopVars
  <1>14. CASE AnnounceRefinement
    <2>1. wire' \in Seq(Event)
      BY <1>0, <1>14, YieldKeepsType DEF AnnounceRefinement
    <2> QED
      BY <1>0, <1>14, <2>1, LoopKept
      DEF AnnounceRefinement, NoLoopStep, TypeInv, TypeOK, LoopPhase, loopVars
  <1>15. ASSUME NEW sql \in Sql \union {NoSql}, Refine(sql) PROVE TypeInv'
    <2>1. wire' \in Seq(Event)
      BY <1>0, <1>15, YieldKeepsType DEF Refine
    <2> QED
      BY <1>0, <1>15, <2>1, LoopKept
      DEF Refine, NoLoopStep, TypeInv, TypeOK, LoopPhase, loopVars
  <1>16. CASE RefinementAccepted
    <2>1. LoopTypeOK'
      BY <1>0, <1>16, CallKeepsType
      DEF RefinementAccepted, RefinementCall, TypeOK, TypeInv, Call
    <2> QED
      BY <1>0, <1>16, <2>1 DEF RefinementAccepted, TypeInv, TypeOK, LoopPhase
  <1>17. ASSUME NEW rows \in Rows, RefinementExecuted(rows) PROVE TypeInv'
    <2>1. wire' \in Seq(Event)
      BY <1>0, <1>17, YieldKeepsType DEF RefinementExecuted
    <2>2. LoopTypeOK'
      BY <1>0, <1>17, CallKeepsType
      DEF RefinementExecuted, RefinementCall, TypeOK, TypeInv, Call
    <2> QED
      BY <1>0, <1>17, <2>1, <2>2
      DEF RefinementExecuted, TakeRefinement, TypeInv, TypeOK, LoopPhase
  <1>18. CASE RefinementAbandoned
    <2>1. LoopTypeOK'
      <3>1. CASE pc = "refine"
        BY <1>0, <1>18, <3>1, LoopKept DEF RefinementAbandoned, loopVars
      <3>2. CASE pc # "refine"
        BY <1>0, <1>18, <3>2, CallKeepsType
        DEF RefinementAbandoned, RefinementCall, TypeOK, TypeInv, Call
      <3> QED
        BY <3>1, <3>2
    <2> QED
      BY <1>0, <1>18, <2>1 DEF RefinementAbandoned, TypeInv, TypeOK, LoopPhase
  <1>19. CASE DeliverAnswer
    <2>1. wire' \in Seq(Event) /\ outcome' \in Outcome /\ pc' = "closed"
      BY <1>0, <1>19, ReplyKeepsType DEF DeliverAnswer, Answers, TypeInv, TypeOK
    <2> QED
      BY <1>0, <1>19, <2>1, LoopKept
      DEF DeliverAnswer, NoLoopStep, TypeInv, TypeOK, LoopPhase, loopVars
  <1>20. CASE DeliverUnwritable
    <2>1. wire' \in Seq(Event) /\ outcome' \in Outcome /\ pc' = "closed"
      BY <1>0, <1>20, ReplyKeepsType DEF DeliverUnwritable
    <2> QED
      BY <1>0, <1>20, <2>1, LoopKept
      DEF DeliverUnwritable, NoLoopStep, TypeInv, TypeOK, LoopPhase, loopVars
  <1>21. CASE Disconnect
    <2>1. outcome' \in Outcome
      BY <1>21 DEF Disconnect, Pending, Outcome
    <2> QED
      BY <1>0, <1>21, <2>1, LoopKept
      DEF Disconnect, NoLoopStep, TypeInv, TypeOK, LoopPhase, loopVars
  <1>22. CASE UNCHANGED vars
    BY <1>0, <1>22, LoopKept
    DEF vars, requestVars, TypeInv, TypeOK, LoopPhase, loopVars
  <1> QED
    BY <1>1, <1>2, <1>3, <1>4, <1>5, <1>6, <1>7, <1>8, <1>9, <1>10, <1>11,
       <1>12, <1>13, <1>14, <1>15, <1>16, <1>17, <1>18, <1>19, <1>20, <1>21,
       <1>22 DEF Next, Work

(* A request keeps its types: among others, no attempt exceeds MAX_ATTEMPTS *)
(* and every event and reply is one a client knows.                         *)
THEOREM TypeCorrect == Spec => []TypeOK
  <1>1. TypeInv => TypeOK
    BY DEF TypeInv
  <1> QED
    BY <1>1, TypeInitInv, TypeStepInv, PTL DEF Spec

----------------------------------------------------------------------------
(* What the loop promises holds of the whole question.                      *)

(* A refinement about to be run is what the validator has just accepted.    *)
LogInv ==
  /\ ExecutesOnlyWhatItJustValidated
  /\ CorrectsWhatJustFailed
  /\ pc = "refine_execute" =>
       /\ calls # <<>>
       /\ LastCall.op = "validate" /\ LastCall.ok
       /\ LastCall.sql = refined_sql /\ refined_sql \in ReadOnly

LEMMA LogInit == Init => LogInv
  <1> SUFFICES ASSUME Init PROVE LogInv
    OBVIOUS
  <1>1. LoopInv
    BY LoopInitInv DEF Init
  <1> QED
    BY <1>1 DEF Init, LoopInv, LogInv

(* A call of the refinement: it is no correction, and it runs only what has *)
(* just been accepted.                                                      *)
LEMMA RefinementLogged ==
  ASSUME TypeInv, LogInv,
         NEW op \in {"validate", "execute"}, NEW ok \in BOOLEAN, NEW data \in Rows,
         RefinementCall(op, ok, data), op = "execute" => pc = "refine_execute"
  PROVE  /\ ExecutesOnlyWhatItJustValidated' /\ CorrectsWhatJustFailed'
         /\ calls' # <<>>
         /\ LastCall' = [op |-> op, sql |-> refined_sql, ok |-> ok, data |-> data]
  <1> DEFINE c == [op |-> op, sql |-> refined_sql, ok |-> ok, data |-> data]
  <1>1. calls \in Seq(Call) /\ c \in Call /\ calls' = Append(calls, c)
    BY DEF TypeInv, TypeOK, LoopTypeOK, Call, RefinementCall
  <1>2. c.op = op /\ c.sql = refined_sql
    OBVIOUS
  <1>3. ExecutesOnlyWhatItJustValidated' /\ CorrectsWhatJustFailed'
    <2> HIDE DEF c
    <2> QED
      BY <1>1, <1>2, CallLogStep DEF LogInv
  <1>4. calls' # <<>> /\ calls'[Len(calls')] = c
    <2> HIDE DEF c
    <2>1. /\ Len(calls') = Len(calls) + 1
          /\ calls'[Len(calls) + 1] = c /\ calls' # <<>>
      BY <1>1, AppendFacts
    <2> QED
      BY <2>1
  <1> QED
    BY <1>3, <1>4 DEF LastCall

LEMMA LogStep == TypeInv /\ LogInv /\ [Next]_vars => LogInv'
  <1>0. SUFFICES ASSUME TypeInv, LogInv, [Next]_vars PROVE LogInv'
    OBVIOUS
  <1>1. CASE InLoop
    <2>1. LoopInv' /\ pc' = "loop"
      BY <1>0, <1>1, TypeStepInv DEF InLoop, requestVars, TypeInv, LoopPhase
    <2> QED
      BY <2>1 DEF LogInv, LoopInv
  <1>2. CASE RefinementAccepted
    <2>1. /\ RefinementCall("validate", TRUE, EmptyRows)
          /\ refined_sql \in ReadOnly /\ refined_sql' = refined_sql
      BY <1>2 DEF RefinementAccepted
    <2>2. /\ ExecutesOnlyWhatItJustValidated' /\ CorrectsWhatJustFailed'
          /\ calls' # <<>>
          /\ LastCall' = [op |-> "validate", sql |-> refined_sql, ok |-> TRUE,
                         data |-> EmptyRows]
      BY <1>0, <2>1, RefinementLogged, RowsAssumption
    <2> QED
      BY <2>1, <2>2 DEF LogInv
  <1>3. ASSUME NEW rows \in Rows, RefinementExecuted(rows) PROVE LogInv'
    BY <1>0, <1>3, RefinementLogged DEF RefinementExecuted, LogInv
  <1>4. CASE RefinementAbandoned
    <2>1. CASE pc = "refine" /\ UNCHANGED calls
      BY <1>0, <1>4, <2>1
      DEF RefinementAbandoned, LogInv, ExecutesOnlyWhatItJustValidated,
          CorrectsWhatJustFailed
    <2>2. CASE pc = "refine_validate" /\ RefinementCall("validate", FALSE, EmptyRows)
      BY <1>0, <1>4, <2>2, RefinementLogged, RowsAssumption
      DEF RefinementAbandoned, LogInv
    <2>3. CASE pc = "refine_execute" /\ RefinementCall("execute", FALSE, EmptyRows)
      BY <1>0, <1>4, <2>3, RefinementLogged, RowsAssumption
      DEF RefinementAbandoned, LogInv
    <2> QED
      BY <1>4, <2>1, <2>2, <2>3 DEF RefinementAbandoned
  <1> DEFINE Quiet == UNCHANGED calls /\ pc' # "refine_execute"
  <1>5. Quiet => LogInv'
    BY <1>0 DEF LogInv, ExecutesOnlyWhatItJustValidated, CorrectsWhatJustFailed
  <1>6. CASE \/ PipelineReady \/ PipelineUnavailable \/ DetectIntent \/ ChatAnswer
             \/ Retrieve \/ AnnouncePlan \/ SchemaMissing \/ NoSqlGenerated
             \/ \E sql \in Sql : SqlGenerated(sql)
    BY <1>5, <1>6
    DEF PipelineReady, PipelineUnavailable, DetectIntent, ChatAnswer, Retrieve,
        AnnouncePlan, SchemaMissing, NoSqlGenerated, SqlGenerated, Start, Reply,
        NoLoopStep, loopVars
  <1>7. CASE \/ CorrectionExhausted \/ QuerySucceeded \/ ReportRows
             \/ AnnounceRefinement \/ \E sql \in Sql \union {NoSql} : Refine(sql)
    BY <1>5, <1>7
    DEF CorrectionExhausted, QuerySucceeded, ReportRows, AnnounceRefinement, Refine,
        Reply, NoLoopStep, loopVars
  <1>8. CASE DeliverAnswer \/ DeliverUnwritable \/ Disconnect
    BY <1>5, <1>8
    DEF DeliverAnswer, DeliverUnwritable, Disconnect, Reply, NoLoopStep, loopVars
  <1>9. CASE UNCHANGED vars
    BY <1>0, <1>9
    DEF vars, requestVars, loopVars, LogInv, ExecutesOnlyWhatItJustValidated,
        CorrectsWhatJustFailed, LastCall
  <1> QED
    BY <1>0, <1>1, <1>2, <1>3, <1>4, <1>6, <1>7, <1>8, <1>9 DEF Next, Work

(* Throughout a question, in the loop and in the refinement after it, only  *)
(* a text the validator has accepted in the call before reaches the source  *)
(* database.                                                                *)
THEOREM QuestionsRunOnlyValidated == Spec => []ExecutesOnlyWhatItJustValidated
  <1>1. LogInv => ExecutesOnlyWhatItJustValidated
    BY DEF LogInv
  <1> QED
    BY <1>1, LogInit, LogStep, TypeInitInv, TypeStepInv, PTL DEF Spec

(* Throughout a question the LLM is asked to correct exactly the text that  *)
(* has just failed.                                                         *)
THEOREM QuestionsCorrectFailures == Spec => []CorrectsWhatJustFailed
  <1>1. LogInv => CorrectsWhatJustFailed
    BY DEF LogInv
  <1> QED
    BY <1>1, LogInit, LogStep, TypeInitInv, TypeStepInv, PTL DEF Spec

(* What a question gets from the loop agrees with the attempt history and   *)
(* with the last query the loop ran.                                        *)
THEOREM QuestionsGetTheHistorysResult == Spec => ResultMatchesHistory
  <1>1. TypeInv /\ TypeInv' /\ [Next]_vars
          => [loop_pc # "returned" /\ loop_pc' = "returned" => Agrees']_loopVars
    <2> SUFFICES ASSUME TypeInv, TypeInv', [Next]_vars,
                        loop_pc # "returned", loop_pc' = "returned"
                 PROVE  Agrees'
      OBVIOUS
    <2>1. InLoop
      BY DEF Next, Work, PipelineReady, PipelineUnavailable, DetectIntent, ChatAnswer,
             Retrieve, AnnouncePlan, SchemaMissing, NoSqlGenerated, SqlGenerated,
             Start, CorrectionExhausted, QuerySucceeded, ReportRows,
             AnnounceRefinement, Refine, RefinementAccepted, RefinementExecuted,
             RefinementAbandoned, DeliverAnswer, DeliverUnwritable, Disconnect,
             NoLoopStep, loopVars, vars
    <2>2. LoopInv'
      BY <2>1 DEF InLoop, requestVars, TypeInv, LoopPhase
    <2>3. (LoopInv /\ loop_pc = "returned" => Agrees)'
      BY ReturnedAgrees, PTL
    <2> QED
      BY <2>2, <2>3
  <1> QED
    BY <1>1, TypeInitInv, TypeStepInv, PTL DEF Spec, ResultMatchesHistory

----------------------------------------------------------------------------
(* Every step of a request is a step of AskService, or none.                *)

AcceptedIn(log) ==
  {log[i].sql : i \in {j \in 1..Len(log) :
                         log[j].op = "validate" /\ log[j].ok}}
RanIn(log) ==
  {<<log[i].sql, log[i].data>> : i \in {j \in 1..Len(log) :
                                          log[j].op = "execute" /\ log[j].ok}}

(* The reply is given when, and only when, the request closes.              *)
ReplyPhase ==
  /\ pc # "closed" => outcome = Pending
  /\ pc = "closed" => outcome.kind # "pending"

(* The data held for the answer are the rows of a run of the query they are *)
(* held with; a refinement about to be run has been accepted.               *)
DataPhase ==
  /\ pc \in AfterLoop => <<final_sql, final_data>> \in RanIn(calls)
  /\ pc = "refine_execute" => refined_sql \in AcceptedIn(calls) \intersect ReadOnly

ServiceInv == TypeInv /\ ReplyPhase /\ DataPhase

(* What a call adds to what has been accepted and run.                      *)
LEMMA CallAdds ==
  ASSUME calls \in Seq(Call), NEW c \in Call, calls' = Append(calls, c)
  PROVE  /\ AcceptedIn(calls') = AcceptedIn(calls) \union
              (IF c.op = "validate" /\ c.ok THEN {c.sql} ELSE {})
         /\ RanIn(calls') = RanIn(calls) \union
              (IF c.op = "execute" /\ c.ok THEN {<<c.sql, c.data>>} ELSE {})
  <1>1. /\ Len(calls') = Len(calls) + 1
        /\ \A i \in 1..Len(calls) : calls'[i] = calls[i]
        /\ calls'[Len(calls) + 1] = c
        /\ Len(calls) \in Nat
    BY AppendFacts
  <1>2. 1..Len(calls') = 1..Len(calls) \union {Len(calls) + 1}
    BY <1>1
  <1>3. AcceptedIn(calls') = AcceptedIn(calls) \union
          (IF c.op = "validate" /\ c.ok THEN {c.sql} ELSE {})
    BY <1>1, <1>2 DEF AcceptedIn
  <1>4. RanIn(calls') = RanIn(calls) \union
          (IF c.op = "execute" /\ c.ok THEN {<<c.sql, c.data>>} ELSE {})
    BY <1>1, <1>2 DEF RanIn
  <1> QED
    BY <1>3, <1>4

(* A step that calls nobody and does not reply is none of the service's.    *)
LEMMA ServiceStutters ==
  ASSUME UNCHANGED <<calls, outcome>>
  PROVE  UNCHANGED Service!vars
  BY DEF Service!vars

(* A call that fails, or that asks for a correction, is none either.        *)
LEMMA ServiceIgnores ==
  ASSUME calls \in Seq(Call), NEW c \in Call, calls' = Append(calls, c),
         c.op = "correct" \/ ~c.ok, UNCHANGED outcome
  PROVE  UNCHANGED Service!vars
  <1>1. AcceptedIn(calls') = AcceptedIn(calls) /\ RanIn(calls') = RanIn(calls)
    BY CallAdds
  <1> QED
    BY <1>1 DEF Service!vars, AcceptedIn, RanIn

(* The validator's yes to a read-only text is Accept.                       *)
LEMMA ServiceAccepts ==
  ASSUME calls \in Seq(Call), NEW c \in Call, calls' = Append(calls, c),
         c.op = "validate", c.ok, c.sql \in ReadOnly,
         outcome = Pending, UNCHANGED outcome
  PROVE  Service!Next
  <1>1. /\ AcceptedIn(calls') = AcceptedIn(calls) \union {c.sql}
        /\ RanIn(calls') = RanIn(calls)
    BY CallAdds
  <1>2. Service!Accept(c.sql)
    BY <1>1 DEF Service!Accept, Service!Pending, AcceptedIn, RanIn, Pending
  <1> QED
    BY <1>2, SqlAssumption DEF Service!Next

(* A run of an accepted text is Run.                                        *)
LEMMA ServiceRuns ==
  ASSUME calls \in Seq(Call), NEW c \in Call, calls' = Append(calls, c),
         c.op = "execute", c.ok, c.sql \in Sql, c.sql \in AcceptedIn(calls),
         outcome = Pending, UNCHANGED outcome
  PROVE  Service!Next
  <1>1. /\ AcceptedIn(calls') = AcceptedIn(calls)
        /\ RanIn(calls') = RanIn(calls) \union {<<c.sql, c.data>>}
    BY CallAdds
  <1>2. Service!Run(c.sql, c.data)
    BY <1>1 DEF Service!Run, Service!Pending, AcceptedIn, RanIn, Pending
  <1> QED
    BY <1>2 DEF Service!Next, Call

(* A reply without rows is Refuse.                                          *)
LEMMA ServiceRefuses ==
  ASSUME outcome = Pending, UNCHANGED calls,
         outcome'.kind \in Service!Refusals,
         outcome'.sql \in Sql \union {NoSql}, outcome'.rows = EmptyRows
  PROVE  Service!Next
  <1>1. Service!Refuse(outcome'.kind, outcome'.sql)
    BY DEF Service!Refuse, Service!Pending, Pending
  <1> QED
    BY <1>1 DEF Service!Next, Service!Conclude

(* The answer with the rows held for it is Answer.                          *)
LEMMA ServiceAnswers ==
  ASSUME outcome = Pending, UNCHANGED calls,
         outcome'.kind = "answered",
         <<outcome'.sql, outcome'.rows>> \in RanIn(calls)
  PROVE  Service!Next
  <1> DEFINE run == <<outcome'.sql, outcome'.rows>>
  <1>1. Service!Answer(run[1], run[2])
    BY DEF Service!Answer, Service!Pending, Pending, RanIn
  <1> QED
    BY <1>1 DEF Service!Next, Service!Conclude, RanIn

(* A step of the loop is Accept, Run, or none.                              *)
LEMMA LoopIsService ==
  ASSUME LoopInv, LoopStep, outcome = Pending, UNCHANGED outcome
  PROVE  [Service!Next]_(Service!vars)
  <1> USE SqlAssumption, RowsAssumption
  <1> DEFINE call(op, ok, data) == [op |-> op, sql |-> current_sql,
                                    ok |-> ok, data |-> data]
  <1>0. /\ calls \in Seq(Call) /\ current_sql \in Sql \union {NoSql}
        /\ LoopTypeOK /\ Position
    BY DEF LoopInv, LoopTypeOK
  <1>1. CASE ValidationAccepts
    <2> DEFINE c == call("validate", TRUE, EmptyRows)
    <2>1. c \in Call /\ calls' = Append(calls, c) /\ c.sql \in ReadOnly
      BY <1>0, <1>1 DEF ValidationAccepts, Called, Call
    <2> QED
      BY <1>0, <2>1, ServiceAccepts
  <1>2. CASE ValidationRejects \/ ExecutionFails \/ CorrectionFails
    <2>1. PICK op \in {"validate", "execute", "correct"} :
            Called(op, FALSE, EmptyRows)
      BY <1>2 DEF ValidationRejects, ExecutionFails, CorrectionFails
    <2> DEFINE c == call(op, FALSE, EmptyRows)
    <2>2. c \in Call /\ calls' = Append(calls, c) /\ ~c.ok
      BY <1>0, <2>1 DEF Called, Call
    <2> QED
      BY <1>0, <2>2, ServiceIgnores
  <1>3. ASSUME NEW rows \in Rows, ExecutionSucceeds(rows)
        PROVE  [Service!Next]_(Service!vars)
    <2> DEFINE c == call("execute", TRUE, rows)
    <2>1. /\ c \in Call /\ calls' = Append(calls, c)
          /\ c.op = "execute" /\ c.ok /\ c.sql = current_sql
      BY <1>0, <1>3 DEF ExecutionSucceeds, Called, Call
    <2>2. current_sql \in AcceptedIn(calls) /\ current_sql \in Sql
      BY <1>0, <1>3 DEF ExecutionSucceeds, Position, LastCall, AcceptedIn
    <2> QED
      BY <1>0, <2>1, <2>2, ServiceRuns
  <1>4. ASSUME NEW sql \in HasSelect, CorrectionSucceeds(sql)
        PROVE  [Service!Next]_(Service!vars)
    <2> DEFINE c == call("correct", TRUE, EmptyRows)
    <2>1. c \in Call /\ calls' = Append(calls, c) /\ c.op = "correct"
      BY <1>0, <1>4 DEF CorrectionSucceeds, Called, Call
    <2> QED
      BY <1>0, <2>1, ServiceIgnores
  <1> QED
    BY <1>1, <1>2, <1>3, <1>4 DEF LoopStep

(* The initial state of a request is one of the service.                    *)
LEMMA ServiceInit == Init => ServiceInv /\ Service!Init
  <1> SUFFICES ASSUME Init PROVE ServiceInv /\ Service!Init
    OBVIOUS
  <1>1. TypeInv
    BY TypeInitInv
  <1>2. ReplyPhase /\ DataPhase
    BY DEF Init, ReplyPhase, DataPhase, AfterLoop
  <1>3. Service!Init
    BY DEF Init, LoopInit, Service!Init, Pending, Service!Pending
  <1> QED
    BY <1>1, <1>2, <1>3 DEF ServiceInv

(* Every step of a request keeps the invariant and is a step of the service *)
(* or none.                                                                 *)
LEMMA ServiceStep ==
  ServiceInv /\ [Next]_vars => ServiceInv' /\ [Service!Next]_(Service!vars)
  <1> DEFINE Refined == /\ ReplyPhase' /\ DataPhase'
                        /\ [Service!Next]_(Service!vars)
  <1> SUFFICES ASSUME ServiceInv, [Next]_vars PROVE Refined
    BY TypeStepInv DEF ServiceInv
  <1> USE SqlAssumption, RowsAssumption, PipelineAssumption
  <1>0. /\ TypeInv /\ TypeOK /\ LoopPhase /\ LoopTypeOK
        /\ ReplyPhase /\ DataPhase /\ calls \in Seq(Call)
        /\ refined_sql \in Sql \union {NoSql}
    BY DEF ServiceInv, TypeInv, TypeOK, LoopTypeOK
  <1> USE DEF AfterLoop, BeforeLoop
  <1>1. CASE PipelineReady
    BY <1>0, <1>1, ServiceStutters
    DEF PipelineReady, NoLoopStep, loopVars, ReplyPhase, DataPhase
  <1>2. CASE PipelineUnavailable
    <2>1. /\ outcome = Pending /\ UNCHANGED calls /\ pc' = "closed"
          /\ outcome'.kind \in Service!Refusals
          /\ outcome'.sql \in Sql \union {NoSql} /\ outcome'.rows = EmptyRows
      BY <1>0, <1>2
      DEF PipelineUnavailable, Reply, NoLoopStep, loopVars, ReplyPhase,
          Service!Refusals
    <2> QED
      BY <2>1, ServiceRefuses DEF ReplyPhase, DataPhase, Service!Refusals
  <1>3. CASE DetectIntent
    BY <1>0, <1>3, ServiceStutters
    DEF DetectIntent, NoLoopStep, loopVars, ReplyPhase, DataPhase
  <1>4. CASE ChatAnswer
    <2>1. /\ outcome = Pending /\ UNCHANGED calls /\ pc' = "closed"
          /\ outcome'.kind \in Service!Refusals
          /\ outcome'.sql \in Sql \union {NoSql} /\ outcome'.rows = EmptyRows
      BY <1>0, <1>4
      DEF ChatAnswer, Reply, NoLoopStep, loopVars, ReplyPhase,
          Service!Refusals
    <2> QED
      BY <2>1, ServiceRefuses DEF ReplyPhase, DataPhase, Service!Refusals
  <1>5. CASE Retrieve
    BY <1>0, <1>5, ServiceStutters
    DEF Retrieve, NoLoopStep, loopVars, ReplyPhase, DataPhase
  <1>6. CASE AnnouncePlan
    BY <1>0, <1>6, ServiceStutters
    DEF AnnouncePlan, NoLoopStep, loopVars, ReplyPhase, DataPhase
  <1>7. CASE SchemaMissing
    <2>1. /\ outcome = Pending /\ UNCHANGED calls /\ pc' = "closed"
          /\ outcome'.kind \in Service!Refusals
          /\ outcome'.sql \in Sql \union {NoSql} /\ outcome'.rows = EmptyRows
      BY <1>0, <1>7
      DEF SchemaMissing, Reply, NoLoopStep, loopVars, ReplyPhase,
          Service!Refusals
    <2> QED
      BY <2>1, ServiceRefuses DEF ReplyPhase, DataPhase, Service!Refusals
  <1>8. CASE NoSqlGenerated
    <2>1. /\ outcome = Pending /\ UNCHANGED calls /\ pc' = "closed"
          /\ outcome'.kind \in Service!Refusals
          /\ outcome'.sql \in Sql \union {NoSql} /\ outcome'.rows = EmptyRows
      BY <1>0, <1>8
      DEF NoSqlGenerated, Reply, NoLoopStep, loopVars, ReplyPhase,
          Service!Refusals, MayGenerate
    <2> QED
      BY <2>1, ServiceRefuses DEF ReplyPhase, DataPhase, Service!Refusals
  <1>9. ASSUME NEW sql \in Sql, SqlGenerated(sql) PROVE Refined
    BY <1>0, <1>9, ServiceStutters
    DEF SqlGenerated, MayGenerate, Start, ReplyPhase, DataPhase
  <1>10. CASE InLoop
    <2>1. /\ LoopInv /\ outcome = Pending /\ LoopStep
          /\ pc = "loop" /\ pc' = "loop" /\ UNCHANGED outcome
      BY <1>0, <1>10 DEF InLoop, requestVars, LoopPhase, ReplyPhase
    <2> QED
      BY <2>1, LoopIsService DEF ReplyPhase, DataPhase
  <1>11. CASE CorrectionExhausted
    <2>1. /\ outcome = Pending /\ UNCHANGED calls /\ pc' = "closed"
          /\ outcome'.kind \in Service!Refusals
          /\ outcome'.sql \in Sql \union {NoSql} /\ outcome'.rows = EmptyRows
      BY <1>0, <1>11
      DEF CorrectionExhausted, Reply, NoLoopStep, loopVars, ReplyPhase,
          Service!Refusals, LoopTypeOK, Result
    <2> QED
      BY <2>1, ServiceRefuses DEF ReplyPhase, DataPhase, Service!Refusals
  <1>12. CASE QuerySucceeded
    <2>1. /\ LoopInv /\ UNCHANGED <<calls, outcome>> /\ outcome = Pending
          /\ pc' # "closed" /\ pc' # "refine_execute"
          /\ final_sql' = result.sql /\ final_data' = result.data
          /\ loop_pc = "returned" /\ result.status = "success"
      BY <1>0, <1>12
      DEF QuerySucceeded, NoLoopStep, loopVars, LoopPhase, ReplyPhase
    <2>2. <<final_sql', final_data'>> \in RanIn(calls')
      BY <1>0, <2>1 DEF LoopInv, Returned, LastCall, RanIn
    <2> QED
      BY <2>1, <2>2, ServiceStutters DEF ReplyPhase, DataPhase
  <1>13. CASE ReportRows
    BY <1>0, <1>13, ServiceStutters
    DEF ReportRows, NoLoopStep, loopVars, ReplyPhase, DataPhase
  <1>14. CASE AnnounceRefinement
    BY <1>0, <1>14, ServiceStutters
    DEF AnnounceRefinement, NoLoopStep, loopVars, ReplyPhase, DataPhase
  <1>15. ASSUME NEW sql \in Sql \union {NoSql}, Refine(sql) PROVE Refined
    BY <1>0, <1>15, ServiceStutters
    DEF Refine, NoLoopStep, loopVars, ReplyPhase, DataPhase
  <1>16. CASE RefinementAccepted
    <2> DEFINE c == [op |-> "validate", sql |-> refined_sql, ok |-> TRUE,
                     data |-> EmptyRows]
    <2>1. /\ c \in Call /\ calls' = Append(calls, c) /\ c.sql \in ReadOnly
          /\ pc' = "refine_execute" /\ outcome = Pending
          /\ UNCHANGED <<refined_sql, final_sql, final_data, outcome>>
          /\ <<final_sql, final_data>> \in RanIn(calls)
      BY <1>0, <1>16
      DEF RefinementAccepted, RefinementCall, Call, ReplyPhase, DataPhase
    <2>2. /\ refined_sql \in AcceptedIn(calls')
          /\ RanIn(calls') = RanIn(calls)
      BY <1>0, <2>1, CallAdds
    <2> QED
      BY <1>0, <2>1, <2>2, ServiceAccepts DEF ReplyPhase, DataPhase
  <1>17. ASSUME NEW rows \in Rows, RefinementExecuted(rows) PROVE Refined
    <2> DEFINE c == [op |-> "execute", sql |-> refined_sql, ok |-> TRUE,
                     data |-> rows]
    <2>1. /\ c \in Call /\ calls' = Append(calls, c)
          /\ pc' = "answer" /\ outcome = Pending /\ UNCHANGED outcome
          /\ final_sql' = refined_sql /\ final_data' = rows
          /\ refined_sql \in AcceptedIn(calls) \intersect ReadOnly
      BY <1>0, <1>17
      DEF RefinementExecuted, RefinementCall, TakeRefinement, Call,
          ReplyPhase, DataPhase
    <2>2. <<refined_sql, rows>> \in RanIn(calls')
      BY <1>0, <2>1, CallAdds
    <2>3. refined_sql \in Sql
      BY <2>1
    <2> QED
      BY <1>0, <2>1, <2>2, <2>3, ServiceRuns DEF ReplyPhase, DataPhase
  <1>18. CASE RefinementAbandoned
    <2>1. /\ pc' = "answer" /\ outcome = Pending
          /\ UNCHANGED <<final_sql, final_data, outcome>>
          /\ <<final_sql, final_data>> \in RanIn(calls)
      BY <1>0, <1>18 DEF RefinementAbandoned, ReplyPhase, DataPhase
    <2>2. CASE UNCHANGED calls
      BY <2>1, <2>2, ServiceStutters DEF ReplyPhase, DataPhase
    <2>3. CASE ~UNCHANGED calls
      <3>1. PICK op \in {"validate", "execute"} :
              RefinementCall(op, FALSE, EmptyRows)
        BY <1>18, <2>3 DEF RefinementAbandoned
      <3> DEFINE c == [op |-> op, sql |-> refined_sql, ok |-> FALSE,
                       data |-> EmptyRows]
      <3>2. c \in Call /\ calls' = Append(calls, c) /\ ~c.ok
        BY <1>0, <3>1 DEF RefinementCall, Call
      <3>3. RanIn(calls') = RanIn(calls)
        BY <1>0, <3>2, CallAdds
      <3> QED
        BY <1>0, <2>1, <3>2, <3>3, ServiceIgnores DEF ReplyPhase, DataPhase
    <2> QED
      BY <2>2, <2>3
  <1>19. CASE DeliverAnswer
    <2>1. /\ outcome = Pending /\ UNCHANGED calls /\ pc' = "closed"
          /\ outcome'.kind = "answered"
          /\ outcome'.sql = final_sql /\ outcome'.rows = final_data
          /\ <<final_sql, final_data>> \in RanIn(calls)
      BY <1>0, <1>19
      DEF DeliverAnswer, Reply, NoLoopStep, loopVars, ReplyPhase, DataPhase
    <2> QED
      BY <2>1, ServiceAnswers DEF ReplyPhase, DataPhase
  <1>20. CASE DeliverUnwritable
    <2>1. /\ outcome = Pending /\ UNCHANGED calls /\ pc' = "closed"
          /\ outcome'.kind \in Service!Refusals
          /\ outcome'.sql \in Sql \union {NoSql} /\ outcome'.rows = EmptyRows
      BY <1>0, <1>20
      DEF DeliverUnwritable, Reply, NoLoopStep, loopVars, ReplyPhase,
          Service!Refusals
    <2> QED
      BY <2>1, ServiceRefuses DEF ReplyPhase, DataPhase, Service!Refusals
  <1>21. CASE Disconnect
    <2>1. /\ outcome = Pending /\ UNCHANGED calls /\ pc' = "closed"
          /\ outcome'.kind \in Service!Refusals
          /\ outcome'.sql \in Sql \union {NoSql} /\ outcome'.rows = EmptyRows
      BY <1>0, <1>21
      DEF Disconnect, Reply, NoLoopStep, loopVars, ReplyPhase,
          Service!Refusals, Pending
    <2> QED
      BY <2>1, ServiceRefuses DEF ReplyPhase, DataPhase, Service!Refusals
  <1>22. CASE UNCHANGED vars
    BY <1>0, <1>22, ServiceStutters
    DEF vars, requestVars, loopVars, ReplyPhase, DataPhase
  <1> QED
    BY <1>1, <1>2, <1>3, <1>4, <1>5, <1>6, <1>7, <1>8, <1>9, <1>10, <1>11,
       <1>12, <1>13, <1>14, <1>15, <1>16, <1>17, <1>18, <1>19, <1>20, <1>21,
       <1>22 DEF Next, Work

(* Every request implements AskService, but for its liveness: the validator *)
(* accepts only read-only texts, only accepted texts are run, the one reply *)
(* pairs a query with the rows of a run of it or carries no rows, and       *)
(* nothing is accepted or run after it.                                     *)
THEOREM RequestsImplementService == Spec => Service!Safety
  <1>1. Init => ServiceInv /\ Service!Init
    BY ServiceInit
  <1>2. ServiceInv /\ [Next]_vars => ServiceInv' /\ [Service!Next]_(Service!vars)
    BY ServiceStep
  <1> QED
    BY <1>1, <1>2, PTL DEF Spec, Service!Safety

----------------------------------------------------------------------------
(* What the client of the streaming form is told.                           *)

SaidIn(log, event) ==
  {log[i].sql : i \in {j \in 1..Len(log) : log[j].event = event}}

LastIs(events) == wire # <<>> /\ wire[Len(wire)].event \in events

(* The events so far are a run of the protocol, and the place the request   *)
(* is suspended at tells the last of them.                                  *)
WirePhase ==
  /\ StreamProtocol
  /\ mode = "blocking" => wire = <<>>
  /\ mode = "stream" =>
       /\ pc \in {"start", "intent"} => wire = <<>>
       /\ pc \in {"chat", "retrieve"} => LastIs({"intent_detected"})
       /\ pc \in {"announce_plan", "generate"} => LastIs({"schema_retrieved"})
       /\ pc = "plan" => LastIs({"planning_steps"})
       /\ pc = "loop" => LastIs({"sql_generated"})
       /\ pc = "report_rows" => LastIs({"sql_validated"})
       /\ pc = "announce_refinement" => LastIs({"query_executed"})
       /\ pc = "refine" => LastIs({"refining_result"})
       /\ pc \in {"refine_validate", "refine_execute"} =>
            LastIs({"refinement_sql_generated"})
       /\ pc = "answer" =>
            LastIs({"query_executed", "refining_result",
                    "refinement_sql_generated", "refinement_completed"})

(* The query in force, as far as the client can tell.                       *)
InForce(log) ==
  IF SaidIn(log, "refinement_completed") # {}
  THEN SaidIn(log, "refinement_sql_generated") ELSE SaidIn(log, "sql_validated")

(* What the client has been told of the query agrees with the data held.    *)
TruthPhase ==
  mode = "stream" =>
    /\ pc \notin {"answer", "closed"} =>
         SaidIn(wire, "refinement_completed") = {}
    /\ pc # "closed" => SaidIn(wire, "final_answer") = {}
    /\ pc \in BeforeLoop \union {"loop"} => SaidIn(wire, "sql_validated") = {}
    /\ pc \in BeforeLoop \union {"loop", "report_rows", "announce_refinement",
                                  "refine"} =>
         SaidIn(wire, "refinement_sql_generated") = {}
    /\ pc \in AfterLoop \ {"answer"} =>
         SaidIn(wire, "sql_validated") = {final_sql}
    /\ pc \in {"refine_validate", "refine_execute"} =>
         SaidIn(wire, "refinement_sql_generated") = {refined_sql}
    /\ pc = "answer" => InForce(wire) = {final_sql}
    /\ outcome.kind = "answered" =>
         SaidIn(wire, "final_answer") = InForce(wire)

WireInv == ServiceInv /\ WirePhase /\ TruthPhase

(* What a yield adds to the wire and to what has been said.                 *)
LEMMA YieldAdds ==
  ASSUME wire \in Seq(Event), mode = "stream",
         NEW event \in Progress \union Terminal,
         NEW sql \in Sql \union {NoSql}, Yield(event, sql),
         wire = <<>> => event \in {"intent_detected", "error"},
         wire # <<>> => <<wire[Len(wire)].event, event>> \in Follows,
         StreamProtocol
  PROVE  /\ LastIs({event})'
         /\ wire'[1].event \in {"intent_detected", "error"}
         /\ \A i \in 1..(Len(wire') - 1) :
              <<wire'[i].event, wire'[i+1].event>> \in Follows
         /\ \A e : SaidIn(wire', e) =
                    SaidIn(wire, e) \union (IF e = event THEN {sql} ELSE {})
  <1> DEFINE ev == [event |-> event, sql |-> sql]
  <1>1. ev \in Event /\ wire' = Append(wire, ev)
    BY DEF Yield, Event
  <1>2. /\ Len(wire') = Len(wire) + 1 /\ Len(wire) \in Nat
        /\ \A i \in 1..Len(wire) : wire'[i] = wire[i]
        /\ wire'[Len(wire) + 1] = ev
        /\ wire' # <<>>
    BY <1>1, AppendFacts
  <1>3. 1..Len(wire') = 1..Len(wire) \union {Len(wire) + 1}
    BY <1>2
  <1>4. wire # <<>> => Len(wire) >= 1
    OBVIOUS
  <1>5. LastIs({event})'
    BY <1>2 DEF LastIs
  <1>6. wire'[1].event \in {"intent_detected", "error"}
    BY <1>2, <1>4 DEF StreamProtocol
  <1>7. ASSUME NEW i \in 1..(Len(wire') - 1)
        PROVE  <<wire'[i].event, wire'[i+1].event>> \in Follows
    <2>1. CASE i = Len(wire)
      <3>1. i \in 1..Len(wire) /\ wire # <<>>
        BY <1>2, <2>1
      <3>2. wire'[i] = wire[Len(wire)]
        BY <1>2, <2>1, <3>1
      <3>3. wire'[i+1] = ev /\ ev.event = event
        BY <1>2, <2>1
      <3>4. <<wire[Len(wire)].event, event>> \in Follows
        BY <3>1
      <3> HIDE DEF ev
      <3> QED
        BY <3>2, <3>3, <3>4
    <2>2. CASE i # Len(wire)
      <3>1. i \in 1..(Len(wire) - 1) /\ i + 1 \in 1..Len(wire)
        BY <1>2, <2>2
      <3>2. <<wire[i].event, wire[i+1].event>> \in Follows
        BY <3>1 DEF StreamProtocol
      <3>3. wire'[i] = wire[i] /\ wire'[i+1] = wire[i+1]
        BY <1>2, <1>3, <3>1
      <3> HIDE DEF ev
      <3> QED
        BY <3>2, <3>3
    <2> QED
      BY <2>1, <2>2
  <1>8. ASSUME NEW e
        PROVE  SaidIn(wire', e) =
                 SaidIn(wire, e) \union (IF e = event THEN {sql} ELSE {})
    BY <1>2, <1>3 DEF SaidIn
  <1> QED
    BY <1>5, <1>6, <1>7, <1>8

(* A yield on the way keeps to the protocol.                                *)
LEMMA ProgressOnWire ==
  ASSUME wire \in Seq(Event), mode = "stream", UNCHANGED mode, StreamProtocol,
         NEW event \in Progress, NEW sql \in Sql \union {NoSql},
         Yield(event, sql), outcome = Pending, UNCHANGED outcome,
         wire = <<>> => event = "intent_detected",
         wire # <<>> => <<wire[Len(wire)].event, event>> \in Follows
  PROVE  /\ StreamProtocol' /\ LastIs({event})'
         /\ \A e : SaidIn(wire', e) =
                    SaidIn(wire, e) \union (IF e = event THEN {sql} ELSE {})
  <1>1. /\ LastIs({event})'
        /\ wire'[1].event \in {"intent_detected", "error"}
        /\ \A i \in 1..(Len(wire') - 1) :
             <<wire'[i].event, wire'[i+1].event>> \in Follows
        /\ \A e : SaidIn(wire', e) =
                   SaidIn(wire, e) \union (IF e = event THEN {sql} ELSE {})
    BY YieldAdds
  <1>2. outcome'.kind = "pending"
    BY DEF Pending
  <1> QED
    BY <1>1, <1>2 DEF StreamProtocol

(* A reply ends the stream with its one terminal event.                     *)
LEMMA ReplyOnWire ==
  ASSUME wire \in Seq(Event), mode = "stream", UNCHANGED mode, StreamProtocol,
         NEW event \in Terminal, NEW sql \in Sql \union {NoSql},
         NEW kind, NEW rows, NEW answer,
         Reply(kind, sql, rows, answer, event),
         wire = <<>> => event = "error",
         wire # <<>> => <<wire[Len(wire)].event, event>> \in Follows
  PROVE  /\ WirePhase' /\ pc' = "closed" /\ outcome'.kind = kind
         /\ \A e : SaidIn(wire', e) =
                    SaidIn(wire, e) \union (IF e = event THEN {sql} ELSE {})
  <1>1. /\ LastIs({event})'
        /\ wire'[1].event \in {"intent_detected", "error"}
        /\ \A i \in 1..(Len(wire') - 1) :
             <<wire'[i].event, wire'[i+1].event>> \in Follows
        /\ \A e : SaidIn(wire', e) =
                   SaidIn(wire, e) \union (IF e = event THEN {sql} ELSE {})
    BY YieldAdds DEF Reply
  <1>2. StreamProtocol'
    BY <1>1 DEF StreamProtocol, LastIs
  <1> QED
    BY <1>1, <1>2 DEF WirePhase, Reply

(* A request that says nothing keeps to the protocol if it does not close,  *)
(* or closes because the client left.                                       *)
LEMMA SilentOnWire ==
  ASSUME StreamProtocol, UNCHANGED <<mode, wire>>,
         outcome'.kind \in {"pending", "disconnected", outcome.kind}
  PROVE  StreamProtocol'
  BY DEF StreamProtocol

(* Nothing is written in the blocking form.                                 *)
LEMMA BlockingWire ==
  ASSUME mode = "blocking", wire = <<>>, [Next]_vars
  PROVE  mode' = "blocking" /\ wire' = <<>>
  <1> USE DEF Reply, Yield
  <1>1. CASE Work
    BY <1>1
    DEF Work, PipelineReady, PipelineUnavailable, DetectIntent, ChatAnswer,
        Retrieve, AnnouncePlan, SchemaMissing, NoSqlGenerated, SqlGenerated,
        InLoop, requestVars, CorrectionExhausted, QuerySucceeded, ReportRows,
        AnnounceRefinement, Refine, RefinementAccepted, RefinementExecuted,
        RefinementAbandoned, DeliverAnswer, DeliverUnwritable
  <1>2. CASE Disconnect
    BY <1>2 DEF Disconnect
  <1>3. CASE UNCHANGED vars
    BY <1>3 DEF vars, requestVars
  <1> QED
    BY <1>1, <1>2, <1>3 DEF Next

LEMMA WireInit == Init => WireInv
  <1> SUFFICES ASSUME Init PROVE WireInv
    OBVIOUS
  <1>1. wire = <<>> /\ pc = "start" /\ outcome.kind = "pending"
    BY DEF Init, Pending
  <1>2. \A e : SaidIn(wire, e) = {}
    BY <1>1 DEF SaidIn
  <1>3. WirePhase
    BY <1>1 DEF WirePhase, StreamProtocol
  <1>4. TruthPhase
    BY <1>1, <1>2 DEF TruthPhase, AfterLoop, BeforeLoop
  <1> QED
    BY <1>3, <1>4, ServiceInit DEF WireInv

(* Follows, from one event to the next.                                     *)
LEMMA FollowsFrom ==
  \A next \in Progress \union Terminal :
    /\ next \in {"schema_retrieved", "final_answer"} =>
         <<"intent_detected", next>> \in Follows
    /\ next \in {"planning_steps", "sql_generated", "schema_missing", "error"} =>
         <<"schema_retrieved", next>> \in Follows
    /\ next \in {"sql_generated", "error"} =>
         <<"planning_steps", next>> \in Follows
    /\ next \in {"sql_validated", "correction_failed"} =>
         <<"sql_generated", next>> \in Follows
    /\ next \in {"query_executed"} =>
         <<"sql_validated", next>> \in Follows
    /\ next \in {"refining_result", "final_answer", "error"} =>
         <<"query_executed", next>> \in Follows
    /\ next \in {"refinement_sql_generated", "final_answer", "error"} =>
         <<"refining_result", next>> \in Follows
    /\ next \in {"refinement_completed", "final_answer", "error"} =>
         <<"refinement_sql_generated", next>> \in Follows
    /\ next \in {"final_answer", "error"} =>
         <<"refinement_completed", next>> \in Follows
  BY DEF Follows

(* Every step of the streaming form keeps what the client is told true.     *)
LEMMA StreamStep ==
  ASSUME WireInv, [Next]_vars, mode = "stream"
  PROVE  WirePhase' /\ TruthPhase'
  <1> DEFINE Told == WirePhase' /\ TruthPhase'
  <1> SUFFICES Told
    OBVIOUS
  <1> USE SqlAssumption, RowsAssumption, PipelineAssumption
  <1>0. /\ wire \in Seq(Event) /\ StreamProtocol /\ WirePhase /\ TruthPhase
        /\ ReplyPhase /\ LoopTypeOK /\ Pending.kind = "pending"
        /\ final_sql \in Sql \union {NoSql}
        /\ pc # "closed" => outcome = Pending
    BY DEF WireInv, ServiceInv, TypeInv, TypeOK, WirePhase, ReplyPhase, Pending
  <1> USE DEF AfterLoop, BeforeLoop, Progress, Terminal
  <1>1. CASE PipelineReady
    <2>1. StreamProtocol'
      BY <1>0, <1>1, SilentOnWire DEF PipelineReady, Pending
    <2> QED
      BY <1>0, <1>1, <2>1
      DEF PipelineReady, Pending, WirePhase, TruthPhase, LastIs, InForce
  <1>2. CASE PipelineUnavailable
    <2>0. /\ UNCHANGED mode /\ NoSql \in Sql \union {NoSql} /\ wire = <<>>
      BY <1>0, <1>2, FollowsFrom DEF PipelineUnavailable, WirePhase, LastIs
    <2>1. /\ WirePhase' /\ pc' = "closed" /\ outcome'.kind = "error"
      BY <1>0, <1>2, <2>0, ReplyOnWire DEF PipelineUnavailable
    <2> QED
      BY <1>2, <2>1 DEF PipelineUnavailable, TruthPhase
  <1>3. CASE DetectIntent
    <2>0. /\ Yield("intent_detected", NoSql) /\ NoSql \in Sql \union {NoSql}
          /\ outcome = Pending /\ UNCHANGED <<mode, outcome>> /\ wire = <<>>
      BY <1>0, <1>3, FollowsFrom DEF DetectIntent, WirePhase, LastIs
    <2>1. /\ StreamProtocol' /\ LastIs({"intent_detected"})'
          /\ \A e : SaidIn(wire', e) = SaidIn(wire, e) \union
                    (IF e = "intent_detected" THEN {NoSql} ELSE {})
      BY <1>0, <2>0, ProgressOnWire
    <2> QED
      BY <1>0, <1>3, <2>1
      DEF DetectIntent, WirePhase, TruthPhase, LastIs, InForce
  <1>4. CASE ChatAnswer
    <2>0. /\ UNCHANGED mode /\ NoSql \in Sql \union {NoSql} /\ wire # <<>>
          /\ <<wire[Len(wire)].event, "final_answer">> \in Follows
      BY <1>0, <1>4, FollowsFrom DEF ChatAnswer, WirePhase, LastIs
    <2>1. /\ WirePhase' /\ pc' = "closed" /\ outcome'.kind = "conversational"
      BY <1>0, <1>4, <2>0, ReplyOnWire DEF ChatAnswer
    <2> QED
      BY <1>4, <2>1 DEF ChatAnswer, TruthPhase
  <1>5. CASE Retrieve
    <2>0. /\ Yield("schema_retrieved", NoSql) /\ NoSql \in Sql \union {NoSql}
          /\ outcome = Pending /\ UNCHANGED <<mode, outcome>> /\ wire # <<>>
          /\ <<wire[Len(wire)].event, "schema_retrieved">> \in Follows
      BY <1>0, <1>5, FollowsFrom DEF Retrieve, WirePhase, LastIs
    <2>1. /\ StreamProtocol' /\ LastIs({"schema_retrieved"})'
          /\ \A e : SaidIn(wire', e) = SaidIn(wire, e) \union
                    (IF e = "schema_retrieved" THEN {NoSql} ELSE {})
      BY <1>0, <2>0, ProgressOnWire
    <2> QED
      BY <1>0, <1>5, <2>1
      DEF Retrieve, WirePhase, TruthPhase, LastIs, InForce
  <1>6. CASE AnnouncePlan
    <2>0. /\ Yield("planning_steps", NoSql) /\ NoSql \in Sql \union {NoSql}
          /\ outcome = Pending /\ UNCHANGED <<mode, outcome>> /\ wire # <<>>
          /\ <<wire[Len(wire)].event, "planning_steps">> \in Follows
      BY <1>0, <1>6, FollowsFrom DEF AnnouncePlan, WirePhase, LastIs
    <2>1. /\ StreamProtocol' /\ LastIs({"planning_steps"})'
          /\ \A e : SaidIn(wire', e) = SaidIn(wire, e) \union
                    (IF e = "planning_steps" THEN {NoSql} ELSE {})
      BY <1>0, <2>0, ProgressOnWire
    <2> QED
      BY <1>0, <1>6, <2>1
      DEF AnnouncePlan, WirePhase, TruthPhase, LastIs, InForce
  <1>7. CASE SchemaMissing
    <2>0. /\ UNCHANGED mode /\ NoSql \in Sql \union {NoSql} /\ wire # <<>>
          /\ <<wire[Len(wire)].event, "schema_missing">> \in Follows
      BY <1>0, <1>7, FollowsFrom DEF SchemaMissing, WirePhase, LastIs
    <2>1. /\ WirePhase' /\ pc' = "closed" /\ outcome'.kind = "schema_missing"
      BY <1>0, <1>7, <2>0, ReplyOnWire DEF SchemaMissing
    <2> QED
      BY <1>7, <2>1 DEF SchemaMissing, TruthPhase
  <1>8. CASE NoSqlGenerated
    <2>0. /\ UNCHANGED mode /\ NoSql \in Sql \union {NoSql} /\ wire # <<>>
          /\ <<wire[Len(wire)].event, "error">> \in Follows
      BY <1>0, <1>8, FollowsFrom DEF NoSqlGenerated, WirePhase, LastIs, MayGenerate
    <2>1. /\ WirePhase' /\ pc' = "closed" /\ outcome'.kind = "no_sql"
      BY <1>0, <1>8, <2>0, ReplyOnWire DEF NoSqlGenerated
    <2> QED
      BY <1>8, <2>1 DEF NoSqlGenerated, TruthPhase
  <1>9. ASSUME NEW sql \in Sql, SqlGenerated(sql) PROVE Told
    <2>0. /\ Yield("sql_generated", sql) /\ sql \in Sql \union {NoSql}
          /\ outcome = Pending /\ UNCHANGED <<mode, outcome>> /\ wire # <<>>
          /\ <<wire[Len(wire)].event, "sql_generated">> \in Follows
      BY <1>0, <1>9, FollowsFrom DEF SqlGenerated, WirePhase, LastIs, MayGenerate
    <2>1. /\ StreamProtocol' /\ LastIs({"sql_generated"})'
          /\ \A e : SaidIn(wire', e) = SaidIn(wire, e) \union
                    (IF e = "sql_generated" THEN {sql} ELSE {})
      BY <1>0, <2>0, ProgressOnWire
    <2> QED
      BY <1>0, <1>9, <2>1
      DEF SqlGenerated, WirePhase, TruthPhase, LastIs, InForce, MayGenerate
  <1>10. CASE InLoop
    <2>1. StreamProtocol'
      BY <1>0, <1>10, SilentOnWire DEF InLoop, requestVars, Pending
    <2> QED
      BY <1>0, <1>10, <2>1
      DEF InLoop, requestVars, Pending, WirePhase, TruthPhase, LastIs, InForce
  <1>11. CASE CorrectionExhausted
    <2>0. /\ UNCHANGED mode /\ result.sql \in Sql \union {NoSql} /\ wire # <<>>
          /\ <<wire[Len(wire)].event, "correction_failed">> \in Follows
      BY <1>0, <1>11, FollowsFrom DEF CorrectionExhausted, WirePhase, LastIs, LoopTypeOK, Result
    <2>1. /\ WirePhase' /\ pc' = "closed" /\ outcome'.kind = "correction_failed"
      BY <1>0, <1>11, <2>0, ReplyOnWire DEF CorrectionExhausted
    <2> QED
      BY <1>11, <2>1 DEF CorrectionExhausted, TruthPhase
  <1>12. CASE QuerySucceeded
    <2>0. /\ Yield("sql_validated", result.sql) /\ result.sql \in Sql \union {NoSql}
          /\ outcome = Pending /\ UNCHANGED <<mode, outcome>> /\ wire # <<>>
          /\ <<wire[Len(wire)].event, "sql_validated">> \in Follows
      BY <1>0, <1>12, FollowsFrom DEF QuerySucceeded, WirePhase, LastIs, LoopTypeOK, Result
    <2>1. /\ StreamProtocol' /\ LastIs({"sql_validated"})'
          /\ \A e : SaidIn(wire', e) = SaidIn(wire, e) \union
                    (IF e = "sql_validated" THEN {result.sql} ELSE {})
      BY <1>0, <2>0, ProgressOnWire
    <2> QED
      BY <1>0, <1>12, <2>1
      DEF QuerySucceeded, WirePhase, TruthPhase, LastIs, InForce
  <1>13. CASE ReportRows
    <2>0. /\ Yield("query_executed", NoSql) /\ NoSql \in Sql \union {NoSql}
          /\ outcome = Pending /\ UNCHANGED <<mode, outcome>> /\ wire # <<>>
          /\ <<wire[Len(wire)].event, "query_executed">> \in Follows
      BY <1>0, <1>13, FollowsFrom DEF ReportRows, WirePhase, LastIs
    <2>1. /\ StreamProtocol' /\ LastIs({"query_executed"})'
          /\ \A e : SaidIn(wire', e) = SaidIn(wire, e) \union
                    (IF e = "query_executed" THEN {NoSql} ELSE {})
      BY <1>0, <2>0, ProgressOnWire
    <2> QED
      BY <1>0, <1>13, <2>1
      DEF ReportRows, WirePhase, TruthPhase, LastIs, InForce
  <1>14. CASE AnnounceRefinement
    <2>0. /\ Yield("refining_result", NoSql) /\ NoSql \in Sql \union {NoSql}
          /\ outcome = Pending /\ UNCHANGED <<mode, outcome>> /\ wire # <<>>
          /\ <<wire[Len(wire)].event, "refining_result">> \in Follows
      BY <1>0, <1>14, FollowsFrom DEF AnnounceRefinement, WirePhase, LastIs
    <2>1. /\ StreamProtocol' /\ LastIs({"refining_result"})'
          /\ \A e : SaidIn(wire', e) = SaidIn(wire, e) \union
                    (IF e = "refining_result" THEN {NoSql} ELSE {})
      BY <1>0, <2>0, ProgressOnWire
    <2> QED
      BY <1>0, <1>14, <2>1
      DEF AnnounceRefinement, WirePhase, TruthPhase, LastIs, InForce
  <1>15. ASSUME NEW sql \in Sql \union {NoSql}, Refine(sql) PROVE Told
    <2>0. /\ Yield("refinement_sql_generated", sql) /\ sql \in Sql \union {NoSql}
          /\ outcome = Pending /\ UNCHANGED <<mode, outcome>> /\ wire # <<>>
          /\ <<wire[Len(wire)].event, "refinement_sql_generated">> \in Follows
      BY <1>0, <1>15, FollowsFrom DEF Refine, WirePhase, LastIs
    <2>1. /\ StreamProtocol' /\ LastIs({"refinement_sql_generated"})'
          /\ \A e : SaidIn(wire', e) = SaidIn(wire, e) \union
                    (IF e = "refinement_sql_generated" THEN {sql} ELSE {})
      BY <1>0, <2>0, ProgressOnWire
    <2> QED
      BY <1>0, <1>15, <2>1
      DEF Refine, WirePhase, TruthPhase, LastIs, InForce
  <1>16. CASE RefinementAccepted
    <2>1. StreamProtocol'
      BY <1>0, <1>16, SilentOnWire DEF RefinementAccepted, Pending
    <2> QED
      BY <1>0, <1>16, <2>1
      DEF RefinementAccepted, Pending, WirePhase, TruthPhase, LastIs, InForce
  <1>17. ASSUME NEW rows \in Rows, RefinementExecuted(rows) PROVE Told
    <2>0. /\ Yield("refinement_completed", NoSql) /\ NoSql \in Sql \union {NoSql}
          /\ outcome = Pending /\ UNCHANGED <<mode, outcome>> /\ wire # <<>>
          /\ <<wire[Len(wire)].event, "refinement_completed">> \in Follows
      BY <1>0, <1>17, FollowsFrom DEF RefinementExecuted, WirePhase, LastIs
    <2>1. /\ StreamProtocol' /\ LastIs({"refinement_completed"})'
          /\ \A e : SaidIn(wire', e) = SaidIn(wire, e) \union
                    (IF e = "refinement_completed" THEN {NoSql} ELSE {})
      BY <1>0, <2>0, ProgressOnWire
    <2> QED
      BY <1>0, <1>17, <2>1
      DEF RefinementExecuted, WirePhase, TruthPhase, LastIs, InForce, TakeRefinement
  <1>18. CASE RefinementAbandoned
    <2>1. StreamProtocol'
      BY <1>0, <1>18, SilentOnWire DEF RefinementAbandoned, Pending
    <2> QED
      BY <1>0, <1>18, <2>1
      DEF RefinementAbandoned, Pending, WirePhase, TruthPhase, LastIs, InForce
  <1>19. CASE DeliverAnswer
    <2>1. PICK answer : Reply("answered", final_sql, final_data, answer,
                              "final_answer")
      BY <1>19 DEF DeliverAnswer
    <2>2. /\ WirePhase' /\ pc' = "closed" /\ outcome'.kind = "answered"
          /\ \A e : SaidIn(wire', e) = SaidIn(wire, e) \union
                    (IF e = "final_answer" THEN {final_sql} ELSE {})
      <3>1. /\ wire # <<>> /\ UNCHANGED mode
            /\ <<wire[Len(wire)].event, "final_answer">> \in Follows
        BY <1>0, <1>19, FollowsFrom DEF DeliverAnswer, WirePhase, LastIs
      <3> QED
        BY <1>0, <2>1, <3>1, ReplyOnWire
    <2> QED
      BY <1>0, <1>19, <2>2 DEF DeliverAnswer, TruthPhase, InForce
  <1>20. CASE DeliverUnwritable
    <2>0. /\ UNCHANGED mode /\ NoSql \in Sql \union {NoSql} /\ wire # <<>>
          /\ <<wire[Len(wire)].event, "error">> \in Follows
      BY <1>0, <1>20, FollowsFrom DEF DeliverUnwritable, WirePhase, LastIs
    <2>1. /\ WirePhase' /\ pc' = "closed" /\ outcome'.kind = "error"
      BY <1>0, <1>20, <2>0, ReplyOnWire DEF DeliverUnwritable
    <2> QED
      BY <1>20, <2>1 DEF DeliverUnwritable, TruthPhase
  <1>21. CASE Disconnect
    <2>1. StreamProtocol'
      BY <1>0, <1>21, SilentOnWire DEF Disconnect, Pending
    <2> QED
      BY <1>0, <1>21, <2>1
      DEF Disconnect, Pending, WirePhase, TruthPhase, LastIs, InForce
  <1>22. CASE UNCHANGED vars
    <2>1. StreamProtocol'
      BY <1>0, <1>22, SilentOnWire DEF vars, requestVars
    <2> QED
      BY <1>0, <1>22, <2>1
      DEF vars, requestVars, WirePhase, TruthPhase, LastIs, InForce
  <1> QED
    BY <1>1, <1>2, <1>3, <1>4, <1>5, <1>6, <1>7, <1>8, <1>9, <1>10, <1>11,
       <1>12, <1>13, <1>14, <1>15, <1>16, <1>17, <1>18, <1>19, <1>20, <1>21,
       <1>22 DEF Next, Work

LEMMA WireStep == WireInv /\ [Next]_vars => WireInv'
  <1> SUFFICES ASSUME WireInv, [Next]_vars PROVE WireInv'
    OBVIOUS
  <1>1. ServiceInv'
    BY ServiceStep DEF WireInv
  <1>2. CASE mode = "stream"
    BY <1>1, <1>2, StreamStep DEF WireInv
  <1>3. CASE mode = "blocking"
    <2>1. mode' = "blocking" /\ wire' = <<>>
      BY <1>3, BlockingWire DEF WireInv, WirePhase
    <2>2. WirePhase' /\ TruthPhase'
      BY <2>1 DEF WirePhase, TruthPhase, StreamProtocol
    <2> QED
      BY <1>1, <2>2 DEF WireInv
  <1> QED
    BY <1>2, <1>3 DEF WireInv, ServiceInv, TypeInv, TypeOK

(* What a client of the stream sees is a run of the protocol, closed by     *)
(* exactly one terminal event unless the client leaves.                     *)
THEOREM StreamIsProtocol == Spec => []StreamProtocol
  <1>1. WireInv => StreamProtocol
    BY DEF WireInv, WirePhase
  <1> QED
    BY <1>1, WireInit, WireStep, PTL DEF Spec

(* The final answer names the query the client was last told is in force.   *)
THEOREM StreamIsTruthful == Spec => []StreamTellsTheTruth
  <1>1. WireInv => StreamTellsTheTruth
    BY DEF WireInv, TruthPhase, StreamTellsTheTruth, InForce, Said, SaidIn
  <1> QED
    BY <1>1, WireInit, WireStep, PTL DEF Spec

----------------------------------------------------------------------------
(* What a question costs.                                                   *)

ExecutesIn(log) == {i \in 1..Len(log) : log[i].op = "execute"}
Executed == Cardinality(ExecutesIn(calls))

(* One query for each attempt that got as far as running one, and none      *)
(* outside the loop but the refinement.                                     *)
BudgetPhase ==
  /\ Executed <= MaxAttempts + 1
  /\ pc = "loop" => Executed <= attempt_num
  /\ pc = "loop" /\ loop_pc \in {"validate", "execute"} =>
       Executed <= attempt_num - 1
  /\ pc \in AfterLoop \ {"answer"} => Executed <= MaxAttempts

BudgetInv == TypeInv /\ BudgetPhase

(* A log has finitely many runs.                                            *)
LEMMA ExecutesCounted ==
  ASSUME calls \in Seq(Call)
  PROVE  IsFiniteSet(ExecutesIn(calls)) /\ Executed \in Nat
  <1>1. IsFiniteSet(1..Len(calls))
    BY FS_Interval
  <1>2. ExecutesIn(calls) \in SUBSET (1..Len(calls))
    BY DEF ExecutesIn
  <1>3. IsFiniteSet(ExecutesIn(calls))
    BY <1>1, <1>2, FS_Subset
  <1> QED
    BY <1>3, FS_CardinalityType DEF Executed

(* A call adds one run at most.                                             *)
LEMMA ExecutesAdded ==
  ASSUME calls \in Seq(Call), NEW c \in Call, calls' = Append(calls, c)
  PROVE  /\ Executed \in Nat
         /\ Executed' = IF c.op = "execute" THEN Executed + 1 ELSE Executed
  <1>1. /\ Len(calls') = Len(calls) + 1 /\ Len(calls) \in Nat
        /\ \A i \in 1..Len(calls) : calls'[i] = calls[i]
        /\ calls'[Len(calls) + 1] = c
    BY AppendFacts
  <1>2. ExecutesIn(calls') =
          IF c.op = "execute" THEN ExecutesIn(calls) \union {Len(calls) + 1}
          ELSE ExecutesIn(calls)
    <2>1. 1..Len(calls') = 1..Len(calls) \union {Len(calls) + 1}
      BY <1>1
    <2> QED
      BY <1>1, <2>1 DEF ExecutesIn
  <1>3. IsFiniteSet(ExecutesIn(calls)) /\ Len(calls) + 1 \notin ExecutesIn(calls)
    BY <1>1, ExecutesCounted DEF ExecutesIn
  <1> QED
    BY <1>2, <1>3, FS_AddElement, ExecutesCounted DEF Executed

LEMMA BudgetInit == Init => BudgetInv
  <1> SUFFICES ASSUME Init PROVE BudgetInv
    OBVIOUS
  <1>1. Executed = 0
    BY FS_EmptySet DEF Init, LoopInit, Executed, ExecutesIn
  <1>2. BudgetPhase
    BY <1>1, MaxAttemptsAssumption DEF Init, BudgetPhase, AfterLoop
  <1> QED
    BY <1>2, TypeInitInv DEF BudgetInv

(* A step of the loop spends an attempt's query at most.                    *)
LEMMA LoopSpends ==
  ASSUME LoopInv, LoopInv', LoopStep,
         Executed <= attempt_num,
         loop_pc \in {"validate", "execute"} => Executed <= attempt_num - 1
  PROVE  /\ Executed' <= attempt_num'
         /\ loop_pc' \in {"validate", "execute"} =>
              Executed' <= attempt_num' - 1
  <1> USE SqlAssumption, RowsAssumption, MaxAttemptsAssumption
  <1>1. /\ calls \in Seq(Call) /\ attempt_num \in Nat
        /\ current_sql \in Sql \union {NoSql}
    BY DEF LoopInv, LoopTypeOK
  <1>2. ASSUME NEW op \in {"validate", "correct"}, NEW ok \in BOOLEAN,
               Called(op, ok, EmptyRows)
        PROVE  Executed' = Executed /\ Executed \in Nat
    <2> DEFINE c == [op |-> op, sql |-> current_sql, ok |-> ok,
                     data |-> EmptyRows]
    <2>1. c \in Call /\ calls' = Append(calls, c) /\ c.op # "execute"
      BY <1>1, <1>2 DEF Called, Call
    <2> QED
      BY <1>1, <2>1, ExecutesAdded
  <1>3. ASSUME NEW ok \in BOOLEAN, NEW rows \in Rows,
               Called("execute", ok, rows)
        PROVE  Executed' = Executed + 1 /\ Executed \in Nat
    <2> DEFINE c == [op |-> "execute", sql |-> current_sql, ok |-> ok,
                     data |-> rows]
    <2>1. c \in Call /\ calls' = Append(calls, c) /\ c.op = "execute"
      BY <1>1, <1>3 DEF Called, Call
    <2> QED
      BY <1>1, <2>1, ExecutesAdded
  <1>4. CASE ValidationAccepts \/ ValidationRejects
    BY <1>1, <1>2, <1>4
    DEF ValidationAccepts, ValidationRejects, AttemptFailed, ReturnError
  <1>5. CASE ExecutionFails
    <2>1. Executed' = Executed + 1 /\ Executed \in Nat
      BY <1>3, <1>5 DEF ExecutionFails
    <2> QED
      BY <1>1, <1>5, <2>1 DEF ExecutionFails, AttemptFailed, ReturnError
  <1>6. ASSUME NEW rows \in Rows, ExecutionSucceeds(rows)
        PROVE  Executed' <= attempt_num' /\ loop_pc' = "returned"
    <2>1. Executed' = Executed + 1 /\ Executed \in Nat
      BY <1>3, <1>6 DEF ExecutionSucceeds
    <2> QED
      BY <1>1, <1>6, <2>1 DEF ExecutionSucceeds
  <1>7. CASE CorrectionFails
    <2>1. Executed' = Executed /\ Executed \in Nat
      BY <1>2, <1>7 DEF CorrectionFails
    <2> QED
      BY <1>1, <1>7, <2>1 DEF CorrectionFails, ReturnError
  <1>8. ASSUME NEW sql \in HasSelect, CorrectionSucceeds(sql)
        PROVE  /\ Executed' \in Nat /\ attempt_num' \in Nat
               /\ Executed' <= attempt_num' - 1
    <2>1. Executed' = Executed /\ Executed \in Nat
      BY <1>2, <1>8 DEF CorrectionSucceeds
    <2> QED
      BY <1>1, <1>8, <2>1 DEF CorrectionSucceeds
  <1>9. CASE \E sql \in HasSelect : CorrectionSucceeds(sql)
    BY <1>8, <1>9
  <1> QED
    BY <1>4, <1>5, <1>6, <1>7, <1>9 DEF LoopStep

(* Every step keeps the request within its budget.                          *)
LEMMA BudgetStep == BudgetInv /\ [Next]_vars => BudgetInv'
  <1> SUFFICES ASSUME BudgetInv, [Next]_vars PROVE BudgetPhase'
    BY TypeStepInv DEF BudgetInv
  <1> USE SqlAssumption, RowsAssumption, MaxAttemptsAssumption
  <1> USE DEF AfterLoop, BeforeLoop
  <1>0. /\ TypeInv /\ TypeOK /\ LoopPhase /\ LoopTypeOK /\ BudgetPhase
        /\ TypeInv' /\ LoopPhase' /\ calls \in Seq(Call)
        /\ attempt_num \in 0..MaxAttempts
        /\ refined_sql \in Sql \union {NoSql}
    BY TypeStepInv DEF BudgetInv, TypeInv, TypeOK, LoopTypeOK
  <1>1. ASSUME UNCHANGED calls PROVE Executed' = Executed
    BY <1>1 DEF Executed
  <1>2. CASE PipelineReady \/ PipelineUnavailable \/ DetectIntent \/ ChatAnswer
    BY <1>0, <1>1, <1>2
    DEF PipelineReady, PipelineUnavailable, DetectIntent, ChatAnswer, Reply,
        NoLoopStep, loopVars, BudgetPhase
  <1>3. CASE Retrieve \/ AnnouncePlan \/ SchemaMissing \/ NoSqlGenerated
    BY <1>0, <1>1, <1>3
    DEF Retrieve, AnnouncePlan, SchemaMissing, NoSqlGenerated, Reply,
        NoLoopStep, loopVars, BudgetPhase
  <1>4. ASSUME NEW sql \in Sql, SqlGenerated(sql) PROVE BudgetPhase'
    <2>1. calls = <<>>
      BY <1>0, <1>4
      DEF SqlGenerated, MayGenerate, LoopPhase, LoopInv, Position
    <2>2. Executed = 0
      BY <2>1, FS_EmptySet DEF Executed, ExecutesIn
    <2> QED
      BY <1>0, <1>1, <1>4, <2>2 DEF SqlGenerated, Start, BudgetPhase
  <1>5. CASE InLoop
    <2>1. /\ pc = "loop" /\ pc' = "loop" /\ LoopStep
          /\ LoopInv /\ LoopInv' /\ attempt_num' \in 0..MaxAttempts
      BY <1>0, <1>5
      DEF InLoop, requestVars, LoopPhase, LoopInv, LoopTypeOK
    <2>2. /\ Executed' <= attempt_num'
          /\ loop_pc' \in {"validate", "execute"} =>
               Executed' <= attempt_num' - 1
      BY <1>0, <2>1, LoopSpends DEF BudgetPhase
    <2>3. Executed' \in Int
      <3>1. calls' \in Seq(Call)
        BY <2>1 DEF LoopInv, LoopTypeOK
      <3>2. IsFiniteSet(1..Len(calls'))
        BY <3>1, FS_Interval
      <3>3. ExecutesIn(calls') \in SUBSET (1..Len(calls'))
        BY DEF ExecutesIn
      <3> QED
        BY <3>2, <3>3, FS_Subset, FS_CardinalityType DEF Executed
    <2>4. Executed' <= MaxAttempts + 1
      BY <2>1, <2>2, <2>3
    <2> QED
      BY <2>1, <2>2, <2>4 DEF BudgetPhase
  <1>6. CASE CorrectionExhausted \/ QuerySucceeded
    <2>1. Executed \in Int
      BY <1>0, ExecutesCounted
    <2> QED
      BY <1>0, <1>1, <1>6, <2>1
      DEF CorrectionExhausted, QuerySucceeded, Reply, NoLoopStep, loopVars,
          BudgetPhase
  <1>7. CASE ReportRows \/ AnnounceRefinement
    BY <1>0, <1>1, <1>7
    DEF ReportRows, AnnounceRefinement, NoLoopStep, loopVars, BudgetPhase
  <1>8. ASSUME NEW sql \in Sql \union {NoSql}, Refine(sql) PROVE BudgetPhase'
    BY <1>0, <1>1, <1>8 DEF Refine, NoLoopStep, loopVars, BudgetPhase
  <1>9. CASE RefinementAccepted
    <2> DEFINE c == [op |-> "validate", sql |-> refined_sql, ok |-> TRUE,
                     data |-> EmptyRows]
    <2>1. c \in Call /\ calls' = Append(calls, c) /\ c.op # "execute"
      BY <1>0, <1>9 DEF RefinementAccepted, RefinementCall, Call
    <2>2. Executed' = Executed
      BY <1>0, <2>1, ExecutesAdded
    <2> QED
      BY <1>0, <1>9, <2>2 DEF RefinementAccepted, BudgetPhase
  <1>10. ASSUME NEW rows \in Rows, RefinementExecuted(rows) PROVE BudgetPhase'
    <2> DEFINE c == [op |-> "execute", sql |-> refined_sql, ok |-> TRUE,
                     data |-> rows]
    <2>1. c \in Call /\ calls' = Append(calls, c) /\ c.op = "execute"
      BY <1>0, <1>10 DEF RefinementExecuted, RefinementCall, Call
    <2>2. Executed' = Executed + 1 /\ Executed \in Nat
      BY <1>0, <2>1, ExecutesAdded
    <2> QED
      BY <1>0, <1>10, <2>2 DEF RefinementExecuted, BudgetPhase
  <1>11. CASE RefinementAbandoned
    <2>1. pc \in AfterLoop \ {"answer"} /\ pc' = "answer" /\ UNCHANGED attempt_num
      BY <1>11 DEF RefinementAbandoned
    <2>2. CASE UNCHANGED calls
      BY <1>0, <1>1, <2>1, <2>2 DEF BudgetPhase
    <2>3. CASE ~UNCHANGED calls
      <3>1. PICK op \in {"validate", "execute"} :
              RefinementCall(op, FALSE, EmptyRows)
        BY <1>11, <2>3 DEF RefinementAbandoned
      <3> DEFINE c == [op |-> op, sql |-> refined_sql, ok |-> FALSE,
                       data |-> EmptyRows]
      <3>2. c \in Call /\ calls' = Append(calls, c)
        BY <1>0, <3>1 DEF RefinementCall, Call
      <3>3. Executed' \in {Executed, Executed + 1} /\ Executed \in Nat
        BY <1>0, <3>2, ExecutesAdded
      <3> QED
        BY <1>0, <2>1, <3>3 DEF BudgetPhase
    <2> QED
      BY <2>2, <2>3
  <1>12. CASE DeliverAnswer \/ DeliverUnwritable \/ Disconnect
    BY <1>0, <1>1, <1>12
    DEF DeliverAnswer, DeliverUnwritable, Disconnect, Reply, NoLoopStep,
        loopVars, BudgetPhase
  <1>13. CASE UNCHANGED vars
    BY <1>0, <1>1, <1>13 DEF vars, requestVars, loopVars, BudgetPhase
  <1> QED
    BY <1>2, <1>3, <1>4, <1>5, <1>6, <1>7, <1>8, <1>9, <1>10, <1>11, <1>12,
       <1>13 DEF Next, Work

(* A question never costs the source database more than one query for each  *)
(* attempt and one for the refinement.                                      *)
THEOREM QueriesAreBounded == Spec => []QueryBudget
  <1>1. BudgetInv => QueryBudget
    BY DEF BudgetInv, BudgetPhase, QueryBudget, Executed, ExecutesIn
  <1> QED
    BY <1>1, BudgetInit, BudgetStep, PTL DEF Spec

----------------------------------------------------------------------------
(* Every step of a request brings it nearer to its end.                     *)

LEMMA StagesAreNat ==
  ASSUME NEW place
  PROVE  /\ place \in {"idle", "validate", "execute", "correct", "returned"} =>
              LoopStage(place) \in 0..3
         /\ place \in BeforeLoop \union AfterLoop \union {"loop", "closed"} =>
              Stage(place) \in 0..12
  BY DEF LoopStage, Stage, BeforeLoop, AfterLoop

(* A step outside the loop leaves the loop's share alone.                   *)
LEMMA StageFalls ==
  ASSUME TypeOK, TypeOK', UNCHANGED <<loop_pc, attempt_num>>,
         Stage(pc') < Stage(pc)
  PROVE  StepsLeft' < StepsLeft
<1>1. /\ attempt_num \in 0..MaxAttempts /\ LoopStage(loop_pc) \in 0..3
      /\ Stage(pc) \in 0..12 /\ Stage(pc') \in 0..12
  BY StagesAreNat DEF TypeOK, LoopTypeOK, BeforeLoop, AfterLoop
<1> QED
  BY <1>1, MaxAttemptsAssumption DEF StepsLeft

(* A step of the loop spends a third of an attempt, or ends the loop.       *)
LEMMA LoopStageFalls ==
  ASSUME LoopTypeOK, LoopStep
  PROVE  \/ attempt_num' = attempt_num /\ LoopStage(loop_pc') < LoopStage(loop_pc)
         \/ /\ attempt_num' = attempt_num + 1
            /\ loop_pc = "correct" /\ loop_pc' = "validate"
<1> USE DEF LoopStage
<1>1. CASE ValidationAccepts
  BY <1>1 DEF ValidationAccepts
<1>2. CASE ValidationRejects
  BY <1>2 DEF ValidationRejects, AttemptFailed, ReturnError
<1>3. CASE ExecutionFails
  BY <1>3 DEF ExecutionFails, AttemptFailed, ReturnError
<1>4. ASSUME NEW rows \in Rows, ExecutionSucceeds(rows)
      PROVE  attempt_num' = attempt_num
             /\ LoopStage(loop_pc') < LoopStage(loop_pc)
  BY <1>4 DEF ExecutionSucceeds
<1>5. ASSUME NEW sql \in HasSelect, CorrectionSucceeds(sql)
      PROVE  /\ attempt_num' = attempt_num + 1
             /\ loop_pc = "correct" /\ loop_pc' = "validate"
  BY <1>5 DEF CorrectionSucceeds
<1>6. CASE CorrectionFails
  BY <1>6 DEF CorrectionFails, ReturnError
<1> QED
  BY <1>1, <1>2, <1>3, <1>4, <1>5, <1>6 DEF LoopStep

InStage ==
  UNCHANGED <<loop_pc, attempt_num>> /\ Stage(pc') < Stage(pc)

LEMMA StepsFall ==
  ASSUME TypeInv, Next
  PROVE  StepsLeft' \in 0..(StepsLeft - 1)
<1>1. TypeOK /\ TypeOK' /\ LoopPhase
  BY TypeStepInv DEF TypeInv
<1>2. ASSUME InLoop PROVE StepsLeft' < StepsLeft
  <2>1. /\ LoopTypeOK /\ LoopTypeOK' /\ LoopStep
        /\ pc = "loop" /\ pc' = "loop"
    BY <1>1, <1>2 DEF InLoop, requestVars, TypeOK
  <2>2. /\ attempt_num \in 0..MaxAttempts /\ attempt_num' \in 0..MaxAttempts
        /\ LoopStage(loop_pc) \in 0..3 /\ LoopStage(loop_pc') \in 0..3
    BY <2>1, StagesAreNat DEF LoopTypeOK
  <2>3. CASE /\ attempt_num' = attempt_num
             /\ LoopStage(loop_pc') < LoopStage(loop_pc)
    BY <2>1, <2>2, <2>3, MaxAttemptsAssumption DEF StepsLeft, Stage
  <2>4. CASE /\ attempt_num' = attempt_num + 1
             /\ loop_pc = "correct" /\ loop_pc' = "validate"
    <3>1. LoopStage(loop_pc') = LoopStage(loop_pc) + 2
      BY <2>4 DEF LoopStage
    <3> QED
      BY <2>1, <2>2, <2>4, <3>1, MaxAttemptsAssumption DEF StepsLeft, Stage
  <2>5. StepsLeft' < StepsLeft
    BY <2>1, <2>3, <2>4, LoopStageFalls
  <2> QED
    BY <2>5
<1>3. ASSUME InStage PROVE StepsLeft' < StepsLeft
  BY <1>1, <1>3, StageFalls DEF InStage
<1> USE DEF NoLoopStep, loopVars, InStage
<1>4. ASSUME PipelineReady \/ PipelineUnavailable \/ ChatAnswer PROVE InStage
  BY <1>4
  DEF PipelineReady, PipelineUnavailable, ChatAnswer, Reply, Stage
<1>5. ASSUME DetectIntent \/ Retrieve \/ AnnouncePlan PROVE InStage
  BY <1>5 DEF DetectIntent, Retrieve, AnnouncePlan, Stage
<1>6. ASSUME SchemaMissing \/ NoSqlGenerated PROVE InStage
  BY <1>6
  DEF SchemaMissing, NoSqlGenerated, MayGenerate, Reply, Stage
<1>7. ASSUME NEW sql \in Sql, SqlGenerated(sql) PROVE StepsLeft' < StepsLeft
  <2>1. /\ pc \in {"plan", "generate"} /\ pc' = "loop"
        /\ loop_pc = "idle" /\ loop_pc' = "validate" /\ attempt_num' = 1
    BY <1>7 DEF SqlGenerated, MayGenerate, Start
  <2>2. attempt_num = 0
    BY <1>1, <2>1 DEF LoopPhase, BeforeLoop, LoopInv, Position
  <2> QED
    BY <2>1, <2>2, MaxAttemptsAssumption DEF StepsLeft, Stage, LoopStage
<1>8. ASSUME CorrectionExhausted \/ QuerySucceeded \/ ReportRows PROVE InStage
  BY <1>8
  DEF CorrectionExhausted, QuerySucceeded, ReportRows, Reply, Stage
<1>9. ASSUME AnnounceRefinement \/ RefinementAccepted \/ RefinementAbandoned
      PROVE  InStage
  <2>1. CASE AnnounceRefinement \/ RefinementAccepted
    <3>1. /\ <<pc, pc'>> \in {<<"announce_refinement", "refine">>,
                             <<"refine_validate", "refine_execute">>}
          /\ UNCHANGED <<loop_pc, attempt_num>>
      BY <2>1 DEF AnnounceRefinement, RefinementAccepted
    <3> QED
      BY <3>1 DEF Stage
  <2>2. CASE RefinementAbandoned
    <3>1. /\ pc \in {"refine", "refine_validate", "refine_execute"}
          /\ pc' = "answer" /\ UNCHANGED <<loop_pc, attempt_num>>
      BY <2>2 DEF RefinementAbandoned
    <3> QED
      BY <3>1 DEF Stage
  <2> QED
    BY <1>9, <2>1, <2>2
<1>10. ASSUME NEW sql \in Sql \union {NoSql}, Refine(sql)
       PROVE  InStage
  BY <1>10 DEF Refine, Stage
<1>11. ASSUME NEW rows \in Rows, RefinementExecuted(rows)
       PROVE  InStage
  BY <1>11 DEF RefinementExecuted, Stage
<1>12. ASSUME DeliverAnswer \/ DeliverUnwritable PROVE InStage
  BY <1>12 DEF DeliverAnswer, DeliverUnwritable, Reply, Stage
<1>13. ASSUME Disconnect PROVE InStage
  <2>1. Stage(pc') < Stage(pc)
    BY <1>1, <1>13 DEF Disconnect, TypeOK, Stage
  <2> QED
    BY <1>13, <2>1 DEF Disconnect
<1> HIDE DEF InStage
<1>14. StepsLeft \in Nat /\ StepsLeft' \in Nat
  <2>1. /\ attempt_num \in 0..MaxAttempts /\ attempt_num' \in 0..MaxAttempts
        /\ LoopStage(loop_pc) \in 0..3 /\ LoopStage(loop_pc') \in 0..3
        /\ Stage(pc) \in 0..12 /\ Stage(pc') \in 0..12
    BY <1>1, StagesAreNat DEF TypeOK, LoopTypeOK, BeforeLoop, AfterLoop
  <2> QED
    BY <2>1, MaxAttemptsAssumption DEF StepsLeft
<1>15. StepsLeft' < StepsLeft
  BY <1>2, <1>3, <1>4, <1>5, <1>6, <1>7, <1>8, <1>9, <1>10, <1>11, <1>12,
     <1>13 DEF Next, Work
<1> QED
  BY <1>14, <1>15

(* No question goes on for ever, for any number of attempts: it is over     *)
(* within 3 * MAX_ATTEMPTS + 12 awaits and yields, whatever its callees     *)
(* answer.  That the awaits themselves end is the callees' promise.         *)
THEOREM QuestionsEnd == Spec => QuestionsAreFinite
<1>1. Init => StepsLeft = 3 * MaxAttempts + 12
  BY MaxAttemptsAssumption DEF Init, LoopInit, StepsLeft, LoopStage, Stage
<1>2. TypeInv /\ [Next]_vars => [StepsLeft' \in 0..(StepsLeft - 1)]_vars
  BY StepsFall
<1> QED
  BY <1>1, <1>2, TypeInitInv, TypeStepInv, PTL DEF Spec, QuestionsAreFinite
============================================================================
