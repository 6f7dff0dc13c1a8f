--------------------------- MODULE SelfCorrection ---------------------------
(***************************************************************************)
(* One call of SqlCorrectionService.run_correction_loop                    *)
(* (services/pipelines/online/generation/sql_correction_service.py):       *)
(* validate, execute, ask the LLM for a correction, at most MAX_ATTEMPTS   *)
(* times.  The loop awaits three callees, and every await is an action:    *)
(*                                                                         *)
(*   validate_fn   SqlValidationService.validate: accepts only texts that  *)
(*                 _is_read_only accepts; may reject any text (parse,      *)
(*                 metadata, internal error), because the metadata it      *)
(*                 reads belongs to other tasks.                           *)
(*   execute_fn    SqlExecutionService.execute: rows or an error.          *)
(*   correct       the LLM: any text containing SELECT, or a failure.      *)
(*                                                                         *)
(* SQL texts and result sets are opaque; what matters of a text is whether *)
(* it is read-only and whether it contains SELECT.  Definitions whose name *)
(* says what went wrong (MayCorrectOffByOne, CorrectionSkipsValidation...) *)
(* are mutated forms of the definition that follows them: no specification *)
(* uses them, they show that the properties can fail.                      *)
(***************************************************************************)
EXTENDS Integers, Sequences

CONSTANTS
  Sql,          \* the SQL texts an LLM can return
  ReadOnly,     \* those _is_read_only accepts
  HasSelect,    \* those in which "SELECT" occurs
  Rows,         \* the normalised result sets a query can return
  EmptyRows,    \* the result set without a row
  NoSql,        \* None, or the empty text
  MaxAttempts   \* MAX_ATTEMPTS

ASSUME SqlAssumption ==
  /\ ReadOnly \subseteq Sql
  /\ HasSelect \subseteq Sql
  /\ NoSql \notin Sql

ASSUME RowsAssumption == EmptyRows \in Rows

ASSUME MaxAttemptsAssumption == MaxAttempts \in Nat \ {0}

VARIABLES
  loop_pc,      \* where the coroutine is suspended
  attempt_num,
  current_sql,
  attempts,     \* the attempt records of the returned history
  result,       \* the dict the loop returns
  calls         \* history: the calls made to validate_fn, execute_fn, correct

loopVars == <<loop_pc, attempt_num, current_sql, attempts, result, calls>>

----------------------------------------------------------------------------

Call == [op : {"validate", "execute", "correct"}, sql : Sql \union {NoSql},
         ok : BOOLEAN, data : Rows]

Attempt == [attempt : Nat, sql : Sql,
            error_source : {"none", "validation", "execution"}]

Result == [status : {"running", "success", "error"}, sql : Sql \union {NoSql},
           data : Rows, total_attempts : Nat]

Running == [status |-> "running", sql |-> NoSql, data |-> EmptyRows,
            total_attempts |-> 0]

LoopInit ==
  /\ loop_pc = "idle"
  /\ attempt_num = 0
  /\ current_sql = NoSql
  /\ attempts = <<>>
  /\ result = Running
  /\ calls = <<>>

(* A callee was awaited with the current text and has answered.             *)
Called(op, ok, data) ==
  calls' = Append(calls, [op |-> op, sql |-> current_sql,
                          ok |-> ok, data |-> data])

MayCorrectOffByOne == attempt_num <= MaxAttempts
MayCorrect == attempt_num < MaxAttempts

AttemptRecord(source) ==
  [attempt |-> attempt_num, sql |-> current_sql, error_source |-> source]

ReturnErrorCountsAllAttempts(history) ==
  /\ loop_pc' = "returned"
  /\ result' = [status |-> "error", sql |-> current_sql, data |-> EmptyRows,
                total_attempts |-> MaxAttempts]

(* The return after the for statement, reached by exhaustion and by break.  *)
ReturnError(history) ==
  /\ loop_pc' = "returned"
  /\ result' = [status |-> "error", sql |-> current_sql, data |-> EmptyRows,
                total_attempts |-> Len(history)]

(* An attempt failed: it is recorded, and unless it was the last one the    *)
(* LLM is asked for a correction.                                           *)
AttemptFailed(source) ==
  /\ attempts' = Append(attempts, AttemptRecord(source))
  /\ IF MayCorrect
     THEN loop_pc' = "correct" /\ UNCHANGED result
     ELSE ReturnError(attempts')
  /\ UNCHANGED <<attempt_num, current_sql>>

----------------------------------------------------------------------------

Start(sql) ==
  /\ loop_pc = "idle"
  /\ loop_pc' = "validate"
  /\ attempt_num' = 1
  /\ current_sql' = sql
  /\ UNCHANGED <<attempts, result, calls>>

ValidationAccepts ==
  /\ loop_pc = "validate"
  /\ current_sql \in ReadOnly
  /\ Called("validate", TRUE, EmptyRows)
  /\ loop_pc' = "execute"
  /\ UNCHANGED <<attempt_num, current_sql, attempts, result>>

ValidationRejects ==
  /\ loop_pc = "validate"
  /\ Called("validate", FALSE, EmptyRows)
  /\ AttemptFailed("validation")

ExecutionFails ==
  /\ loop_pc = "execute"
  /\ Called("execute", FALSE, EmptyRows)
  /\ AttemptFailed("execution")

ExecutionSucceeds(rows) ==
  /\ loop_pc = "execute"
  /\ Called("execute", TRUE, rows)
  /\ attempts' = Append(attempts, AttemptRecord("none"))
  /\ loop_pc' = "returned"
  /\ result' = [status |-> "success", sql |-> current_sql, data |-> rows,
                total_attempts |-> attempt_num]
  /\ UNCHANGED <<attempt_num, current_sql>>

CorrectionSkipsValidation(sql) ==
  /\ loop_pc = "correct"
  /\ Called("correct", TRUE, EmptyRows)
  /\ current_sql' = sql
  /\ attempt_num' = attempt_num + 1
  /\ loop_pc' = "execute"
  /\ UNCHANGED <<attempts, result>>

(* correct() returns a text with SELECT: the next iteration starts with it. *)
CorrectionSucceeds(sql) ==
  /\ loop_pc = "correct"
  /\ Called("correct", TRUE, EmptyRows)
  /\ current_sql' = sql
  /\ attempt_num' = attempt_num + 1
  /\ loop_pc' = "validate"
  /\ UNCHANGED <<attempts, result>>

CorrectionRetriesInstead ==
  /\ loop_pc = "correct"
  /\ Called("correct", FALSE, EmptyRows)
  /\ UNCHANGED <<loop_pc, attempt_num, current_sql, attempts, result>>

(* The LLM raised, or answered without SELECT: break.                       *)
CorrectionFails ==
  /\ loop_pc = "correct"
  /\ Called("correct", FALSE, EmptyRows)
  /\ ReturnError(attempts)
  /\ UNCHANGED <<attempt_num, current_sql, attempts>>

LoopStep ==
  \/ ValidationAccepts
  \/ ValidationRejects
  \/ ExecutionFails
  \/ \E rows \in Rows : ExecutionSucceeds(rows)
  \/ \E sql \in HasSelect : CorrectionSucceeds(sql)
  \/ CorrectionFails

LoopNext == (\E sql \in Sql : Start(sql)) \/ LoopStep

(* asyncio resumes a coroutine whose callee has answered, and every callee  *)
(* answers or raises (bounded retries, client and driver timeouts).         *)
LoopSpec == LoopInit /\ [][LoopNext]_loopVars /\ WF_loopVars(LoopNext)

----------------------------------------------------------------------------
(* Properties.                                                              *)

(* The state of the call has its type.                                      *)
LoopTypeOK ==
  /\ loop_pc \in {"idle", "validate", "execute", "correct", "returned"}
  /\ attempt_num \in 0..MaxAttempts
  /\ current_sql \in Sql \union {NoSql}
  /\ attempts \in Seq(Attempt)
  /\ result \in Result
  /\ calls \in Seq(Call)

(* A text is executed only when the call just before it was validate_fn     *)
(* accepting that very text: a corrected text is validated again, and so is *)
(* a refinement, and only read-only texts reach the source database         *)
(* (sql_correction_service.py:152-192, online_pipeline.py:472-474).         *)
ExecutesOnlyWhatItJustValidated ==
  \A i \in 1..Len(calls) :
    calls[i].op = "execute" =>
      /\ i > 1
      /\ calls[i-1].op = "validate"
      /\ calls[i-1].ok
      /\ calls[i-1].sql = calls[i].sql
      /\ calls[i].sql \in ReadOnly

(* The LLM is fed the text and only the text that has just failed           *)
(* (sql_correction_service.py:173-179, 213-219).                            *)
CorrectsWhatJustFailed ==
  \A i \in 1..Len(calls) :
    calls[i].op = "correct" =>
      /\ i > 1
      /\ calls[i-1].op # "correct"
      /\ ~calls[i-1].ok
      /\ calls[i-1].sql = calls[i].sql

Agrees ==
  /\ attempts # <<>>
  /\ result.total_attempts = Len(attempts)
  /\ result.sql = attempts[Len(attempts)].sql
  /\ \A i \in 1..Len(attempts) :
       /\ attempts[i].attempt = i
       /\ attempts[i].error_source = "none" <=>
            i = Len(attempts) /\ result.status = "success"
  /\ result.status = "success" =>
       calls[Len(calls)] = [op |-> "execute", sql |-> result.sql,
                            ok |-> TRUE, data |-> result.data]
  /\ result.status = "error" => result.data = EmptyRows

(* The dict the loop returns agrees with the attempt history it carries: it *)
(* counts the records, a success is the last attempt and its rows are the   *)
(* rows of the last query run, an error names the text of the last failed   *)
(* attempt, and every earlier attempt failed                                *)
(* (sql_correction_service.py:239-258).                                     *)
ResultMatchesHistory ==
  [][loop_pc # "returned" /\ loop_pc' = "returned" => Agrees']_loopVars
============================================================================
