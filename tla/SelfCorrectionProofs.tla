------------------------ MODULE SelfCorrectionProofs ------------------------
(***************************************************************************)
(* What SelfCorrection guarantees for every set of SQL texts and result    *)
(* sets and every number of attempts.  The properties are not inductive:   *)
(* that only validated texts are run, for one, depends on the last call    *)
(* made whenever the loop is about to run a query.  LoopInv adds what the  *)
(* program counter says about the last call, the attempt counter and the   *)
(* history; it is inductive and implies the four properties.               *)
(***************************************************************************)
EXTENDS SelfCorrection, TLAPS

LastCall == calls[Len(calls)]

(* Where the loop stands, told by the last call and the attempt counter.    *)
Position ==
  /\ loop_pc = "idle" => attempts = <<>> /\ calls = <<>> /\ attempt_num = 0
  /\ loop_pc # "idle" => attempt_num >= 1 /\ current_sql \in Sql
  /\ loop_pc \in {"validate", "execute"} => Len(attempts) = attempt_num - 1
  /\ loop_pc \in {"correct", "returned"} =>
       /\ Len(attempts) = attempt_num
       /\ attempts[Len(attempts)].sql = current_sql
  /\ loop_pc = "execute" =>
       /\ calls # <<>>
       /\ LastCall.op = "validate" /\ LastCall.ok
       /\ LastCall.sql = current_sql
       /\ current_sql \in ReadOnly
  /\ loop_pc = "correct" =>
       /\ calls # <<>>
       /\ LastCall.op # "correct" /\ ~LastCall.ok
       /\ LastCall.sql = current_sql
       /\ attempt_num < MaxAttempts

(* The records are numbered from 1, and only a successful last one carries  *)
(* no error.                                                                *)
History ==
  \A i \in 1..Len(attempts) :
    /\ attempts[i].attempt = i
    /\ attempts[i].error_source = "none" <=>
         i = Len(attempts) /\ result.status = "success"

(* The result is set exactly when the loop returns.                         *)
Returned ==
  /\ loop_pc # "returned" => result.status = "running"
  /\ loop_pc = "returned" =>
       /\ result.status \in {"success", "error"}
       /\ result.sql = current_sql
       /\ result.total_attempts = Len(attempts)
       /\ result.status = "error" => result.data = EmptyRows
       /\ result.status = "success" =>
            /\ calls # <<>>
            /\ LastCall = [op |-> "execute", sql |-> result.sql,
                           ok |-> TRUE, data |-> result.data]

LoopInv ==
  /\ LoopTypeOK
  /\ Position
  /\ History
  /\ Returned
  /\ ExecutesOnlyWhatItJustValidated
  /\ CorrectsWhatJustFailed

----------------------------------------------------------------------------

(* Appending to a sequence keeps its elements and adds the new one.         *)
LEMMA AppendFacts ==
  ASSUME NEW S, NEW s \in Seq(S), NEW e \in S
  PROVE  /\ Append(s, e) \in Seq(S)
         /\ Len(Append(s, e)) = Len(s) + 1
         /\ \A i \in 1..Len(s) : Append(s, e)[i] = s[i]
         /\ Append(s, e)[Len(s) + 1] = e
         /\ Append(s, e) # <<>>
  OBVIOUS

(* The initial state of a call satisfies the invariant.                     *)
LEMMA LoopInitInv == LoopInit => LoopInv
  <1> SUFFICES ASSUME LoopInit PROVE LoopInv
    OBVIOUS
  <1> USE SqlAssumption, RowsAssumption, MaxAttemptsAssumption DEF LoopInit
  <1>1. LoopTypeOK
    BY DEF LoopTypeOK, Running, Result, Attempt, Call
  <1>2. Position /\ History /\ Returned
    BY DEF Position, History, Returned, Running
  <1>3. ExecutesOnlyWhatItJustValidated /\ CorrectsWhatJustFailed
    BY DEF ExecutesOnlyWhatItJustValidated, CorrectsWhatJustFailed
  <1> QED
    BY <1>1, <1>2, <1>3 DEF LoopInv

(* A call that obeys both call rules extends a log that obeys them.         *)
LEMMA CallLogStep ==
  ASSUME calls \in Seq(Call), NEW c \in Call, calls' = Append(calls, c),
         ExecutesOnlyWhatItJustValidated, CorrectsWhatJustFailed,
         c.op = "execute" =>
           /\ calls # <<>> /\ LastCall.op = "validate" /\ LastCall.ok
           /\ LastCall.sql = c.sql /\ c.sql \in ReadOnly,
         c.op = "correct" =>
           /\ calls # <<>> /\ LastCall.op # "correct" /\ ~LastCall.ok
           /\ LastCall.sql = c.sql
  PROVE  ExecutesOnlyWhatItJustValidated' /\ CorrectsWhatJustFailed'
  <1>1. /\ Len(calls') = Len(calls) + 1
        /\ \A i \in 1..Len(calls) : calls'[i] = calls[i]
        /\ calls'[Len(calls) + 1] = c
    BY AppendFacts
  <1>2. calls # <<>> => Len(calls) >= 1
    OBVIOUS
  <1>3. ExecutesOnlyWhatItJustValidated'
    BY <1>1, <1>2 DEF ExecutesOnlyWhatItJustValidated, LastCall
  <1>4. CorrectsWhatJustFailed'
    BY <1>1, <1>2 DEF CorrectsWhatJustFailed, LastCall
  <1> QED
    BY <1>3, <1>4

(* Recording the current attempt, failed or not, keeps the history in order.*)
LEMMA HistoryStep ==
  ASSUME LoopTypeOK, Position, History, Returned,
         loop_pc \in {"validate", "execute"},
         NEW source \in {"none", "validation", "execution"},
         attempts' = Append(attempts, AttemptRecord(source)),
         source = "none" <=> result'.status = "success"
  PROVE  /\ attempts' \in Seq(Attempt)
         /\ Len(attempts') = attempt_num
         /\ attempts'[Len(attempts')].sql = current_sql
         /\ History'
  <1> DEFINE rec == AttemptRecord(source)
  <1>1. /\ attempts \in Seq(Attempt)
        /\ attempt_num \in Nat /\ attempt_num >= 1 /\ current_sql \in Sql
        /\ Len(attempts) = attempt_num - 1
        /\ result.status # "success"
    BY DEF LoopTypeOK, Position, Returned
  <1>2. /\ rec \in Attempt
        /\ rec.attempt = attempt_num /\ rec.sql = current_sql
        /\ rec.error_source = source
    BY <1>1 DEF AttemptRecord, Attempt
  <1>3. /\ attempts' \in Seq(Attempt)
        /\ Len(attempts') = Len(attempts) + 1
        /\ \A i \in 1..Len(attempts) : attempts'[i] = attempts[i]
        /\ attempts'[Len(attempts) + 1] = rec
    BY <1>1, <1>2, AppendFacts
  <1>4. History'
    BY <1>1, <1>2, <1>3 DEF History
  <1> QED
    BY <1>1, <1>2, <1>3, <1>4

(* A failed validation or execution keeps the invariant, whether it leads   *)
(* to a correction or is the last one.                                      *)
LEMMA FailedAttemptStep ==
  ASSUME LoopInv,
         NEW op \in {"validate", "execute"}, loop_pc = op,
         NEW source \in {"validation", "execution"},
         Called(op, FALSE, EmptyRows), AttemptFailed(source)
  PROVE  LoopInv'
  <1> DEFINE c == [op |-> op, sql |-> current_sql, ok |-> FALSE,
                   data |-> EmptyRows]
  <1> USE RowsAssumption, MaxAttemptsAssumption
  <1>1. /\ LoopTypeOK /\ Position /\ History /\ Returned
        /\ ExecutesOnlyWhatItJustValidated /\ CorrectsWhatJustFailed
    BY DEF LoopInv
  <1>2. /\ calls \in Seq(Call) /\ c \in Call /\ calls' = Append(calls, c)
        /\ current_sql \in Sql /\ attempt_num \in 1..MaxAttempts
        /\ UNCHANGED <<attempt_num, current_sql>>
        /\ attempts' = Append(attempts, AttemptRecord(source))
    BY <1>1 DEF LoopTypeOK, Position, Call, Called, AttemptFailed
  <1>3. ExecutesOnlyWhatItJustValidated' /\ CorrectsWhatJustFailed'
    BY <1>1, <1>2, CallLogStep DEF Position
  <1>4. result'.status # "success"
    BY <1>1, <1>2 DEF AttemptFailed, ReturnError, Returned
  <1>5. /\ attempts' \in Seq(Attempt)
        /\ Len(attempts') = attempt_num
        /\ attempts'[Len(attempts')].sql = current_sql
        /\ History'
    BY <1>1, <1>2, <1>4, HistoryStep
  <1>6. calls' \in Seq(Call) /\ calls' # <<>> /\ LastCall' = c
    BY <1>2, AppendFacts DEF LastCall
  <1>7. CASE MayCorrect
    <2>1. loop_pc' = "correct" /\ UNCHANGED result /\ attempt_num < MaxAttempts
      BY <1>7 DEF AttemptFailed, MayCorrect
    <2>2. LoopTypeOK'
      BY <1>1, <1>2, <1>5, <1>6, <2>1 DEF LoopTypeOK
    <2>3. Position'
      BY <1>2, <1>5, <1>6, <2>1 DEF Position
    <2>4. Returned'
      BY <1>1, <2>1 DEF Returned
    <2> QED
      BY <1>3, <1>5, <2>2, <2>3, <2>4 DEF LoopInv
  <1>8. CASE ~MayCorrect
    <2>1. /\ loop_pc' = "returned"
          /\ result' = [status |-> "error", sql |-> current_sql,
                        data |-> EmptyRows, total_attempts |-> Len(attempts')]
      BY <1>8 DEF AttemptFailed, ReturnError
    <2>2. LoopTypeOK'
      BY <1>1, <1>2, <1>5, <1>6, <2>1 DEF LoopTypeOK, Result
    <2>3. Position'
      BY <1>2, <1>5, <1>6, <2>1 DEF Position
    <2>4. Returned'
      BY <1>2, <2>1 DEF Returned
    <2> QED
      BY <1>3, <1>5, <2>2, <2>3, <2>4 DEF LoopInv
  <1> QED
    BY <1>7, <1>8

(* Every step of the loop keeps the invariant.                              *)
LEMMA LoopStepInv == LoopInv /\ [LoopNext]_loopVars => LoopInv'
  <1> SUFFICES ASSUME LoopInv, [LoopNext]_loopVars PROVE LoopInv'
    OBVIOUS
  <1> USE SqlAssumption, RowsAssumption, MaxAttemptsAssumption
  <1>0. /\ LoopTypeOK /\ Position /\ History /\ Returned
        /\ ExecutesOnlyWhatItJustValidated /\ CorrectsWhatJustFailed
    BY DEF LoopInv
  <1>1. ASSUME NEW sql \in Sql, Start(sql) PROVE LoopInv'
    <2> USE DEF Start
    <2>1. LoopTypeOK'
      BY <1>0, <1>1 DEF LoopTypeOK
    <2>2. Position' /\ History' /\ Returned'
      BY <1>0, <1>1 DEF Position, History, Returned, LoopTypeOK
    <2>3. ExecutesOnlyWhatItJustValidated' /\ CorrectsWhatJustFailed'
      BY <1>0, <1>1 DEF ExecutesOnlyWhatItJustValidated, CorrectsWhatJustFailed
    <2> QED
      BY <2>1, <2>2, <2>3 DEF LoopInv
  <1>2. CASE ValidationAccepts
    <2> DEFINE c == [op |-> "validate", sql |-> current_sql, ok |-> TRUE,
                     data |-> EmptyRows]
    <2>1. /\ calls \in Seq(Call) /\ c \in Call /\ calls' = Append(calls, c)
          /\ current_sql \in ReadOnly /\ loop_pc' = "execute"
          /\ UNCHANGED <<attempt_num, current_sql, attempts, result>>
      BY <1>0, <1>2 DEF ValidationAccepts, Called, LoopTypeOK, Call
    <2>2. calls' \in Seq(Call) /\ calls' # <<>> /\ LastCall' = c
      BY <2>1, AppendFacts DEF LastCall
    <2>3. ExecutesOnlyWhatItJustValidated' /\ CorrectsWhatJustFailed'
      BY <1>0, <2>1, CallLogStep
    <2>4. LoopTypeOK'
      BY <1>0, <2>1, <2>2 DEF LoopTypeOK
    <2>5. Position'
      BY <1>0, <1>2, <2>1, <2>2 DEF Position, ValidationAccepts
    <2>6. History' /\ Returned'
      BY <1>0, <1>2, <2>1 DEF History, Returned, ValidationAccepts
    <2> QED
      BY <2>3, <2>4, <2>5, <2>6 DEF LoopInv
  <1>3. CASE ValidationRejects
    BY <1>3, FailedAttemptStep DEF ValidationRejects
  <1>4. CASE ExecutionFails
    BY <1>4, FailedAttemptStep DEF ExecutionFails
  <1>5. ASSUME NEW rows \in Rows, ExecutionSucceeds(rows) PROVE LoopInv'
    <2> DEFINE c == [op |-> "execute", sql |-> current_sql, ok |-> TRUE,
                     data |-> rows]
    <2>1. /\ calls \in Seq(Call) /\ c \in Call /\ calls' = Append(calls, c)
          /\ attempts' = Append(attempts, AttemptRecord("none"))
          /\ loop_pc = "execute" /\ loop_pc' = "returned"
          /\ result' = [status |-> "success", sql |-> current_sql,
                        data |-> rows, total_attempts |-> attempt_num]
          /\ UNCHANGED <<attempt_num, current_sql>>
      BY <1>0, <1>5 DEF ExecutionSucceeds, Called, LoopTypeOK, Call
    <2>2. calls' \in Seq(Call) /\ calls' # <<>> /\ LastCall' = c
      BY <2>1, AppendFacts DEF LastCall
    <2>3. ExecutesOnlyWhatItJustValidated' /\ CorrectsWhatJustFailed'
      BY <1>0, <2>1, CallLogStep DEF Position
    <2>4. /\ attempts' \in Seq(Attempt)
          /\ Len(attempts') = attempt_num
          /\ attempts'[Len(attempts')].sql = current_sql
          /\ History'
      BY <1>0, <2>1, HistoryStep
    <2>5. LoopTypeOK'
      BY <1>0, <2>1, <2>2, <2>4 DEF LoopTypeOK, Result
    <2>6. Position'
      BY <1>0, <2>1, <2>4 DEF Position
    <2>7. Returned'
      BY <2>1, <2>2, <2>4 DEF Returned
    <2> QED
      BY <2>3, <2>4, <2>5, <2>6, <2>7 DEF LoopInv
  <1>6. ASSUME NEW sql \in HasSelect, CorrectionSucceeds(sql) PROVE LoopInv'
    <2> DEFINE c == [op |-> "correct", sql |-> current_sql, ok |-> TRUE,
                     data |-> EmptyRows]
    <2>1. /\ calls \in Seq(Call) /\ c \in Call /\ calls' = Append(calls, c)
          /\ loop_pc = "correct" /\ loop_pc' = "validate"
          /\ current_sql' = sql /\ sql \in Sql
          /\ attempt_num' = attempt_num + 1
          /\ UNCHANGED <<attempts, result>>
      BY <1>0, <1>6 DEF CorrectionSucceeds, Called, LoopTypeOK, Call
    <2>2. calls' \in Seq(Call)
      BY <2>1, AppendFacts
    <2>3. ExecutesOnlyWhatItJustValidated' /\ CorrectsWhatJustFailed'
      BY <1>0, <2>1, CallLogStep DEF Position
    <2>4. LoopTypeOK'
      BY <1>0, <2>1, <2>2 DEF LoopTypeOK, Position
    <2>5. Position'
      BY <1>0, <2>1 DEF Position, LoopTypeOK
    <2>6. History' /\ Returned'
      BY <1>0, <2>1 DEF History, Returned
    <2> QED
      BY <2>3, <2>4, <2>5, <2>6 DEF LoopInv
  <1>7. CASE CorrectionFails
    <2> DEFINE c == [op |-> "correct", sql |-> current_sql, ok |-> FALSE,
                     data |-> EmptyRows]
    <2>1. /\ calls \in Seq(Call) /\ c \in Call /\ calls' = Append(calls, c)
          /\ loop_pc = "correct" /\ loop_pc' = "returned"
          /\ result' = [status |-> "error", sql |-> current_sql,
                        data |-> EmptyRows, total_attempts |-> Len(attempts)]
          /\ UNCHANGED <<attempt_num, current_sql, attempts>>
      BY <1>0, <1>7 DEF CorrectionFails, Called, ReturnError, LoopTypeOK, Call
    <2>2. calls' \in Seq(Call)
      BY <2>1, AppendFacts
    <2>3. ExecutesOnlyWhatItJustValidated' /\ CorrectsWhatJustFailed'
      BY <1>0, <2>1, CallLogStep DEF Position
    <2>4. LoopTypeOK'
      BY <1>0, <2>1, <2>2 DEF LoopTypeOK, Result
    <2>5. Position'
      BY <1>0, <2>1 DEF Position
    <2>6. History' /\ Returned'
      BY <1>0, <2>1 DEF History, Returned
    <2> QED
      BY <2>3, <2>4, <2>5, <2>6 DEF LoopInv
  <1>8. CASE UNCHANGED loopVars
    BY <1>0, <1>8 DEF LoopInv, LoopTypeOK, Position, History, Returned, LastCall,
       ExecutesOnlyWhatItJustValidated, CorrectsWhatJustFailed, loopVars
  <1> QED
    BY <1>1, <1>2, <1>3, <1>4, <1>5, <1>6, <1>7, <1>8 DEF LoopNext, LoopStep

(* The invariant holds throughout a call.                                   *)
THEOREM LoopInvariant == LoopSpec => []LoopInv
  <1>1. LoopInit => LoopInv
    BY LoopInitInv
  <1>2. LoopInv /\ [LoopNext]_loopVars => LoopInv'
    BY LoopStepInv
  <1> QED
    BY <1>1, <1>2, PTL DEF LoopSpec

(* The state of a call of run_correction_loop keeps its type; in particular *)
(* there is never an attempt beyond MAX_ATTEMPTS.                           *)
THEOREM LoopTypeCorrect == LoopSpec => []LoopTypeOK
  <1>1. LoopInv => LoopTypeOK
    BY DEF LoopInv
  <1> QED
    BY <1>1, LoopInvariant, PTL

(* Every query sent to the source database is read-only and was accepted by *)
(* the validator in the call just before; corrections are no exception.     *)
THEOREM OnlyValidatedQueriesRun == LoopSpec => []ExecutesOnlyWhatItJustValidated
  <1>1. LoopInv => ExecutesOnlyWhatItJustValidated
    BY DEF LoopInv
  <1> QED
    BY <1>1, LoopInvariant, PTL

(* The LLM is asked to correct exactly the text that has just failed.       *)
THEOREM CorrectionsFollowFailures == LoopSpec => []CorrectsWhatJustFailed
  <1>1. LoopInv => CorrectsWhatJustFailed
    BY DEF LoopInv
  <1> QED
    BY <1>1, LoopInvariant, PTL

(* What the invariant says of a call that has returned.                     *)
LEMMA ReturnedAgrees == LoopInv /\ loop_pc = "returned" => Agrees
  <1> SUFFICES ASSUME LoopInv, loop_pc = "returned"
               PROVE  Agrees
    OBVIOUS
  <1>1. /\ attempts \in Seq(Attempt) /\ attempt_num \in Nat
        /\ attempt_num >= 1 /\ Len(attempts) = attempt_num
        /\ attempts[Len(attempts)].sql = current_sql
    BY MaxAttemptsAssumption DEF LoopInv, LoopTypeOK, Position
  <1>2. attempts # <<>>
    BY <1>1
  <1> QED
    BY <1>1, <1>2 DEF LoopInv, History, Returned, Agrees, LastCall

(* The dict the loop returns agrees with its attempt history and with the   *)
(* last query it ran.                                                       *)
THEOREM ResultIsTheHistorysResult == LoopSpec => ResultMatchesHistory
  <1>1. LoopInv /\ [LoopNext]_loopVars
          => [loop_pc # "returned" /\ loop_pc' = "returned" => Agrees']_loopVars
    <2>1. (LoopInv /\ loop_pc = "returned" => Agrees)'
      BY ReturnedAgrees, PTL
    <2> QED
      BY <2>1, LoopStepInv
  <1> QED
    BY <1>1, LoopInvariant, PTL DEF LoopSpec, ResultMatchesHistory
============================================================================
