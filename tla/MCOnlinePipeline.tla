-------------------------- MODULE MCOnlinePipeline --------------------------
(***************************************************************************)
(* OnlinePipeline on a small instance.  The intent outputs are one of each *)
(* kind the code tells apart: nothing, conversation, a mixture with 0, an  *)
(* unknown code, refinement, planning, and both.  One read-only query, a   *)
(* statement with SELECT that is not read-only, and prose; of results, the *)
(* empty one, a thin one, a rich one and one json.dumps refuses.           *)
(***************************************************************************)
EXTENDS OnlinePipeline

CONSTANTS query1, query2, dml, prose, noRows, thinRows, richRows, opaqueRows

MCSql == {query1, query2, dml, prose}
MCReadOnly == {query1, query2}
MCHasSelect == {query1, query2, dml}
MCRows == {noRows, thinRows, richRows, opaqueRows}
MCThinRows == {thinRows}
MCOpaqueRows == {opaqueRows}
MCIntentOutputs == {{}, {0}, {0, 1}, {7}, {3}, {4}, {3, 4}}
============================================================================
