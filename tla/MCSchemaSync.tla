---------------------------- MODULE MCSchemaSync ----------------------------
(***************************************************************************)
(* Instances of SchemaSync for TLC whose workers may be exchanged.         *)
(***************************************************************************)
EXTENDS SchemaSync, TLC

MCSymmetry == Permutations(Workers)

=============================================================================
