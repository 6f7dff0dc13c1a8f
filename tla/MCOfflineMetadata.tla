-------------------------- MODULE MCOfflineMetadata --------------------------
(***************************************************************************)
(* Instances of OfflineMetadata for TLC: two tables in one schema, of      *)
(* which the second may lose its column, or get one whose name refers to   *)
(* the id of the first.                                                    *)
(***************************************************************************)
EXTENDS OfflineMetadata, TLC

CONSTANTS db, s1, t1, t2, id1, name2, t1_id

MCParent == (s1 :> db) @@ (t1 :> s1) @@ (t2 :> s1)
              @@ (id1 :> t1) @@ (name2 :> t2) @@ (t1_id :> t2)
MCRefersTo == [c \in Columns |-> IF c = t1_id THEN {t1} ELSE {}]
MCDeclaredKeys == {<<t1_id, id1>>}
MCSymmetry == Permutations(Requests)

=============================================================================
