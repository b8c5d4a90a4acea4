----------------------------- MODULE MCImporter -----------------------------
(* Importer on small instances. *)
EXTENDS Importer, TLC

CONSTANTS f1, f2, l1, d1

\* One file in a folder, one file and one link beside it.
SmallHome == [n \in Nodes |-> IF n = f1 THEN d1 ELSE Nil]
=============================================================================
