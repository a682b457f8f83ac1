---------------------------- MODULE MCTypeQueries ----------------------------
(* Instances of TypeQueries for TLC. *)
EXTENDS TypeQueries

CONSTANTS e1, e2

TwoExprs == {e1, e2}
OneExpr  == {e1}
SameLine == [e \in Exprs |-> 7]
=============================================================================
