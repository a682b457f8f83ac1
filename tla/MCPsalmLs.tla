------------------------------ MODULE MCPsalmLs ------------------------------
(* Instances of PsalmLs for TLC. *)
EXTENDS PsalmLs

CONSTANTS d1, d2

OneDoc  == {d1}
TwoDocs == {d1, d2}
=============================================================================
