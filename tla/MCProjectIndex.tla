--------------------------- MODULE MCProjectIndex ---------------------------
(* Instances of ProjectIndex for TLC: two files, one in each folder, that may *)
(* both declare one symbol; the first may declare one of its own instead.     *)
EXTENDS ProjectIndex

CONSTANTS f1, f2, own1, shared

TwoFiles   == {f1, f2}
FirstFile  == {f1}
TwoSymbols == {own1, shared}

\* f1 is the only file that changes; f2 holds what f1 may declare, too.
RivalTexts == f1 :> {{own1}, {shared}} @@ f2 :> {{shared}}
=============================================================================
