--------------------------- MODULE MCAnalyzerJobs ---------------------------
(* Instances of AnalyzerJobs for TLC. *)
EXTENDS AnalyzerJobs, TLC

CONSTANTS p1, p2

Projects1 == {p1}
Projects2 == {p1, p2}
PhpStanOnly == {"phpstan"}
BothAnalyzers == {"phpstan", "psalm"}

AnyExit  == {"json", "junk", "empty"}

\* Bounds. The second project competes for the workers and does nothing else:
\* its documents stay closed and its runs leave JSON. And there are two saves,
\* or a save and a restart.
Rival == /\ open \subseteq {p1}
         /\ \A a \in Enabled : job[<<a, p2>>].exit \in {"alive", "json"}
Few   == restarts + saved[p1] <= 2

=============================================================================
