------------------------------- MODULE MCTaskQ -------------------------------
(* Instances of TaskQ for TLC.                                             *)
EXTENDS TaskQ, TLC

CONSTANTS wk1, wk2, c1, c2, x1, x2

\* x1 is added by one client only, x2 by both.
MCAdders == (x1 :> {c1}) @@ (x2 :> {c1, c2})
OneAdder == (x1 :> {c1})
\* The queue may be destroyed before its threads are made or after.
Orderly == {"deferred", "done", "none"}
\* The workers are interchangeable.
Symmetry == Permutations({wk1, wk2})
=============================================================================
