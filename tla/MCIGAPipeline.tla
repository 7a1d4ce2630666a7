--------------------------- MODULE MCIGAPipeline ---------------------------
(* The pipeline for TLC: which connector each of the first runs scans.     *)
EXTENDS IGAPipeline, TLC

CONSTANTS c1, c2

\* The second connector's scan waits behind the first one's.
TwoAccounts == [r \in Run |-> IF r = 2 THEN c2 ELSE c1]

\* Two scans of one connector.
OneAccount == [r \in Run |-> c1]

Interchangeable == Permutations(Worker) \cup Permutations(Projector)
=============================================================================
