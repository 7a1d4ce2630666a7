-------------------------- MODULE MCPolicyJobQueue --------------------------
(* Small instances of PolicyJobQueue for TLC: s1 and s2 are slots of one    *)
(* process, where only lease_version tells two claims apart; s3 is a slot   *)
(* of another.                                                              *)
EXTENDS PolicyJobQueue, TLC

CONSTANTS s1, s2, s3, w1, w2, r1, j1, j2, j3

ProcessOf == [s \in Slot |-> IF s = s3 THEN w2 ELSE w1]

\* Row ids are interchangeable.
RowSymmetry == Permutations(JobId)
=============================================================================
