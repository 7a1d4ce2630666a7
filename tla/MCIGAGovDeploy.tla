--------------------------- MODULE MCIGAGovDeploy ---------------------------
(* Small instances of IGAGovDeploy. *)
EXTENDS IGAGovDeploy, TLC

CONSTANTS s1, s2, w1, w2, d1, d2

\* Two slots, each in a process of its own.
ProcessOf == [s \in Slot |-> IF s = s1 THEN w1 ELSE w2]

\* The two processes, slot and all, are interchangeable.
ProcessSymmetry == {[x \in {s1, s2, w1, w2} |-> CASE x = s1 -> s2 [] x = s2 -> s1
                                                  [] x = w1 -> w2 [] x = w2 -> w1]}

\* So are the deployments.
DeploymentSymmetry == Permutations(Dep)

\* Create the policy, attach it to the role.
CreateAndAttach == <<{"policy"}, {"boundary"}>>

\* Create the policy only.
CreateOnly == <<{"policy"}>>

\* A new policy version, then its tags, which no read shows.
VersionAndTag == <<{"policy"}, {}>>
=============================================================================
