--------------------------- MODULE IGAGovClassify ---------------------------
(***************************************************************************)
(* The direct-plan classifier of internal/igagov/recover.go: where in the  *)
(* op order a live read places a plan, and what a read says about an op    *)
(* whose outcome is unknown.                                               *)
(*                                                                         *)
(* A plan is the function eff from its ops 1..n to the facts each moves to *)
(* its after value (opEffects).  A read is the set of changing facts it    *)
(* shows at their after value, and whether some fact shows neither value   *)
(* (a change by someone else).  Positions count ops: position k is "the    *)
(* first k ops ran", the code's NextOp.                                    *)
(***************************************************************************)
EXTENDS Integers, FiniteSets

Conflict == -1

OpObservable(eff, op) == eff[op] # {}

\* The facts at their after value once the first k ops ran.
PrefixState(eff, k) == UNION {eff[i] : i \in {j \in DOMAIN eff : j <= k}}

Positions(eff) == {0} \cup DOMAIN eff

\* Mutant: the prefixes stop before the whole plan.
MatchingBelow(eff, facts) == {k \in Positions(eff) : k + 1 \in DOMAIN eff /\ PrefixState(eff, k) = facts}

\* The prefixes of the plan that explain a read.
Matching(eff, facts) == {k \in Positions(eff) : PrefixState(eff, k) = facts}

\* Mutant: the last matching prefix instead of the first.
NextOpLast(eff, facts, outside) ==
  IF outside \/ Matching(eff, facts) = {} THEN Conflict
  ELSE CHOOSE k \in Matching(eff, facts) : \A m \in Matching(eff, facts) : m <= k

\* classifyObserved: the first prefix that explains the read, or a conflict.
NextOp(eff, facts, outside) ==
  IF outside \/ Matching(eff, facts) = {} THEN Conflict
  ELSE CHOOSE k \in Matching(eff, facts) : \A m \in Matching(eff, facts) : k <= m

\* Mutant: the state after the op taken one op too early.
ResolveUnknownOpEarly(eff, op, facts, outside) ==
  CASE NextOp(eff, facts, outside) = Conflict -> "conflict"
    [] ~OpObservable(eff, op)                 -> "unobservable"
    [] facts = PrefixState(eff, op - 1)       -> "applied"
    [] facts = PrefixState(eff, op - 2)       -> "not_applied"
    [] OTHER                                  -> "conflict"

\* ResolveUnknownOp: what a read says of an op no later op of which ran.
ResolveUnknownOp(eff, op, facts, outside) ==
  IF NextOp(eff, facts, outside) = Conflict THEN "conflict"
  ELSE IF ~OpObservable(eff, op) THEN "unobservable"
  ELSE IF facts = PrefixState(eff, op) THEN "applied"
  ELSE IF facts = PrefixState(eff, op - 1) THEN "not_applied"
  ELSE "conflict"

\* Every plan the compiler writes moves each fact with one op only.
OwnFacts(eff) == \A i, j \in DOMAIN eff : i # j => eff[i] \cap eff[j] = {}
=============================================================================
