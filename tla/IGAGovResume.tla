---------------------------- MODULE IGAGovResume ----------------------------
(***************************************************************************)
(* A direct plan run op by op, and what the classifier says of a live read *)
(* taken at any point: where a run that takes over resumes, and how an op  *)
(* without an answer is resolved.  The plan is any sequence of ops that    *)
(* move facts of their own; some move none a read can see.                 *)
(***************************************************************************)
EXTENDS IGAGovClassify

CONSTANTS Fact,   \* keys of the facts that change
          MaxOps  \* bound: ops of a plan

ASSUME ResumeConstants == MaxOps \in Nat

VARIABLES eff, \* the plan
          ran  \* ops AWS has applied

vars == <<eff, ran>>

Plan == {p \in UNION {[1 .. n -> SUBSET Fact] : n \in 0 .. MaxOps} : OwnFacts(p)}

TypeOK == eff \in Plan /\ ran \in Positions(eff)

Init == eff \in Plan /\ ran = 0

\* Mutant: the end of the plan is not noticed.
RunOpPastEnd == ran' = ran + 1 /\ UNCHANGED eff

\* AWS applies the next op.
RunOp ==
  /\ ran + 1 \in DOMAIN eff
  /\ ran' = ran + 1
  /\ UNCHANGED eff

Spec == Init /\ [][RunOp]_vars

-----------------------------------------------------------------------------
\* A run resumes (Classify's NextOp) at an op that follows only ops that ran,
\* even when the read misses effects not visible yet.
ResumeNeverSkips ==
  \A facts \in SUBSET PrefixState(eff, ran) : NextOp(eff, facts, FALSE) <= ran

\* On a full read it is never a conflict, and what it sends again moves no fact a
\* read can see (OpObservable).
ResumeRepeatsOnlyUnseen ==
  LET k == NextOp(eff, PrefixState(eff, ran), FALSE) IN
  k \in Positions(eff) /\ \A o \in DOMAIN eff : k < o /\ o <= ran => ~OpObservable(eff, o)

\* ResolveUnknownOp tells the state before the op from the state after it, for the
\* op that ran last and for the one that would be next.
UnknownResolved ==
  \A op \in DOMAIN eff : op \in {ran, ran + 1} /\ OpObservable(eff, op) =>
    ResolveUnknownOp(eff, op, PrefixState(eff, ran), FALSE) = IF op = ran THEN "applied" ELSE "not_applied"
=============================================================================
