------------------------- MODULE IGAGovResumeProofs -------------------------
(***************************************************************************)
(* The classifier's promises for every plan, whatever its length and its   *)
(* facts.  They rest on the plan's ops moving facts of their own, and on   *)
(* NextOp being the FIRST prefix that explains a read.                     *)
(***************************************************************************)
EXTENDS IGAGovResume, WellFoundedInduction, TLAPS

\* A set of positions has a least one, so the CHOOSE of NextOp picks it.
LEMMA LeastPosition ==
  ASSUME NEW S \in SUBSET Nat, S # {}
  PROVE  \E k \in S : \A m \in S : k <= m
<1>1. IsWellFoundedOn(OpToRel(<, Nat), Nat)
  BY NatLessThanWellFounded
<1>2. PICK k \in S : \A m \in S : ~(<<m, k>> \in OpToRel(<, Nat))
  BY <1>1, WFMin
<1>3. \A m \in S : ~(m < k)
  BY <1>2 DEF OpToRel
<1> QED
  BY <1>3

\* The shape of a plan.
LEMMA PlanShape ==
  ASSUME NEW p \in Plan
  PROVE  /\ \E n \in Nat : DOMAIN p = 1 .. n
         /\ Positions(p) \in SUBSET Nat
         /\ OwnFacts(p)
BY ResumeConstants DEF Plan, Positions

\* NextOp of a read some prefix explains: the first such prefix.
LEMMA NextOpIsFirst ==
  ASSUME NEW p \in Plan, NEW facts, NEW r \in Matching(p, facts)
  PROVE  /\ NextOp(p, facts, FALSE) \in Matching(p, facts)
         /\ NextOp(p, facts, FALSE) <= r
         /\ NextOp(p, facts, FALSE) # Conflict
<1>1. Matching(p, facts) \in SUBSET Nat /\ Matching(p, facts) # {}
  BY PlanShape DEF Matching
<1>2. \E k \in Matching(p, facts) : \A m \in Matching(p, facts) : k <= m
  BY <1>1, LeastPosition
<1> DEFINE least == CHOOSE k \in Matching(p, facts) : \A m \in Matching(p, facts) : k <= m
<1>3. NextOp(p, facts, FALSE) = least
  BY <1>1 DEF NextOp
<1>4. least \in Matching(p, facts) /\ \A m \in Matching(p, facts) : least <= m
  BY <1>2
<1> HIDE DEF least
<1>5. least \in Matching(p, facts) /\ least <= r /\ least # Conflict
  BY <1>1, <1>4 DEF Conflict
<1> QED
  BY <1>3, <1>5

\* A prefix shows what shorter ones show.
LEMMA PrefixGrows ==
  ASSUME NEW p \in Plan, NEW a \in Positions(p), NEW b \in Positions(p), a <= b
  PROVE  PrefixState(p, a) \subseteq PrefixState(p, b)
<1>1. PICK n \in Nat : DOMAIN p = 1 .. n
  BY PlanShape
<1>2. {j \in DOMAIN p : j <= a} \subseteq {j \in DOMAIN p : j <= b}
  BY <1>1, PlanShape
<1> QED
  BY <1>2 DEF PrefixState

\* An op's facts are shown by the prefixes that contain it and by no other.
LEMMA OpShowsInPrefix ==
  ASSUME NEW p \in Plan, NEW o \in DOMAIN p, NEW k \in Positions(p)
  PROVE  /\ o <= k => p[o] \subseteq PrefixState(p, k)
         /\ k < o  => p[o] \cap PrefixState(p, k) = {}
<1>1. PICK n \in Nat : DOMAIN p = 1 .. n
  BY PlanShape
<1>2. k \in Nat /\ OwnFacts(p)
  BY PlanShape
<1>3. ASSUME o <= k PROVE p[o] \subseteq PrefixState(p, k)
  BY <1>3 DEF PrefixState
<1>4. ASSUME k < o, NEW j \in DOMAIN p, j <= k PROVE p[o] \cap p[j] = {}
  BY <1>1, <1>2, <1>4 DEF OwnFacts
<1>5. ASSUME k < o PROVE p[o] \cap PrefixState(p, k) = {}
  BY <1>4, <1>5 DEF PrefixState
<1> QED
  BY <1>3, <1>5

-----------------------------------------------------------------------------
\* eff and ran have their types in every reachable state of the resume model.
THEOREM TypeCorrect == Spec => []TypeOK
<1>1. Init => TypeOK
  BY DEF Init, TypeOK, Positions
<1>2. TypeOK /\ [RunOp]_vars => TypeOK'
  BY DEF TypeOK, RunOp, vars, Positions
<1> QED
  BY <1>1, <1>2, PTL DEF Spec

\* Classify never places a run past an op that did not run, whatever part of the
\* effects the read shows: a longer matching prefix would make the prefix that
\* ran match too, and that one comes first.
THEOREM NoOpSkipped == Spec => []ResumeNeverSkips
<1>1. TypeOK => ResumeNeverSkips
  <2> SUFFICES ASSUME TypeOK, NEW facts \in SUBSET PrefixState(eff, ran)
               PROVE  NextOp(eff, facts, FALSE) <= ran
    BY DEF ResumeNeverSkips
  <2>1. eff \in Plan /\ ran \in Positions(eff) /\ ran \in Nat
    BY PlanShape DEF TypeOK
  <2>2. CASE Matching(eff, facts) = {}
    BY <2>1, <2>2 DEF NextOp, Conflict
  <2>3. CASE Matching(eff, facts) # {}
    <3>1. PICK m \in Matching(eff, facts) : TRUE
      BY <2>3
    <3>2. m \in Positions(eff) /\ m \in Nat /\ PrefixState(eff, m) = facts
      BY <2>1, PlanShape DEF Matching
    <3> DEFINE k == NextOp(eff, facts, FALSE)
    <3>3. k <= m /\ k \in Nat
      BY <2>1, NextOpIsFirst, PlanShape DEF Matching
    <3>4. ran < m => ran \in Matching(eff, facts)
      <4> SUFFICES ASSUME ran < m PROVE PrefixState(eff, ran) = facts
        BY <2>1 DEF Matching
      <4>1. ran <= m
        BY <2>1, <3>2
      <4>2. PrefixState(eff, ran) \subseteq PrefixState(eff, m)
        BY <2>1, <3>2, <4>1, PrefixGrows
      <4> QED
        BY <3>2, <4>2
    <3>5. ran < m => k <= ran
      BY <2>1, <3>4, NextOpIsFirst
    <3> HIDE DEF k
    <3>6. k <= ran
      BY <2>1, <3>2, <3>3, <3>5
    <3> QED
      BY <3>6 DEF k
  <2> QED
    BY <2>2, <2>3
<1> QED
  BY <1>1, TypeCorrect, PTL

\* On a full read Classify names a position, and the ops between it and the last
\* one that ran are ops no read can see: an op with facts of its own would tell
\* the two prefixes apart.
THEOREM OnlyUnseenRepeated == Spec => []ResumeRepeatsOnlyUnseen
<1>1. TypeOK => ResumeRepeatsOnlyUnseen
  <2> SUFFICES ASSUME TypeOK PROVE ResumeRepeatsOnlyUnseen
    OBVIOUS
  <2> DEFINE k == NextOp(eff, PrefixState(eff, ran), FALSE)
  <2>1. eff \in Plan /\ ran \in Positions(eff) /\ ran \in Matching(eff, PrefixState(eff, ran))
    BY DEF TypeOK, Matching
  <2>2. k \in Positions(eff) /\ PrefixState(eff, k) = PrefixState(eff, ran)
    BY <2>1, NextOpIsFirst DEF Matching
  <2> HIDE DEF k
  <2>3. ASSUME NEW o \in DOMAIN eff, k < o, o <= ran PROVE ~OpObservable(eff, o)
    <3>1. eff[o] \subseteq PrefixState(eff, ran)
      BY <2>1, <2>3, OpShowsInPrefix
    <3>2. eff[o] \cap PrefixState(eff, k) = {}
      BY <2>1, <2>2, <2>3, OpShowsInPrefix
    <3> QED
      BY <2>2, <3>1, <3>2 DEF OpObservable
  <2> QED
    BY <2>2, <2>3 DEF k, ResumeRepeatsOnlyUnseen
<1> QED
  BY <1>1, TypeCorrect, PTL

\* ResolveUnknownOp is right about an observable op without an answer: applied
\* when it ran last, not_applied when it would be next.
THEOREM UnknownIsDecided == Spec => []UnknownResolved
<1>1. TypeOK => UnknownResolved
  <2> SUFFICES ASSUME TypeOK, NEW op \in DOMAIN eff, op \in {ran, ran + 1}, OpObservable(eff, op)
               PROVE  ResolveUnknownOp(eff, op, PrefixState(eff, ran), FALSE)
                        = IF op = ran THEN "applied" ELSE "not_applied"
    BY DEF UnknownResolved
  <2>1. eff \in Plan /\ ran \in Positions(eff) /\ ran \in Nat /\ ran \in Matching(eff, PrefixState(eff, ran))
    BY PlanShape DEF TypeOK, Matching
  <2>2. NextOp(eff, PrefixState(eff, ran), FALSE) # Conflict
    BY <2>1, NextOpIsFirst
  <2>3. CASE op = ran
    BY <2>2, <2>3 DEF ResolveUnknownOp
  <2>4. CASE op = ran + 1
    <3>1. op \in Positions(eff) /\ op - 1 = ran /\ op # ran /\ ran < op
      BY <2>1, <2>4 DEF Positions
    <3>2. eff[op] \cap PrefixState(eff, ran) = {} /\ eff[op] \subseteq PrefixState(eff, op)
      BY <2>1, <3>1, OpShowsInPrefix
    <3>3. PrefixState(eff, ran) # PrefixState(eff, op)
      BY <3>2 DEF OpObservable
    <3> QED
      BY <2>2, <3>1, <3>3 DEF ResolveUnknownOp
  <2> QED
    BY <2>3, <2>4
<1> QED
  BY <1>1, TypeCorrect, PTL
=============================================================================
