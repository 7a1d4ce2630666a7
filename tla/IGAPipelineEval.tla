-------------------------- MODULE IGAPipelineEval ---------------------------
(***************************************************************************)
(* The transactions of a projection and of its evaluation preserve the     *)
(* invariant of IGAPipeline.                                               *)
(***************************************************************************)
EXTENDS IGAPipelineInv

USE DEF NoRun

\* A step that changes only the evaluation of a run that published and where its
\* projector is: a completed evaluation shows what the run published.
LEMMA Evaluates ==
  ASSUME Inv, NEW p \in Projector, NEW r \in Run, runs[r].status = "published",
         evals' \in [Run -> [status : EvalStatus, read : Nat]],
         \A q \in Run : q # r => evals'[q] = evals[q],
         evals'[r].status = "complete" => evals'[r].read = frozen[r],
         UNCHANGED <<runs, older, jobs, bar, wk, inv, frozen, gens, marks, revs, faults>>,
         pj' \in [Projector -> ProjectorState], ProjectorInv(p)',
         \A q \in Projector : q # p => pj'[q] = pj[q]
  PROVE  Inv'
<1>0. Basics
  BY Typed
<1>1. TypeOK'
  BY DEF Inv, TypeOK
<1>2. LeaseInv' /\ BarrierInv' /\ GenerationInv' /\ LastInv'
  BY DEF Inv, LeaseInv, BarrierInv, JobHoldsBarrier, GenerationInv, LastInv, Revealed
<1>3. ReadInv'
  BY <1>0 DEF Basics, Inv, ReadInv, ReadsWhatWasPublished
<1>4. \A w \in Worker : WorkerInv(w)'
  BY DEF Inv, WorkerInv, Scanning, OwnsRun
<1>5. ASSUME NEW q \in Projector PROVE ProjectorInv(q)'
  <2>1. ProjectorInv(q) /\ (q # p => pj'[q] = pj[q])
    BY DEF Inv
  <2> QED BY <2>1 DEF ProjectorInv, OwnsPass, OwnsJob, Holds
<1> QED BY <1>1, <1>2, <1>3, <1>4, <1>5 DEF Inv

\* One evaluation changes its status.
LEMMA EvalStatusEffect ==
  ASSUME TypeOK, NEW r \in Run, NEW s \in EvalStatus, evals' = [evals EXCEPT ![r].status = s]
  PROVE  /\ evals' \in [Run -> [status : EvalStatus, read : Nat]]
         /\ evals'[r].status = s /\ \A q \in Run : q # r => evals'[q] = evals[q]
BY Zenon DEF TypeOK

\* A pass under its barrier is about a run that published.
LEMMA PassPublished ==
  ASSUME Inv, NEW p \in Projector, OwnsPass(p)
  PROVE  bar.state = "projecting" /\ bar.run = pj[p].run /\ runs[pj[p].run].status = "published"
BY DEF OwnsPass, Holds, Inv, BarrierInv

\* evaluate's first transaction writes under the fence of the pass.
LEMMA DecideInv == ASSUME Inv, NEW p \in Projector, Decide(p) PROVE Inv'
<1> DEFINE r == pj[p].run
<1>0. r \in Run /\ UNCHANGED <<runs, older, jobs, bar, wk, inv, frozen, gens, marks, revs, faults>>
  BY DEF Decide, rows, Inv, ProjectorInv
<1>1. /\ pj' \in [Projector -> ProjectorState] /\ ProjectorInv(p)'
      /\ \A q \in Projector : q # p => pj'[q] = pj[q]
  <2>1. pj[p].pc # "idle" /\ \E pc \in Between : ProjectorAt(p, pc)
    BY DEF Decide, Between
  <2> QED BY <1>0, <2>1, VersionGrows, ProjectorStops
<1>2. CASE UNCHANGED evals
  <2>1. Quiet
    BY <1>0, <1>2, SameRows DEF Inv, TypeOK, data
  <2> QED BY <1>0, <1>1, <2>1, QuietStep, Zenon DEF Inv, TypeOK
<1>3. ASSUME NEW s \in {"superseded", "running"}, OwnsPass(p), evals' = [evals EXCEPT ![r].status = s]
      PROVE  Inv'
  <2>1. runs[r].status = "published"
    BY <1>3, PassPublished
  <2>2. /\ evals' \in [Run -> [status : EvalStatus, read : Nat]]
        /\ evals'[r].status = s /\ \A q \in Run : q # r => evals'[q] = evals[q]
    BY <1>0, <1>3, EvalStatusEffect, Zenon DEF Inv, EvalStatus
  <2> HIDE DEF r
  <2> QED BY <1>0, <1>1, <2>1, <2>2, Evaluates
<1> QED BY <1>2, <1>3 DEF Decide

\* A failed evaluation is recorded under the fence of the pass.
LEMMA FailEvaluationInv == ASSUME Inv, NEW p \in Projector, FailEvaluation(p) PROVE Inv'
<1> DEFINE r == pj[p].run
<1>0. r \in Run /\ UNCHANGED <<runs, older, jobs, bar, wk, inv, frozen, gens, marks, revs, faults>>
  BY DEF FailEvaluation, rows, Inv, ProjectorInv
<1>1. /\ pj' \in [Projector -> ProjectorState] /\ ProjectorInv(p)'
      /\ \A q \in Projector : q # p => pj'[q] = pj[q]
  BY <1>0, VersionGrows, ProjectorStops DEF FailEvaluation, Between
<1>2. CASE UNCHANGED evals
  <2>1. Quiet
    BY <1>0, <1>2, SameRows DEF Inv, TypeOK, data
  <2> QED BY <1>0, <1>1, <2>1, QuietStep DEF Inv, TypeOK
<1>3. CASE OwnsPass(p) /\ evals' = [evals EXCEPT ![r].status = "failed"]
  <2>1. runs[r].status = "published"
    BY <1>3, PassPublished
  <2>2. /\ evals' \in [Run -> [status : EvalStatus, read : Nat]]
        /\ evals'[r].status = "failed" /\ \A q \in Run : q # r => evals'[q] = evals[q]
    BY <1>0, <1>3, EvalStatusEffect, Zenon DEF Inv, EvalStatus
  <2> HIDE DEF r
  <2> QED BY <1>0, <1>1, <2>1, <2>2, Evaluates
<1> QED BY <1>2, <1>3 DEF FailEvaluation

\* writeTx writes what was read under the barrier.
LEMMA WriteEvaluationInv == ASSUME Inv, NEW p \in Projector, WriteEvaluation(p) PROVE Inv'
<1> DEFINE r == pj[p].run
<1>0. r \in Run /\ UNCHANGED <<runs, older, jobs, bar, wk, inv, frozen, gens, marks, revs, faults>>
  BY DEF WriteEvaluation, rows, Inv, ProjectorInv
<1>1. /\ pj' \in [Projector -> ProjectorState] /\ ProjectorInv(p)'
      /\ \A q \in Projector : q # p => pj'[q] = pj[q]
  BY <1>0, VersionGrows, ProjectorStops DEF WriteEvaluation, Between
<1>2. CASE UNCHANGED evals
  <2>1. Quiet
    BY <1>0, <1>2, SameRows DEF Inv, TypeOK, data
  <2> QED BY <1>0, <1>1, <2>1, QuietStep DEF Inv, TypeOK
<1>3. CASE OwnsPass(p) /\ evals' = [evals EXCEPT ![r] = [status |-> "complete", read |-> pj[p].read]]
  <2>1. runs[r].status = "published"
    BY <1>3, PassPublished
  <2>2. pj[p].read = frozen[r] /\ frozen[r] \in Nat
    BY <1>0, <1>3 DEF WriteEvaluation, Inv, ProjectorInv, TypeOK
  <2>3. /\ evals' \in [Run -> [status : EvalStatus, read : Nat]]
        /\ evals'[r].read = frozen[r] /\ \A q \in Run : q # r => evals'[q] = evals[q]
    BY <1>0, <1>3, <2>2 DEF Inv, TypeOK, EvalStatus
  <2> HIDE DEF r
  <2> QED BY <1>0, <1>1, <2>1, <2>3, Evaluates
<1> QED BY <1>2, <1>3 DEF WriteEvaluation

\* The revision shows what was read under the barrier, once per run.
LEMMA ProjectInv == ASSUME Inv, NEW p \in Projector, Project(p) PROVE Inv'
<1> DEFINE r == pj[p].run
           c == ConnectorOf[r]
           g == runs[r].generation
           new == [run |-> r, read |-> pj[p].read]
<1>0. Basics /\ r \in Run /\ UNCHANGED <<runs, older, jobs, bar, wk, inv, frozen, gens, faults>>
  BY Typed DEF Project, rows, Inv, ProjectorInv
<1>1. /\ pj' \in [Projector -> ProjectorState] /\ ProjectorInv(p)'
      /\ \A q \in Projector : q # p => pj'[q] = pj[q]
  <2>1. pj[p].pc # "idle" /\ \E pc \in Between : ProjectorAt(p, pc)
    BY DEF Project, Between
  <2> QED BY <1>0, <2>1, VersionGrows, ProjectorStops
<1>2. CASE UNCHANGED <<revs, marks, evals>>
  <2>1. Quiet
    BY <1>0, <1>2, SameRows DEF Inv, TypeOK, data
  <2> QED BY <1>0, <1>1, <2>1, QuietStep, Zenon DEF Inv, TypeOK
<1>3. CASE /\ OwnsPass(p) /\ ~Revealed(r) /\ g > marks[c]
           /\ revs' = Append(revs, new)
           /\ marks' = [marks EXCEPT ![c] = g]
           /\ evals' = [evals EXCEPT ![r].status = "running"]
  <2>1. bar.state = "projecting" /\ bar.run = r /\ runs[r].status = "published" /\ gens[c] = g
    BY <1>3, PassPublished DEF Inv, LastInv
  <2>2. pj[p].read = frozen[r] /\ frozen[r] \in Nat
    BY <1>0, <1>3 DEF Project, Inv, ProjectorInv, TypeOK
  <2>3. c \in Connector /\ g \in Nat
    BY <1>0 DEF Basics
  <2>4. /\ marks' \in [Connector -> Nat] /\ marks'[c] = g
        /\ \A d \in Connector : d # c => marks'[d] = marks[d]
    BY <1>3, <2>3 DEF Inv, TypeOK
  <2>5. /\ evals' \in [Run -> [status : EvalStatus, read : Nat]]
        /\ evals'[r].status = "running" /\ \A q \in Run : q # r => evals'[q] = evals[q]
    BY <1>0, <1>3, EvalStatusEffect, Zenon DEF Inv, EvalStatus
  <2>6. /\ revs' \in Seq([run : Run, read : Nat])
        /\ \A i \in DOMAIN revs' : (i \in DOMAIN revs /\ revs'[i] = revs[i]) \/ revs'[i] = new
        /\ \A i \in DOMAIN revs : i \in DOMAIN revs' /\ revs'[i] = revs[i]
        /\ \E i \in DOMAIN revs' : revs'[i] = new
    <3> DEFINE S == [run : Run, read : Nat]
    <3>1. revs \in Seq(S) /\ new \in S /\ revs' = Append(revs, new)
      BY <1>0, <1>3, <2>2 DEF Inv, TypeOK
    <3> HIDE DEF S, new
    <3>2. revs' \in Seq(S) /\ Len(revs') = Len(revs) + 1 /\ revs'[Len(revs) + 1] = new
          /\ \A i \in 1 .. Len(revs) : revs'[i] = revs[i]
      BY <3>1
    <3>3. DOMAIN revs = 1 .. Len(revs) /\ DOMAIN revs' = 1 .. Len(revs) + 1 /\ Len(revs) \in Nat
      BY <3>1, <3>2
    <3> QED BY <3>2, <3>3 DEF S
  <2>7. new.run = r /\ new.read = frozen[r]
    BY <2>2
  <2> HIDE DEF r, c, g, new
  <2>8. TypeOK'
    BY <1>0, <1>1, <2>4, <2>5, <2>6, Zenon DEF Inv, TypeOK
  <2>9. LeaseInv' /\ BarrierInv'
    BY <1>0 DEF Inv, LeaseInv, BarrierInv, JobHoldsBarrier
  <2>10. ReadInv'
    <3>1. ASSUME NEW i \in DOMAIN revs'
          PROVE  revs'[i].read = frozen[revs'[i].run] /\ runs[revs'[i].run].status = "published"
      BY <2>1, <2>6, <2>7 DEF Inv, ReadInv, ReadsWhatWasPublished
    <3>2. \A q \in Run : /\ evals'[q].status = "complete" => evals'[q].read = frozen[q]
                         /\ evals'[q].status # "none" => runs[q].status = "published"
      BY <2>1, <2>5 DEF Inv, ReadInv, ReadsWhatWasPublished
    <3> QED BY <1>0, <3>1, <3>2 DEF Inv, ReadInv, ReadsWhatWasPublished
  <2>11. GenerationInv'
    BY <1>0, <2>1, <2>3, <2>4 DEF Basics, Inv, GenerationInv, SameConnector, c, g
  <2>12. LastInv'
    BY <1>0, <2>1, <2>6, <2>7 DEF Inv, LastInv, Revealed
  <2>13. \A w \in Worker : WorkerInv(w)'
    BY <1>0 DEF Inv, WorkerInv, Scanning, OwnsRun
  <2>14. ASSUME NEW q \in Projector PROVE ProjectorInv(q)'
    <3>1. ProjectorInv(q) /\ (q # p => pj'[q] = pj[q])
      BY <1>1 DEF Inv
    <3> QED BY <1>0, <1>1, <3>1 DEF ProjectorInv, OwnsPass, OwnsJob, Holds
  <2> QED BY <2>8, <2>9, <2>10, <2>11, <2>12, <2>13, <2>14 DEF Inv
<1> QED BY <1>2, <1>3 DEF Project
=============================================================================
