------------------------- MODULE IGAPipelineProofs --------------------------
(***************************************************************************)
(* Theorems about IGAPipeline, for any workers, projectors, connectors, runs *)
(* and ceilings: its safety properties, and that it implements the serial  *)
(* pipeline.  One inductive invariant, Inv, serves them all; the lemmas that *)
(* each action preserves it are in IGAPipelineScan and IGAPipelinePass.    *)
(***************************************************************************)
EXTENDS IGAPipelineHandOver, IGAPipelinePass, IGAPipelineEval

USE DEF NoRun

\* Nothing has happened yet.
LEMMA InitInv == Init => Inv
<1> SUFFICES ASSUME Init PROVE Inv
  OBVIOUS
<1> USE DEF Init
<1>1. TypeOK
  <2>1. runs \in [Run -> RunRow] /\ jobs \in [Run -> JobRow]
    BY DEF RunRow, JobRow, RunStatus, JobStatus
  <2>2. wk \in [Worker -> WorkerState] /\ pj \in [Projector -> ProjectorState] /\ bar \in Barrier
    BY DEF WorkerState, WorkerPc, ProjectorState, ProjectorPc, Barrier
  <2>3. evals \in [Run -> [status : EvalStatus, read : Nat]]
    BY DEF EvalStatus
  <2>4. revs \in Seq([run : Run, read : Nat])
    OBVIOUS
  <2>5. frozen \in [Run -> Nat] /\ gens \in [Connector -> Nat] /\ marks \in [Connector -> Nat]
    OBVIOUS
  <2>6. older \in SUBSET (Run \X Run) /\ inv \in Nat /\ faults \in Nat
    OBVIOUS
  <2> QED BY <2>1, <2>2, <2>3, <2>4, <2>5, <2>6, Zenon DEF TypeOK
<1>2. LeaseInv /\ BarrierInv /\ LastInv
  <2>1. NoRun \notin Run
    BY PipelineConstants DEF Run
  <2> QED BY <2>1 DEF LeaseInv, BarrierInv, JobHoldsBarrier, LastInv
<1>3. ReadInv
  BY DEF ReadInv, ReadsWhatWasPublished
<1>4. GenerationInv
  BY DEF GenerationInv, Live
<1>5. \A w \in Worker : WorkerInv(w)
  BY DEF WorkerInv, Scanning
<1>6. \A p \in Projector : ProjectorInv(p)
  BY DEF ProjectorInv
<1> QED BY <1>1, <1>2, <1>3, <1>4, <1>5, <1>6 DEF Inv

\* Every step preserves the invariant.
LEMMA NextInv == Inv /\ [Next]_vars => Inv'
<1> SUFFICES ASSUME Inv, [Next]_vars PROVE Inv'
  OBVIOUS
<1>1. ASSUME NEW w \in Worker, ScanStep(w) PROVE Inv'
  BY <1>1, ClaimInv, GiveUpInv, AcquireInv, RequeueRunInv, CommitScanInv, PublishInv, FailScanInv DEF ScanStep
<1>2. ASSUME NEW w \in Worker, Collect(w) \/ ScanError(w) \/ HeartbeatScan(w) \/ CrashWorker(w) PROVE Inv'
  BY <1>2, CollectInv, QuietWorker, QuietClock DEF Clock
<1>3. ASSUME NEW p \in Projector, PassStep(p) PROVE Inv'
  <2>1. CASE CompleteAndRelease(p) \/ AbandonAndRelease(p)
    BY <2>1, EndPassInv DEF CompleteAndRelease, AbandonAndRelease
  <2> QED BY <1>3, <2>1, HoldBarrierInv, RequeueJobInv, QuietProjector, ProjectInv, DecideInv, WriteEvaluationInv,
             FailKeepBarrierInv, RecoverInv DEF PassStep
<1>4. ASSUME NEW p \in Projector, \/ Suspect(p) \/ ProjectError(p) \/ FailEvaluation(p)
                                  \/ HeartbeatPass(p) \/ CrashProjector(p)
      PROVE  Inv'
  BY <1>4, SuspectInv, QuietProjector, FailEvaluationInv, QuietClock DEF Clock
<1>5. ASSUME NEW p \in Projector, NEW r \in Run, ClaimJob(p, r) PROVE Inv'
  BY <1>5, ClaimJobInv
<1>6. ASSUME NEW r \in Run, Enqueue(r) \/ LapseRun(r) \/ LapseJob(r) PROVE Inv'
  BY <1>6, EnqueueInv, QuietClock DEF Clock
<1>7. CASE ExpireBarrier
  BY <1>7, QuietClock DEF Clock
<1>8. CASE UNCHANGED vars
  <2>1. Quiet /\ UNCHANGED <<wk, pj>>
    BY <1>8, SameRows DEF vars, data, Inv, TypeOK
  <2> QED BY <2>1, QuietStep, Zenon DEF Inv, TypeOK
<1> QED BY <1>1, <1>2, <1>3, <1>4, <1>5, <1>6, <1>7, <1>8 DEF Next

\* The invariant holds in every reachable state.
THEOREM Invariant == Spec => []Inv
BY InitInv, NextInv, PTL DEF Spec

\* Every row keeps its type, whatever the workers and projectors do.
THEOREM TypeCorrect == Spec => []TypeOK
<1>1. Inv => TypeOK
  BY DEF Inv
<1> QED BY <1>1, Invariant, PTL

\* Whatever crashes or stalls, a revision and its evaluation show the inventory as the
\* publication of its run left it (Load, projectAndReconcile, writeTx).
THEOREM PublishedIsRead == Spec => []ReadsWhatWasPublished
<1>1. Inv => ReadsWhatWasPublished
  BY DEF Inv, ReadInv
<1> QED BY <1>1, Invariant, PTL

\* The barrier projects exactly the run whose job is open: it is neither lost nor kept
\* after the job (ToProjectingTx, ReleaseTx, AbandonTx).
THEOREM OpenJobHoldsBarrier == Spec => []JobHoldsBarrier
<1>1. Inv => JobHoldsBarrier
  BY DEF Inv, BarrierInv
<1> QED BY <1>1, Invariant, PTL

\* A pass that still owns its job and barrier is never refused as superseded (Load,
\* Project).
THEOREM PassIsCurrent == Spec => []NeverSuperseded
<1>1. Inv => NeverSuperseded
  BY DEF Inv, LastInv, NeverSuperseded, OwnsPass, Holds
<1> QED BY <1>1, Invariant, PTL

-----------------------------------------------------------------------------
\* The refinement.

Published(r) == runs[r].status = "published"

\* Nothing that the serial pipeline shows changes but what is listed.
KeepsDone == \A r \in Run : Published(r)' <=> Published(r)
KeepsBar == bar'.state = bar.state /\ bar'.run = bar.run

\* What the serial pipeline shows does not change.
LEMMA Stutter == ASSUME KeepsDone, KeepsBar, UNCHANGED <<inv, revs>> PROVE UNCHANGED Serial!vars
BY DEF KeepsDone, KeepsBar, Published, Serial!vars

\* The barrier becomes idle.
LEMMA EndStep ==
  ASSUME TypeOK, KeepsDone, bar.state # "idle", ToIdle, UNCHANGED <<inv, revs>>
  PROVE  Serial!Next
<1>1. bar'.state = "idle" /\ bar'.run = NoRun
  BY ToIdleEffect
<1>2. Serial!End
  BY <1>1 DEF KeepsDone, Published, Serial!End, Serial!NoRun
<1> QED BY <1>2 DEF Serial!Next

\* A row that was not published, and is not then.
LEMMA EndRunKeeps ==
  ASSUME TypeOK, NEW r \in Run, NEW s \in RunStatus \ {"published"}, EndRun(r, s), ~Published(r)
  PROVE  KeepsDone
BY EndRunEffect DEF KeepsDone, Published

\* A scan worker begins, publishes or ends a collection.
LEMMA ScanRefines == ASSUME Inv, NEW w \in Worker, ScanStep(w) PROVE [Serial!Next]_(Serial!vars)
<1> DEFINE r == wk[w].run
<1>0. Basics /\ TypeOK /\ (wk[w].pc # "idle" => r \in Run)
  BY Typed DEF Inv, WorkerInv
<1>1. ASSUME r \in Run, OwnsRun(w, r) PROVE ~Published(r)
  BY <1>1, OwnedIsRunning DEF Published
<1>2. CASE Claim(w)
  <2>1. PICK q \in Run : ClaimableRun(q) /\ runs'[q].status = "running" /\ \A z \in Run : z # q => runs'[z] = runs[z]
    BY <1>0, <1>2 DEF Claim, TypeOK
  <2>2. KeepsDone
    BY <2>1 DEF KeepsDone, Published, ClaimableRun
  <2> QED BY <1>2, <2>2, Stutter DEF Claim, KeepsBar, data
<1>3. CASE GiveUp(w)
  <2>1. r \in Run
    BY <1>0, <1>3 DEF GiveUp
  <2>2. KeepsDone
    <3>1. CASE OwnsRun(w, r) /\ EndRun(r, "failed")
      BY <1>0, <1>1, <2>1, <3>1, EndRunKeeps DEF RunStatus
    <3>2. CASE UNCHANGED runs
      BY <3>2 DEF KeepsDone, Published
    <3> QED BY <1>3, <3>1, <3>2 DEF GiveUp
  <2> QED BY <1>3, <2>2, Stutter DEF GiveUp, KeepsBar, data
<1>4. CASE Acquire(w)
  <2>1. r \in Run /\ KeepsDone /\ UNCHANGED <<inv, revs>>
    BY <1>0, <1>4 DEF Acquire, KeepsDone, Published, data
  <2>2. CASE UNCHANGED bar
    BY <2>1, <2>2, Stutter DEF KeepsBar
  <2>3. CASE Admits(r) /\ bar'.state = "collecting" /\ bar'.run = r
    <3>1. CASE bar.state = "idle"
      <4>1. Serial!Begin(r)
        BY <2>1, <2>3, <3>1 DEF KeepsDone, Published, Serial!Begin
      <4> QED BY <2>1, <4>1 DEF Serial!Next
    <3>2. CASE bar.state # "idle"
      BY <2>1, <2>3, <3>2, Stutter DEF Admits, KeepsBar
    <3> QED BY <3>1, <3>2
  <2> QED BY <1>4, <2>2, <2>3 DEF Acquire
<1>5. CASE RequeueRun(w)
  <2>1. r \in Run
    BY <1>0, <1>5 DEF RequeueRun
  <2>2. \/ OwnsRun(w, r) /\ runs'[r].status = "queued" /\ \A z \in Run : z # r => runs'[z] = runs[z]
        \/ UNCHANGED runs
    <3> DEFINE new == [runs[r] EXCEPT !.status = "queued", !.owner = None, !.lapsed = FALSE,
                                      !.attempts = Uncharged(runs[r].attempts)]
    <3>1. (OwnsRun(w, r) /\ runs' = [runs EXCEPT ![r] = new]) \/ UNCHANGED runs
      BY <1>5 DEF RequeueRun
    <3>2. runs[r] \in RunRow
      BY <1>0, <2>1 DEF TypeOK
    <3>3. new.status = "queued"
      BY <3>2 DEF RunRow
    <3> HIDE DEF new
    <3> QED BY <1>0, <2>1, <3>1, <3>3 DEF TypeOK
  <2>3. KeepsDone
    BY <1>1, <2>1, <2>2 DEF KeepsDone, Published
  <2> QED BY <1>5, <2>3, Stutter DEF RequeueRun, KeepsBar, data
<1>6. CASE CommitScan(w)
  BY <1>6, Stutter DEF CommitScan, rows, KeepsDone, KeepsBar, Published
<1>7. CASE Publish(w)
  <2>1. r \in Run /\ UNCHANGED <<inv, revs>>
    BY <1>0, <1>7 DEF Publish
  <2>2. CASE UNCHANGED <<runs, bar>>
    BY <2>1, <2>2, Stutter DEF KeepsDone, KeepsBar, Published
  <2>3. CASE /\ OwnsRun(w, r) /\ Holds("collecting", r, w, wk[w].version) /\ EndRun(r, "published")
             /\ bar'.state = "projecting" /\ bar'.run = r
    <3>1. /\ runs'[r].status = "published" /\ \A q \in Run : q # r => runs'[q] = runs[q]
      BY <1>0, <2>1, <2>3, EndRunEffect DEF RunStatus
    <3>2. ~Published(r) /\ bar.state = "collecting" /\ bar.run = r
      BY <1>1, <2>1, <2>3 DEF Holds
    <3>3. Serial!Publish
      BY <2>1, <2>3, <3>1, <3>2 DEF Serial!Publish, Published
    <3> QED BY <3>3 DEF Serial!Next
  <2> QED BY <1>7, <2>2, <2>3 DEF Publish
<1>8. CASE FailScan(w)
  <2>1. r \in Run /\ UNCHANGED <<inv, revs>>
    BY <1>0, <1>8 DEF FailScan, data
  <2>2. CASE UNCHANGED <<runs, bar>>
    BY <2>1, <2>2, Stutter DEF KeepsDone, KeepsBar, Published
  <2>3. CASE /\ OwnsRun(w, r) /\ Holds("collecting", r, w, wk[w].version) /\ EndRun(r, "failed") /\ ToIdle
    <3>1. KeepsDone
      BY <1>0, <1>1, <2>1, <2>3, EndRunKeeps DEF RunStatus
    <3> QED BY <1>0, <2>1, <2>3, <3>1, EndStep DEF Holds
  <2> QED BY <1>8, <2>2, <2>3 DEF FailScan
<1> QED BY <1>2, <1>3, <1>4, <1>5, <1>6, <1>7, <1>8 DEF ScanStep

\* The inventory write that checks only the run's lease is a write of the run that the barrier collects.
LEMMA CollectRefines == ASSUME Inv, NEW w \in Worker, Collect(w) PROVE Serial!Next
<1>1. wk[w].run \in Run /\ bar.state = "collecting" /\ bar.run = wk[w].run
  BY DEF Collect, Scanning, Inv, WorkerInv
<1>2. runs[bar.run].status = "running"
  BY <1>1, OwnedIsRunning DEF Collect
<1>3. Serial!Collect
  BY <1>1, <1>2 DEF Collect, rows, Serial!Collect
<1> QED BY <1>3 DEF Serial!Next

\* The end of a pass ends the projection.
LEMMA EndPassRefines ==
  ASSUME Inv, NEW p \in Projector, NEW s \in JobStatus, EndPass(p, s)
  PROVE  [Serial!Next]_(Serial!vars)
<1>0. TypeOK /\ KeepsDone /\ UNCHANGED <<inv, revs>>
  BY DEF EndPass, KeepsDone, Published, data, Inv
<1>1. CASE OwnsPass(p) /\ ToIdle
  BY <1>0, <1>1, EndStep DEF OwnsPass, Holds
<1>2. CASE UNCHANGED bar
  BY <1>0, <1>2, Stutter DEF KeepsBar
<1> QED BY <1>1, <1>2 DEF EndPass

\* The graph transaction reveals the inventory as it stands.
LEMMA ProjectRefines == ASSUME Inv, NEW p \in Projector, Project(p) PROVE [Serial!Next]_(Serial!vars)
<1> DEFINE r == pj[p].run
<1>0. UNCHANGED <<runs, bar, inv>>
  BY DEF Project, rows
<1>1. CASE UNCHANGED revs
  BY <1>0, <1>1, Stutter DEF KeepsDone, KeepsBar, Published
<1>2. CASE OwnsPass(p) /\ ~Revealed(r) /\ revs' = Append(revs, [run |-> r, read |-> pj[p].read])
  <2>1. bar.state = "projecting" /\ bar.run = r
    BY <1>2, PassPublished
  <2>2. pj[p].read = inv
    BY <1>2, <2>1 DEF Project, Inv, ProjectorInv, ReadInv
  <2>3. Serial!Reveal
    BY <1>0, <1>2, <2>1, <2>2 DEF Serial!Reveal, Revealed
  <2> QED BY <2>3 DEF Serial!Next
<1> QED BY <1>1, <1>2 DEF Project

\* Recovery ends a collection or a projection.
LEMMA RecoverRefines == ASSUME Inv, NEW p \in Projector, Recover(p) PROVE [Serial!Next]_(Serial!vars)
<1> DEFINE r == pj[p].run
<1>0. TypeOK /\ r \in Run /\ UNCHANGED <<inv, revs>>
  BY DEF Recover, data, Inv, ProjectorInv
<1>1. CASE UNCHANGED <<runs, bar>>
  BY <1>0, <1>1, Stutter DEF KeepsDone, KeepsBar, Published
<1>2. CASE Holds("projecting", r, None, pj[p].version) /\ ToIdle /\ UNCHANGED runs
  BY <1>0, <1>2, EndStep DEF Holds, KeepsDone, Published
<1>3. CASE Unreachable(p) /\ bar.version = pj[p].version /\ AbandonBarrier(p)
  <2>1. bar.state # "idle"
    BY <1>3 DEF Recover, Inv, ProjectorInv
  <2>2. KeepsDone
    <3>1. CASE runs[r].status \in Live
      BY <1>0, <1>3, <3>1, EndRunKeeps DEF AbandonBarrier, RunStatus, Live, Published
    <3>2. CASE runs[r].status \notin Live
      BY <1>3, <3>2 DEF AbandonBarrier, KeepsDone, Published
    <3> QED BY <3>1, <3>2
  <2> QED BY <1>0, <1>3, <2>1, <2>2, EndStep DEF AbandonBarrier
<1> QED BY <1>1, <1>2, <1>3 DEF Recover

\* Every step is a step of the serial pipeline, or none.
LEMMA NextRefines == Inv /\ [Next]_vars => [Serial!Next]_(Serial!vars)
<1> SUFFICES ASSUME Inv, [Next]_vars PROVE [Serial!Next]_(Serial!vars)
  OBVIOUS
<1>0. ASSUME UNCHANGED <<runs, bar, inv, revs>> PROVE UNCHANGED Serial!vars
  BY <1>0, Stutter DEF KeepsDone, KeepsBar, Published
<1>1. ASSUME NEW w \in Worker, ScanStep(w) \/ Collect(w) PROVE [Serial!Next]_(Serial!vars)
  BY <1>1, ScanRefines, CollectRefines
<1>2. ASSUME NEW w \in Worker, ScanError(w) \/ CrashWorker(w) PROVE UNCHANGED Serial!vars
  BY <1>0, <1>2 DEF ScanError, CrashWorker, rows, data
<1>3. ASSUME NEW p \in Projector, \/ RequeueJob(p) \/ Load(p) \/ Decide(p) \/ Compute(p) \/ WriteEvaluation(p)
                                  \/ Suspect(p) \/ ProjectError(p) \/ FailEvaluation(p) \/ CrashProjector(p)
      PROVE  UNCHANGED Serial!vars
  BY <1>0, <1>3, Zenon DEF RequeueJob, Load, Decide, Compute, WriteEvaluation, Suspect, ProjectError,
                    FailEvaluation, CrashProjector, rows, data
<1>4. ASSUME NEW p \in Projector, CompleteAndRelease(p) \/ AbandonAndRelease(p) \/ FailKeepBarrier(p)
      PROVE  [Serial!Next]_(Serial!vars)
  <2>1. \/ \E s \in {"complete", "abandoned"} : EndPass(p, s)
        \/ UNCHANGED <<runs, bar, inv, revs>>
    BY <1>4 DEF CompleteAndRelease, AbandonAndRelease, FailKeepBarrier, data
  <2> QED BY <1>0, <2>1, EndPassRefines DEF JobStatus
<1>5. ASSUME NEW p \in Projector, Project(p) \/ Recover(p) PROVE [Serial!Next]_(Serial!vars)
  BY <1>5, ProjectRefines, RecoverRefines
<1>6. ASSUME NEW p \in Projector, HoldBarrier(p) PROVE UNCHANGED Serial!vars
  <2>1. KeepsBar
    BY <1>6 DEF HoldBarrier, KeepsBar, Inv, TypeOK, Barrier
  <2> QED BY <1>6, <2>1, Stutter DEF HoldBarrier, KeepsDone, Published, data
<1>7. ASSUME NEW p \in Projector, NEW r \in Run, ClaimJob(p, r) PROVE UNCHANGED Serial!vars
  BY <1>0, <1>7 DEF ClaimJob, data
<1>8. ASSUME NEW r \in Run, Enqueue(r) PROVE UNCHANGED Serial!vars
  <2>1. KeepsDone
    BY <1>8 DEF Enqueue, KeepsDone, Published, Inv, TypeOK, RunRow
  <2> QED BY <1>8, <2>1, Stutter DEF Enqueue, KeepsBar, data
<1>9. ASSUME Clock PROVE UNCHANGED Serial!vars
  <2>1. Quiet
    BY <1>9, QuietClockRows
  <2> QED BY <2>1, Stutter DEF Quiet, KeepsDone, KeepsBar, Published, data
<1>10. CASE UNCHANGED vars
  BY <1>0, <1>10 DEF vars
<1> QED BY <1>1, <1>2, <1>3, <1>4, <1>5, <1>6, <1>7, <1>8, <1>9, <1>10 DEF Next, PassStep, Clock

\* The pipeline implements the serial one: workers that check only their own lease
\* never change the inventory of another run, nor under a projection.
THEOREM Refinement == Spec => ImplementsSerial
<1>1. Init => Serial!Init
  BY DEF Init, Serial!Init, Serial!NoRun
<1> QED BY <1>1, Invariant, NextRefines, PTL DEF Spec, ImplementsSerial, Serial!Spec
=============================================================================
