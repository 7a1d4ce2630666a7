-------------------------- MODULE IGAPipelinePass ---------------------------
(***************************************************************************)
(* Claiming a projection job, handing it back, ending it and recovering its *)
(* barrier preserve the invariant of IGAPipeline.                          *)
(***************************************************************************)
EXTENDS IGAPipelineScan

USE DEF NoRun

\* A job changes hands under the barrier of its run: it stays open, and no pass gains
\* the ownership of it while something it read is still to be used.
LEMMA JobMoves ==
  ASSUME Inv, NEW r \in Run, NEW p \in Projector,
         jobs' \in [Run -> JobRow], \A q \in Run : q # r => jobs'[q] = jobs[q],
         jobs[r].status \in {"queued", "running", "failed"},
         \/ jobs'[r].status = "running" /\ jobs'[r].owner = p
         \/ jobs'[r].status \in {"queued", "failed"} /\ jobs'[r].owner = None,
         jobs'[r].status = "failed" => jobs'[r].attempts < MaxProjectionAttempts,
         UNCHANGED <<runs, older, bar, wk, data, faults>>,
         pj' \in [Projector -> ProjectorState], ProjectorInv(p)',
         \A q \in Projector : q # p => pj'[q] = pj[q]
  PROVE  Inv'
<1>0. Basics
  BY Typed
<1>1. TypeOK'
  BY DEF Inv, TypeOK, data
<1>2. LeaseInv'
  BY DEF Inv, LeaseInv
<1>3. BarrierInv'
  BY <1>0 DEF Basics, Inv, BarrierInv, JobHoldsBarrier
<1>4. ReadInv' /\ GenerationInv' /\ LastInv'
  BY DEF Inv, ReadInv, ReadsWhatWasPublished, GenerationInv, LastInv, Revealed, data
<1>5. \A w \in Worker : WorkerInv(w)'
  BY DEF Inv, WorkerInv, Scanning, OwnsRun, data
<1>6. ASSUME NEW q \in Projector PROVE ProjectorInv(q)'
  <2>1. ProjectorInv(q) /\ (q # p => pj'[q] = pj[q])
    BY DEF Inv
  <2> QED BY <1>0, <2>1 DEF Basics, ProjectorInv, OwnsPass, OwnsJob, Holds, data
<1> QED BY <1>1, <1>2, <1>3, <1>4, <1>5, <1>6 DEF Inv

\* A claimed job is the job the barrier is projecting.
LEMMA ClaimJobInv == ASSUME Inv, NEW p \in Projector, NEW r \in Run, ClaimJob(p, r) PROVE Inv'
<1> DEFINE new == [status |-> "running", owner |-> p, lapsed |-> FALSE, attempts |-> jobs[r].attempts + 1]
<1>0. Basics /\ UNCHANGED <<runs, older, bar, wk, data, faults>>
  BY Typed DEF ClaimJob
<1>1. jobs' = [jobs EXCEPT ![r] = new]
  BY DEF ClaimJob
<1>2. new \in JobRow
  BY DEF Inv, TypeOK, JobRow, JobStatus, Live
<1>3. /\ jobs' \in [Run -> JobRow] /\ jobs'[r].status = "running" /\ jobs'[r].owner = p
      /\ \A q \in Run : q # r => jobs'[q] = jobs[q]
  BY <1>1, <1>2 DEF Inv, TypeOK
<1>4. jobs[r].status \in {"queued", "running", "failed"}
  BY DEF ClaimJob, ClaimableJob
<1>5. /\ pj' \in [Projector -> ProjectorState]
      /\ pj'[p].pc = "claimed" /\ pj'[p].run = r /\ pj'[p].version = 0
      /\ \A q \in Projector : q # p => pj'[q] = pj[q]
  BY DEF ClaimJob, Inv, TypeOK, ProjectorState, ProjectorPc
<1>6. ProjectorInv(p)'
  BY <1>0, <1>5 DEF ProjectorInv, Basics
<1> QED BY <1>0, <1>3, <1>4, <1>5, <1>6, JobMoves

\* A job handed back is open still.
LEMMA RequeueJobInv == ASSUME Inv, NEW p \in Projector, RequeueJob(p) PROVE Inv'
<1> DEFINE r == pj[p].run
           k == Uncharged(jobs[r].attempts)
           new == [jobs[r] EXCEPT !.status = "queued", !.owner = None, !.lapsed = FALSE, !.attempts = k]
<1>0. Basics /\ r \in Run /\ UNCHANGED <<runs, older, bar, wk, data, faults>>
  BY Typed DEF RequeueJob, Inv, ProjectorInv
<1>1. /\ pj' \in [Projector -> ProjectorState] /\ ProjectorInv(p)'
      /\ \A q \in Projector : q # p => pj'[q] = pj[q]
  BY <1>0, ProjectorStops DEF RequeueJob, Basics
<1>2. CASE OwnsJob(p, r) /\ jobs' = [jobs EXCEPT ![r] = new]
  <2>1. new \in JobRow /\ new.status = "queued" /\ new.owner = None
    <3>1. jobs[r] \in JobRow
      BY <1>0 DEF Inv, TypeOK
    <3>2. k \in Nat
      BY <3>1 DEF JobRow, Uncharged
    <3> HIDE DEF k
    <3> QED BY <3>1, <3>2, Zenon DEF JobRow, JobStatus, Live
  <2>2. jobs[r].status = "running"
    BY <1>0, <1>2, OwnedJobIsRunning
  <2>3. jobs' \in [Run -> JobRow] /\ jobs'[r] = new /\ \A q \in Run : q # r => jobs'[q] = jobs[q]
    <3> HIDE DEF new
    <3> QED BY <1>0, <1>2, <2>1 DEF Inv, TypeOK
  <2> HIDE DEF r, new
  <2> QED BY <1>0, <1>1, <2>1, <2>2, <2>3, JobMoves
<1>3. CASE UNCHANGED jobs
  <2>1. Quiet
    BY <1>0, <1>3, SameRows DEF Inv, TypeOK
  <2> QED BY <1>0, <1>1, <2>1, QuietStep, Zenon DEF Inv, TypeOK
<1>4. (OwnsJob(p, r) /\ jobs' = [jobs EXCEPT ![r] = new]) \/ UNCHANGED jobs
  BY DEF RequeueJob
<1> QED BY <1>2, <1>3, <1>4

\* The job ends and the barrier of its run becomes idle.
LEMMA PassEnds ==
  ASSUME Inv, NEW r \in Run, NEW s \in {"complete", "abandoned"}, SetJob(r, s),
         bar.state = "projecting", bar.run = r, ToIdle,
         UNCHANGED <<runs, older, wk, data, faults>>,
         pj' \in [Projector -> ProjectorState],
         \A p \in Projector : pj'[p] = pj[p] \/ ProjectorInv(p)'
  PROVE  Inv'
<1>0. Basics
  BY Typed
<1>1. /\ jobs' \in [Run -> JobRow] /\ jobs'[r].status = s /\ jobs'[r].owner = None
      /\ \A q \in Run : q # r => jobs'[q] = jobs[q]
  BY SetJobEffect DEF Inv, JobStatus
<1>2. bar' \in Barrier /\ bar'.state = "idle" /\ bar'.run = NoRun /\ bar'.version = bar.version + 1
  BY ToIdleEffect DEF Inv
<1>3. TypeOK'
  BY <1>1, <1>2 DEF Inv, TypeOK, data
<1>4. LeaseInv'
  BY <1>1 DEF Inv, LeaseInv
<1>5. BarrierInv'
  BY <1>0, <1>1, <1>2 DEF Basics, Inv, BarrierInv, JobHoldsBarrier
<1>6. ReadInv' /\ GenerationInv' /\ LastInv'
  BY <1>2 DEF Inv, ReadInv, ReadsWhatWasPublished, GenerationInv, LastInv, data
<1>7. \A w \in Worker : WorkerInv(w)'
  BY DEF Inv, WorkerInv, Scanning, OwnsRun, data
<1>8. ASSUME NEW p \in Projector PROVE ProjectorInv(p)'
  <2>1. ProjectorInv(p) /\ (pj'[p] = pj[p] \/ ProjectorInv(p)')
    BY DEF Inv
  <2> QED BY <1>0, <1>2, <2>1 DEF Basics, ProjectorInv, OwnsPass, Holds, data
<1> QED BY <1>3, <1>4, <1>5, <1>6, <1>7, <1>8 DEF Inv

\* A pass ends its job and its barrier together, or neither.
LEMMA EndPassInv ==
  ASSUME Inv, NEW p \in Projector, pj[p].pc # "idle", NEW s \in {"complete", "abandoned"}, EndPass(p, s)
  PROVE  Inv'
<1> DEFINE r == pj[p].run
<1>0. r \in Run /\ UNCHANGED <<runs, older, wk, data, faults>> /\ (UNCHANGED bar \/ ToIdle)
  BY DEF EndPass, Inv, ProjectorInv
<1>1. /\ pj' \in [Projector -> ProjectorState] /\ ProjectorInv(p)'
      /\ \A q \in Projector : q # p => pj'[q] = pj[q]
  BY <1>0, VersionGrows, ProjectorStops DEF EndPass
<1>2. CASE OwnsPass(p) /\ SetJob(r, s) /\ ToIdle
  <2>1. bar.state = "projecting" /\ bar.run = r
    BY <1>2 DEF OwnsPass, Holds
  <2> HIDE DEF r
  <2> QED BY <1>0, <1>1, <1>2, <2>1, PassEnds
<1>3. CASE UNCHANGED <<jobs, bar>>
  <2>1. Quiet
    BY <1>0, <1>3, SameRows DEF Inv, TypeOK
  <2> QED BY <1>0, <1>1, <2>1, QuietStep, Zenon DEF Inv, TypeOK
<1> QED BY <1>2, <1>3 DEF EndPass

\* A failed pass leaves job and barrier to the next attempt, or gives up both.
LEMMA FailKeepBarrierInv == ASSUME Inv, NEW p \in Projector, FailKeepBarrier(p) PROVE Inv'
<1> DEFINE r == pj[p].run
<1>1. CASE EndPass(p, "abandoned")
  BY <1>1, EndPassInv DEF FailKeepBarrier
<1>2. CASE /\ jobs[r].attempts < MaxProjectionAttempts
           /\ IF OwnsJob(p, r) THEN SetJob(r, "failed") ELSE UNCHANGED jobs
           /\ ProjectorIdle(p)
           /\ UNCHANGED <<runs, older, bar, wk, data, faults>>
  <2>0. r \in Run
    BY DEF FailKeepBarrier, Inv, ProjectorInv
  <2>1. /\ pj' \in [Projector -> ProjectorState] /\ ProjectorInv(p)'
        /\ \A q \in Projector : q # p => pj'[q] = pj[q]
    BY <1>2, VersionGrows, ProjectorStops
  <2>2. CASE OwnsJob(p, r)
    <3>1. jobs[r].status = "running"
      BY <2>0, <2>2, OwnedJobIsRunning
    <3>2. /\ jobs' \in [Run -> JobRow] /\ jobs'[r].status = "failed" /\ jobs'[r].owner = None
          /\ jobs'[r].attempts = jobs[r].attempts /\ \A q \in Run : q # r => jobs'[q] = jobs[q]
      BY <1>2, <2>0, <2>2, SetJobEffect DEF Inv, JobStatus
    <3> HIDE DEF r
    <3> QED BY <1>2, <2>0, <2>1, <3>1, <3>2, JobMoves
  <2>3. CASE ~OwnsJob(p, r)
    <3>1. Quiet /\ UNCHANGED wk
      BY <1>2, <2>3, SameRows DEF Inv, TypeOK
    <3> QED BY <2>1, <3>1, QuietStep, Zenon DEF Inv, TypeOK
  <2> QED BY <2>2, <2>3
<1> QED BY <1>1, <1>2 DEF FailKeepBarrier

\* Recovery frees only a barrier whose work is out of reach.
LEMMA RecoverInv == ASSUME Inv, NEW p \in Projector, Recover(p) PROVE Inv'
<1> DEFINE r == pj[p].run
<1>0. r \in Run /\ UNCHANGED <<older, wk, data, faults>> /\ older' \in SUBSET (Run \X Run) /\ (UNCHANGED bar \/ ToIdle)
  BY DEF Recover, AbandonBarrier, Inv, ProjectorInv, TypeOK
<1>1. /\ pj' \in [Projector -> ProjectorState] /\ ProjectorInv(p)'
      /\ \A q \in Projector : q # p => pj'[q] = pj[q]
  BY <1>0, VersionGrows, ProjectorStops DEF Recover
<1>2. CASE UNCHANGED <<runs, jobs, bar>>
  <2>1. Quiet
    BY <1>0, <1>2, SameRows DEF Inv, TypeOK
  <2> QED BY <1>0, <1>1, <2>1, QuietStep, Zenon DEF Inv, TypeOK
<1>3. CASE Unreachable(p) /\ bar.version = pj[p].version /\ AbandonBarrier(p) /\ pj[p].pc = "seen_collecting"
  <2>1. bar.state = "collecting" /\ bar.run = r /\ runs[r].status \notin Live
    BY <1>3 DEF Inv, ProjectorInv, Unreachable
  <2>2. jobs[r].status \notin Live
    BY <1>0, <2>1 DEF Inv, BarrierInv, JobHoldsBarrier, Live
  <2>3. UNCHANGED <<runs, jobs>> /\ ToIdle
    BY <1>3, <2>1, <2>2 DEF AbandonBarrier
  <2>4. runs[r].owner = None
    BY <1>0, <2>1 DEF Inv, LeaseInv, Live
  <2> HIDE DEF r
  <2> QED BY <1>0, <1>1, <2>1, <2>3, <2>4, ScanEnds, Zenon DEF Inv, TypeOK
<1>4. CASE Unreachable(p) /\ bar.version = pj[p].version /\ AbandonBarrier(p) /\ pj[p].pc = "seen_projecting"
  <2>1. bar.state = "projecting" /\ bar.run = r
    BY <1>4 DEF Inv, ProjectorInv
  <2>2. runs[r].status \notin Live
    BY <2>1 DEF Inv, BarrierInv, Live
  <2>3. jobs[r].status \in Live
    <3>1. jobs[r].status \in {"queued", "running", "failed"}
      BY <1>0, <2>1 DEF Inv, BarrierInv, JobHoldsBarrier
    <3>2. jobs[r].status # "failed"
      <4>1. jobs[r].attempts >= MaxProjectionAttempts
        BY <1>4, <3>1 DEF Unreachable
      <4>2. jobs[r].attempts \in Nat
        BY <1>0 DEF Inv, TypeOK, JobRow
      <4> QED BY <1>0, <4>1, <4>2, PipelineConstants DEF Inv, LeaseInv
    <3> QED BY <3>1, <3>2 DEF Live
  <2>4. UNCHANGED runs /\ SetJob(r, "abandoned") /\ ToIdle
    BY <1>4, <2>2, <2>3 DEF AbandonBarrier
  <2> HIDE DEF r
  <2> QED BY <1>0, <1>1, <2>1, <2>4, PassEnds
<1>5. ~(jobs[r].status = "complete" /\ Holds("projecting", r, None, pj[p].version))
  BY <1>0 DEF Inv, BarrierInv, JobHoldsBarrier, Holds
<1> QED BY <1>2, <1>3, <1>4, <1>5 DEF Recover
=============================================================================
