------------------------ MODULE IGAPipelineHandOver -------------------------
(***************************************************************************)
(* From the barrier a scan takes to the job that inherits it: the steps that *)
(* collect and publish preserve the invariant of IGAPipeline.              *)
(***************************************************************************)
EXTENDS IGAPipelineInv

USE DEF NoRun

\* The barrier goes from idle, or from the same run, to collecting.
LEMMA AcquireInv == ASSUME Inv, NEW w \in Worker, Acquire(w) PROVE Inv'
<1> DEFINE r == wk[w].run
<1>0. Basics /\ r \in Run /\ UNCHANGED <<runs, older, jobs, pj, data, faults>>
  BY Typed DEF Acquire, Inv, WorkerInv
<1>1. CASE ~Admits(r) /\ WorkerAt(w, "refused") /\ UNCHANGED bar
  <2>1. Quiet
    BY <1>0, <1>1, SameRows DEF Inv, TypeOK
  <2>2. /\ wk' \in [Worker -> WorkerState] /\ WorkerInv(w)'
        /\ \A v \in Worker : v # w => wk'[v] = wk[v]
    BY <1>1, WorkerStops DEF Acquire
  <2> QED BY <1>0, <2>1, <2>2, QuietStep, Zenon DEF Inv, TypeOK
<1>2. CASE /\ Admits(r)
           /\ bar' = [state |-> "collecting", run |-> r, holder |-> w, version |-> bar.version + 1, expired |-> FALSE]
           /\ wk' = [wk EXCEPT ![w] = [pc |-> "collecting", run |-> r, version |-> bar.version + 1]]
  <2>1. bar' \in Barrier /\ bar'.state = "collecting" /\ bar'.run = r /\ bar'.version = bar.version + 1
    BY <1>0, <1>2 DEF Barrier, Basics
  <2>2. /\ wk' \in [Worker -> WorkerState] /\ wk'[w].pc = "collecting" /\ wk'[w].run = r
        /\ \A v \in Worker : v # w => wk'[v] = wk[v]
    BY <1>0, <1>2 DEF Inv, TypeOK, WorkerState, WorkerPc, Basics
  <2>3. bar.state = "idle" \/ (bar.state = "collecting" /\ bar.run = r)
    BY <1>2 DEF Admits
  <2> HIDE DEF r
  <2>4. TypeOK'
    BY <1>0, <2>1, <2>2 DEF Inv, TypeOK, data
  <2>5. LeaseInv' /\ GenerationInv'
    BY <1>0 DEF Inv, LeaseInv, GenerationInv, data
  <2>6. BarrierInv'
    BY <1>0, <2>1, <2>3 DEF Basics, Inv, BarrierInv, JobHoldsBarrier
  <2>7. ReadInv'
    BY <1>0, <2>1 DEF Inv, ReadInv, ReadsWhatWasPublished, data
  <2>8. LastInv'
    BY <2>1 DEF LastInv
  <2>9. ASSUME NEW v \in Worker PROVE WorkerInv(v)'
    BY <1>0, <2>1, <2>2, <2>3 DEF Inv, WorkerInv, Scanning, OwnsRun, data
  <2>10. ASSUME NEW p \in Projector PROVE ProjectorInv(p)'
    BY <1>0, <2>1 DEF Basics, Inv, ProjectorInv, OwnsPass, OwnsJob, Holds, data
  <2> QED BY <2>4, <2>5, <2>6, <2>7, <2>8, <2>9, <2>10 DEF Inv
<1> QED BY <1>1, <1>2 DEF Acquire

\* An inventory write happens only while the barrier is collecting.
LEMMA CollectInv == ASSUME Inv, NEW w \in Worker, Collect(w) PROVE Inv'
<1>0. UNCHANGED <<runs, older, jobs, bar, wk, pj, frozen, gens, marks, revs, evals, faults>> /\ inv' = inv + 1
  BY DEF Collect, rows
<1>1. bar.state = "collecting"
  BY DEF Collect, Inv, WorkerInv
<1>2. TypeOK' /\ LeaseInv' /\ BarrierInv' /\ GenerationInv' /\ LastInv'
  BY <1>0 DEF Inv, TypeOK, LeaseInv, BarrierInv, JobHoldsBarrier, GenerationInv, LastInv, Revealed
<1>3. ReadInv'
  BY <1>0, <1>1 DEF Inv, ReadInv, ReadsWhatWasPublished
<1>4. \A v \in Worker : WorkerInv(v)'
  BY <1>0 DEF Inv, WorkerInv, Scanning, OwnsRun
<1>5. \A p \in Projector : ProjectorInv(p)'
  BY <1>0 DEF Inv, ProjectorInv, OwnsPass, OwnsJob, Holds
<1> QED BY <1>2, <1>3, <1>4, <1>5 DEF Inv

\* commitScan moves the generation of a connector that nobody else scans.
LEMMA CommitScanInv == ASSUME Inv, NEW w \in Worker, CommitScan(w) PROVE Inv'
<1> DEFINE r == wk[w].run
           c == ConnectorOf[r]
<1>0. Basics /\ r \in Run /\ UNCHANGED <<runs, older, jobs, bar, pj, inv, frozen, marks, revs, evals, faults>>
  BY Typed DEF CommitScan, rows, Inv, WorkerInv
<1>1. CASE WorkerAt(w, "failing") /\ UNCHANGED gens
  <2>1. Quiet
    BY <1>0, <1>1, SameRows DEF Inv, TypeOK, data
  <2>2. /\ wk' \in [Worker -> WorkerState] /\ WorkerInv(w)'
        /\ \A v \in Worker : v # w => wk'[v] = wk[v]
    BY <1>1, WorkerStops DEF CommitScan
  <2> QED BY <1>0, <2>1, <2>2, QuietStep, Zenon DEF Inv, TypeOK
<1>2. CASE /\ OwnsRun(w, r) /\ gens' = [gens EXCEPT ![c] = runs[r].generation] /\ WorkerAt(w, "collected")
  <2>1. /\ wk' \in [Worker -> WorkerState] /\ wk'[w].pc = "collected" /\ wk'[w].run = r
        /\ \A v \in Worker : v # w => wk'[v] = wk[v]
    BY <1>2, WorkerAtEffect DEF Inv, WorkerPc
  <2>2. runs[r].status = "running" /\ bar.state = "collecting" /\ bar.run = r
    BY <1>0, <1>2, OwnedIsRunning DEF CommitScan, Inv, WorkerInv, Scanning
  <2>3. c \in Connector /\ runs[r].generation \in Nat
    BY <1>0 DEF Basics
  <2>4. /\ gens' \in [Connector -> Nat] /\ gens'[c] = runs[r].generation
        /\ \A d \in Connector : d # c => gens'[d] = gens[d]
    BY <1>2, <2>3 DEF Inv, TypeOK
  <2>5. TypeOK'
    BY <1>0, <2>1, <2>4 DEF Inv, TypeOK
  <2>6. LeaseInv' /\ BarrierInv' /\ ReadInv'
    BY <1>0 DEF Inv, LeaseInv, BarrierInv, JobHoldsBarrier, ReadInv, ReadsWhatWasPublished
  <2>7. GenerationInv'
    BY <1>0, <2>2, <2>3, <2>4 DEF Basics, Inv, GenerationInv, SameConnector, Live
  <2>8. LastInv'
    BY <1>0, <2>2 DEF LastInv
  <2>9. ASSUME NEW v \in Worker PROVE WorkerInv(v)'
    <3>1. v # w /\ OwnsRun(v, wk[v].run) /\ wk[v].run \in Run => ConnectorOf[wk[v].run] # c
      <4>1. v # w /\ OwnsRun(v, wk[v].run) /\ wk[v].run \in Run => wk[v].run # r /\ runs[wk[v].run].status = "running"
        BY <1>2, OwnedIsRunning DEF OwnsRun
      <4> QED BY <1>0, <2>2, <4>1 DEF Inv, GenerationInv, SameConnector, Live
    <3>2. WorkerInv(v)
      BY DEF Inv
    <3> QED BY <1>0, <2>1, <2>2, <2>4, <3>1, <3>2 DEF Basics, WorkerInv, Scanning, OwnsRun
  <2>10. ASSUME NEW p \in Projector PROVE ProjectorInv(p)'
    BY <1>0 DEF Inv, ProjectorInv, OwnsPass, OwnsJob, Holds
  <2> QED BY <2>5, <2>6, <2>7, <2>8, <2>9, <2>10 DEF Inv
<1> QED BY <1>1, <1>2 DEF CommitScan

\* The publication freezes the inventory and hands the barrier to the job.
LEMMA PublishInv == ASSUME Inv, NEW w \in Worker, Publish(w) PROVE Inv'
<1> DEFINE r == wk[w].run
<1>0. Basics /\ r \in Run /\ UNCHANGED <<older, pj, inv, gens, marks, revs, evals, faults>>
  BY Typed DEF Publish, Inv, WorkerInv
<1>1. CASE WorkerAt(w, "failing") /\ UNCHANGED <<runs, jobs, bar, frozen>>
  <2>1. Quiet
    BY <1>0, <1>1, SameRows DEF Inv, TypeOK, data
  <2>2. /\ wk' \in [Worker -> WorkerState] /\ WorkerInv(w)'
        /\ \A v \in Worker : v # w => wk'[v] = wk[v]
    BY <1>1, WorkerStops DEF Publish
  <2> QED BY <1>0, <2>1, <2>2, QuietStep, Zenon DEF Inv, TypeOK
<1>2. CASE /\ OwnsRun(w, r) /\ Holds("collecting", r, w, wk[w].version)
           /\ EndRun(r, "published") /\ SetJob(r, "queued")
           /\ bar' = [state |-> "projecting", run |-> r, holder |-> None, version |-> bar.version + 1, expired |-> FALSE]
           /\ frozen' = [frozen EXCEPT ![r] = inv]
           /\ WorkerIdle(w)
  <2>1. /\ wk' \in [Worker -> WorkerState] /\ WorkerInv(w)'
        /\ \A v \in Worker : v # w => wk'[v] = wk[v]
    BY <1>2, WorkerStops
  <2>2. /\ runs[r].status = "running" /\ bar.state = "collecting" /\ bar.run = r
        /\ gens[ConnectorOf[r]] = runs[r].generation
    BY <1>0, <1>2, OwnedIsRunning DEF Publish, Inv, WorkerInv, Scanning
  <2>3. /\ runs' \in [Run -> RunRow]
        /\ runs'[r].status = "published" /\ runs'[r].owner = None /\ runs'[r].generation = runs[r].generation
        /\ \A q \in Run : q # r => runs'[q] = runs[q]
    BY <1>0, <1>2, EndRunEffect DEF Inv, RunStatus
  <2>4. /\ jobs' \in [Run -> JobRow] /\ jobs'[r].status = "queued" /\ jobs'[r].owner = None
        /\ \A q \in Run : q # r => jobs'[q] = jobs[q]
    BY <1>0, <1>2, SetJobEffect DEF Inv, JobStatus, Live
  <2>5. /\ bar' \in Barrier /\ bar'.state = "projecting" /\ bar'.run = r /\ bar'.holder = None
        /\ bar'.version = bar.version + 1
    <3>1. r \in Run /\ bar.version \in Nat
      BY <1>0 DEF Basics
    <3>2. bar' = [state |-> "projecting", run |-> r, holder |-> None, version |-> bar.version + 1, expired |-> FALSE]
      BY <1>2
    <3> HIDE DEF r
    <3> QED BY <3>1, <3>2 DEF Barrier
  <2>6. /\ frozen' \in [Run -> Nat] /\ frozen'[r] = inv
        /\ \A q \in Run : q # r => frozen'[q] = frozen[q]
    BY <1>0, <1>2 DEF Inv, TypeOK
  <2> HIDE DEF r
  <2>7. TypeOK'
    BY <1>0, <2>1, <2>3, <2>4, <2>5, <2>6 DEF Inv, TypeOK
  <2>8. LeaseInv'
    BY <2>3, <2>4 DEF Inv, LeaseInv
  <2>9. BarrierInv'
    BY <1>0, <2>2, <2>3, <2>4, <2>5 DEF Basics, Inv, BarrierInv, JobHoldsBarrier
  <2>10. ReadInv'
    BY <1>0, <2>2, <2>3, <2>5, <2>6 DEF Basics, Inv, ReadInv, ReadsWhatWasPublished
  <2>11. GenerationInv'
    BY <1>0, <2>2, <2>3 DEF Basics, Inv, GenerationInv, SameConnector, Live
  <2>12. LastInv'
    BY <1>0, <2>2, <2>3, <2>5 DEF Basics, Inv, LastInv, GenerationInv, Live, Revealed
  <2>13. ASSUME NEW v \in Worker PROVE WorkerInv(v)'
    <3>1. WorkerInv(v) /\ (v # w => wk'[v] = wk[v])
      BY <2>1 DEF Inv
    <3> QED BY <1>0, <2>1, <2>2, <2>3, <3>1 DEF Basics, WorkerInv, Scanning, OwnsRun
  <2>14. ASSUME NEW p \in Projector PROVE ProjectorInv(p)'
    BY <1>0, <2>5 DEF Basics, Inv, ProjectorInv, OwnsPass, Holds
  <2> QED BY <2>7, <2>8, <2>9, <2>10, <2>11, <2>12, <2>13, <2>14 DEF Inv
<1> QED BY <1>1, <1>2 DEF Publish
=============================================================================
