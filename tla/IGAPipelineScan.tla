-------------------------- MODULE IGAPipelineScan ---------------------------
(***************************************************************************)
(* Asking for a scan, claiming it, and ending it without a publication     *)
(* preserve the invariant of IGAPipeline: one lemma for each action, and one *)
(* for the actions that end a scan alike.                                  *)
(***************************************************************************)
EXTENDS IGAPipelineInv

USE DEF NoRun

\* Enqueue adds the one live run of its connector.
LEMMA EnqueueInv == ASSUME Inv, NEW r \in Run, Enqueue(r) PROVE Inv'
<1>0. Basics /\ UNCHANGED <<jobs, bar, wk, pj, data, faults>> /\ runs[r].status = "none"
  BY Typed DEF Enqueue
<1>1. /\ runs' \in [Run -> RunRow]
      /\ runs'[r].status = "queued" /\ runs'[r].owner = runs[r].owner /\ runs'[r].generation = runs[r].generation
      /\ \A q \in Run : q # r => runs'[q] = runs[q]
  BY Zenon DEF Enqueue, Inv, TypeOK, RunRow, RunStatus, Live
<1>2. older' \in SUBSET (Run \X Run)
  BY DEF Enqueue, Youngest, Inv, TypeOK
<1>3. TypeOK'
  BY <1>0, <1>1, <1>2 DEF Inv, TypeOK, data
<1>4. LeaseInv'
  BY <1>0, <1>1 DEF Inv, LeaseInv
<1>5. BarrierInv'
  BY <1>0, <1>1 DEF Basics, Inv, BarrierInv, JobHoldsBarrier
<1>6. ReadInv'
  BY <1>0, <1>1 DEF Basics, Inv, ReadInv, ReadsWhatWasPublished, data
<1>7. GenerationInv'
  <2>1. \A q \in Run : q # r /\ (SameConnector(q, r) \/ SameConnector(r, q)) => runs[q].status \notin Live
    BY DEF Enqueue, SameConnector
  <2> QED BY <1>0, <1>1, <2>1 DEF Basics, Inv, GenerationInv, data
<1>8. LastInv'
  BY <1>0, <1>1 DEF Basics, Inv, LastInv, BarrierInv, Revealed, data
<1>9. ASSUME NEW w \in Worker PROVE WorkerInv(w)'
  BY <1>0, <1>1 DEF Inv, WorkerInv, Scanning, OwnsRun, data
<1>10. ASSUME NEW p \in Projector PROVE ProjectorInv(p)'
  BY <1>0, <1>1 DEF Inv, ProjectorInv, OwnsPass, OwnsJob, Holds, data
<1> QED BY <1>3, <1>4, <1>5, <1>6, <1>7, <1>8, <1>9, <1>10 DEF Inv

\* A first claim takes a generation past all that the connector has.
LEMMA ClaimInv == ASSUME Inv, NEW w \in Worker, Claim(w) PROVE Inv'
<1>0. Basics /\ UNCHANGED <<older, jobs, bar, pj, data, faults>>
  BY Typed DEF Claim
<1>1. PICK r \in Run :
        /\ ClaimableRun(r)
        /\ runs' = [runs EXCEPT ![r] =
             [status |-> "running", owner |-> w, lapsed |-> FALSE, attempts |-> @.attempts + 1,
              generation |-> Reserved(r)]]
        /\ wk' = [wk EXCEPT ![w] =
             [pc |-> IF runs[r].attempts + 1 > ScanMaxAttempts THEN "giveup" ELSE "claimed",
              run |-> r, version |-> 0]]
  BY Zenon DEF Claim
<1>2. /\ runs'[r].status = "running" /\ runs'[r].owner = w
      /\ runs'[r].generation = Reserved(r)
      /\ \A q \in Run : q # r => runs'[q] = runs[q]
  BY <1>1 DEF Inv, TypeOK
<1>3. /\ wk'[w].pc \in {"giveup", "claimed"} /\ wk'[w].run = r
      /\ \A v \in Worker : v # w => wk'[v] = wk[v]
  BY <1>1 DEF Inv, TypeOK
<1>4. runs[r].status \in Live
  BY <1>1 DEF ClaimableRun, Live
<1>5. runs' \in [Run -> RunRow]
  <2>1. runs[r].attempts + 1 \in Nat /\ Reserved(r) \in Nat
    BY <1>0 DEF Basics, Inv, TypeOK, RunRow, Reserved
  <2>2. [status |-> "running", owner |-> w, lapsed |-> FALSE, attempts |-> runs[r].attempts + 1,
         generation |-> Reserved(r)] \in RunRow
    BY <2>1 DEF RunRow, RunStatus, Live
  <2> QED BY <1>1, <2>2 DEF Inv, TypeOK
<1>6. wk' \in [Worker -> WorkerState]
  BY <1>1 DEF Inv, TypeOK, WorkerState, WorkerPc
<1>7. TypeOK'
  BY <1>0, <1>5, <1>6 DEF Inv, TypeOK, data
<1>8. LeaseInv'
  BY <1>0, <1>2 DEF Inv, LeaseInv
<1>9. BarrierInv'
  BY <1>0, <1>2, <1>4 DEF Basics, Inv, BarrierInv, JobHoldsBarrier, Live
<1>10. ReadInv'
  BY <1>0, <1>2, <1>4 DEF Basics, Inv, ReadInv, ReadsWhatWasPublished, Live, data
<1>11. GenerationInv'
  BY <1>0, <1>2, <1>4 DEF Basics, Inv, GenerationInv, SameConnector, Live, data, Reserved
<1>12. LastInv'
  BY <1>0, <1>2, <1>4 DEF Basics, Inv, LastInv, BarrierInv, Revealed, Live, data
<1>13. ASSUME NEW v \in Worker PROVE WorkerInv(v)'
  BY <1>0, <1>2, <1>3 DEF Inv, WorkerInv, Scanning, OwnsRun, data
<1>14. ASSUME NEW p \in Projector PROVE ProjectorInv(p)'
  BY <1>0, <1>2 DEF Inv, ProjectorInv, OwnsPass, OwnsJob, Holds, data
<1> QED BY <1>7, <1>8, <1>9, <1>10, <1>11, <1>12, <1>13, <1>14 DEF Inv

\* A run's lease is cleared, its status may go from live to another that is not
\* published, and the barrier stays or, collecting for that run, becomes idle.
LEMMA ScanEnds ==
  ASSUME Inv, NEW r \in Run,
         runs' \in [Run -> RunRow], runs'[r].owner = None, runs'[r].generation = runs[r].generation,
         \/ runs'[r].status = runs[r].status
         \/ runs[r].status \in Live /\ runs'[r].status \in {"failed", "queued", "abandoned"},
         runs'[r].status = "running" => runs[r].owner = None,
         \A q \in Run : q # r => runs'[q] = runs[q],
         UNCHANGED bar \/ (bar.state = "collecting" /\ bar.run = r /\ ToIdle),
         UNCHANGED <<jobs, data, faults>>, older' \in SUBSET (Run \X Run),
         wk' \in [Worker -> WorkerState], pj' \in [Projector -> ProjectorState],
         \A w \in Worker : wk'[w] = wk[w] \/ WorkerInv(w)',
         \A p \in Projector : pj'[p] = pj[p] \/ ProjectorInv(p)'
  PROVE  Inv'
<1>0. Basics
  BY Typed
<1>1. \/ UNCHANGED bar
      \/ /\ bar.state = "collecting" /\ bar.run = r /\ bar' \in Barrier
         /\ bar'.state = "idle" /\ bar'.run = NoRun /\ bar'.version = bar.version + 1
  BY ToIdleEffect DEF Inv
<1>2. TypeOK'
  BY <1>1 DEF Inv, TypeOK, data
<1>3. LeaseInv'
  BY DEF Inv, LeaseInv
<1>4. BarrierInv'
  BY <1>0, <1>1 DEF Basics, Inv, BarrierInv, JobHoldsBarrier, Live
<1>5. ReadInv'
  BY <1>0, <1>1 DEF Basics, Inv, ReadInv, ReadsWhatWasPublished, Live, data
<1>6. GenerationInv'
  BY <1>0 DEF Basics, Inv, GenerationInv, SameConnector, Live, data
<1>7. LastInv'
  BY <1>0, <1>1 DEF Basics, Inv, LastInv, BarrierInv, Revealed, Live, data
<1>8. ASSUME NEW w \in Worker PROVE WorkerInv(w)'
  <2>1. WorkerInv(w) /\ (wk'[w] = wk[w] \/ WorkerInv(w)')
    BY DEF Inv
  <2> QED BY <2>1, <1>0, <1>1 DEF Basics, WorkerInv, Scanning, OwnsRun, data
<1>9. ASSUME NEW p \in Projector PROVE ProjectorInv(p)'
  <2>1. ProjectorInv(p) /\ (pj'[p] = pj[p] \/ ProjectorInv(p)')
    BY DEF Inv
  <2>2. jobs' = jobs /\ frozen' = frozen /\ pj[p].version \in Nat /\ bar.version \in Nat
    BY <1>0 DEF Basics, data
  <2>3. CASE UNCHANGED bar
    BY <2>1, <2>2, <2>3 DEF ProjectorInv, OwnsPass, OwnsJob, Holds
  <2>4. CASE bar'.state = "idle" /\ bar'.version = bar.version + 1
    BY <2>1, <2>2, <2>4 DEF ProjectorInv, OwnsPass, Holds
  <2> QED BY <1>1, <2>3, <2>4
<1> QED BY <1>2, <1>3, <1>4, <1>5, <1>6, <1>7, <1>8, <1>9 DEF Inv

\* Giving up ends a run that is not under its barrier.
LEMMA GiveUpInv == ASSUME Inv, NEW w \in Worker, GiveUp(w) PROVE Inv'
<1> DEFINE r == wk[w].run
<1>0. r \in Run /\ UNCHANGED <<older, jobs, bar, pj, data, faults>> /\ older' \in SUBSET (Run \X Run)
  BY DEF GiveUp, Inv, WorkerInv, TypeOK
<1>1. /\ wk' \in [Worker -> WorkerState] /\ WorkerInv(w)'
      /\ \A v \in Worker : v # w => wk'[v] = wk[v]
  BY WorkerStops DEF GiveUp
<1>2. CASE OwnsRun(w, r) /\ EndRun(r, "failed")
  <2>1. /\ runs' \in [Run -> RunRow]
        /\ runs'[r].status = "failed" /\ runs'[r].owner = None /\ runs'[r].generation = runs[r].generation
        /\ \A q \in Run : q # r => runs'[q] = runs[q]
    BY <1>0, <1>2, EndRunEffect DEF Inv, RunStatus
  <2>2. runs[r].status \in Live
    BY <1>0, <1>2, OwnedIsRunning DEF Live
  <2> HIDE DEF r
  <2> QED BY <1>0, <1>1, <2>1, <2>2, ScanEnds, Zenon DEF Inv, TypeOK
<1>3. CASE UNCHANGED runs
  <2>1. Quiet
    BY <1>0, <1>3, SameRows DEF Inv, TypeOK
  <2> QED BY <1>0, <1>1, <2>1, QuietStep, Zenon DEF Inv, TypeOK
<1> QED BY <1>2, <1>3 DEF GiveUp

\* A refused run waits again; its generation stays its own.
LEMMA RequeueRunInv == ASSUME Inv, NEW w \in Worker, RequeueRun(w) PROVE Inv'
<1> DEFINE r == wk[w].run
           k == Uncharged(runs[r].attempts)
           new == [runs[r] EXCEPT !.status = "queued", !.owner = None, !.lapsed = FALSE, !.attempts = k]
<1>0. r \in Run /\ UNCHANGED <<jobs, bar, pj, data, faults>> /\ older' \in SUBSET (Run \X Run)
  BY DEF RequeueRun, Youngest, Inv, WorkerInv, TypeOK
<1>1. /\ wk' \in [Worker -> WorkerState] /\ WorkerInv(w)'
      /\ \A v \in Worker : v # w => wk'[v] = wk[v]
  BY WorkerStops DEF RequeueRun
<1>2. CASE OwnsRun(w, r) /\ runs' = [runs EXCEPT ![r] = new]
  <2>1. new \in RunRow /\ new.status = "queued" /\ new.owner = None /\ new.generation = runs[r].generation
    <3>1. runs[r] \in RunRow
      BY <1>0 DEF Inv, TypeOK
    <3>2. k \in Nat
      BY <3>1 DEF RunRow, Uncharged
    <3> HIDE DEF k
    <3> QED BY <3>1, <3>2, Zenon DEF RunRow, RunStatus, Live
  <2>2. runs[r].status \in Live
    BY <1>0, <1>2, OwnedIsRunning DEF Live
  <2>3. runs' \in [Run -> RunRow] /\ runs'[r] = new /\ \A q \in Run : q # r => runs'[q] = runs[q]
    <3> HIDE DEF new
    <3> QED BY <1>0, <1>2, <2>1 DEF Inv, TypeOK
  <2> HIDE DEF r, new
  <2> QED BY <1>0, <1>1, <2>1, <2>2, <2>3, ScanEnds, Zenon DEF Inv, TypeOK
<1>3. CASE UNCHANGED <<runs, older>>
  <2>1. Quiet
    BY <1>0, <1>3, SameRows DEF Inv, TypeOK
  <2> QED BY <1>0, <1>1, <2>1, QuietStep, Zenon DEF Inv, TypeOK
<1>4. (OwnsRun(w, r) /\ runs' = [runs EXCEPT ![r] = new]) \/ UNCHANGED <<runs, older>>
  BY DEF RequeueRun
<1> QED BY <1>2, <1>3, <1>4

\* Failing a scan frees its barrier with it.
LEMMA FailScanInv == ASSUME Inv, NEW w \in Worker, FailScan(w) PROVE Inv'
<1> DEFINE r == wk[w].run
<1>0. r \in Run /\ UNCHANGED <<older, jobs, pj, data, faults>> /\ older' \in SUBSET (Run \X Run)
  BY DEF FailScan, Inv, WorkerInv, TypeOK
<1>1. /\ wk' \in [Worker -> WorkerState] /\ WorkerInv(w)'
      /\ \A v \in Worker : v # w => wk'[v] = wk[v]
  BY WorkerStops DEF FailScan
<1>2. CASE OwnsRun(w, r) /\ Holds("collecting", r, w, wk[w].version) /\ EndRun(r, "failed") /\ ToIdle
  <2>1. /\ runs' \in [Run -> RunRow]
        /\ runs'[r].status = "failed" /\ runs'[r].owner = None /\ runs'[r].generation = runs[r].generation
        /\ \A q \in Run : q # r => runs'[q] = runs[q]
    BY <1>0, <1>2, EndRunEffect DEF Inv, RunStatus
  <2>2. runs[r].status \in Live
    BY <1>0, <1>2, OwnedIsRunning DEF Live
  <2>3. bar.state = "collecting" /\ bar.run = r
    BY <1>2 DEF Holds
  <2> HIDE DEF r
  <2> QED BY <1>0, <1>1, <1>2, <2>1, <2>2, <2>3, ScanEnds, Zenon DEF Inv, TypeOK
<1>3. CASE UNCHANGED <<runs, bar>>
  <2>1. Quiet
    BY <1>0, <1>3, SameRows DEF Inv, TypeOK
  <2> QED BY <1>0, <1>1, <2>1, QuietStep, Zenon DEF Inv, TypeOK
<1> QED BY <1>2, <1>3 DEF FailScan
=============================================================================
