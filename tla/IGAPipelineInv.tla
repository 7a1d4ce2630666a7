--------------------------- MODULE IGAPipelineInv ---------------------------
(***************************************************************************)
(* The inductive invariant of IGAPipeline, what its row and worker updates *)
(* change, and the steps that leave alone all the invariant is about.      *)
(***************************************************************************)
EXTENDS IGAPipeline, TLAPS

USE DEF NoRun

-----------------------------------------------------------------------------
\* What the model's row and worker updates change, one lemma each.

\* EndRun changes one row: its status, and its lease is cleared.
LEMMA EndRunEffect ==
  ASSUME TypeOK, NEW r \in Run, NEW s \in RunStatus, EndRun(r, s)
  PROVE  /\ runs' \in [Run -> RunRow]
         /\ runs'[r].status = s /\ runs'[r].owner = None /\ runs'[r].generation = runs[r].generation
         /\ \A q \in Run : q # r => runs'[q] = runs[q]
<1>1. runs' \in [Run -> RunRow]
  BY Zenon DEF TypeOK, EndRun, RunRow
<1>2. runs'[r].status = s /\ runs'[r].owner = None /\ runs'[r].generation = runs[r].generation
  BY DEF TypeOK, EndRun, RunRow
<1>3. \A q \in Run : q # r => runs'[q] = runs[q]
  BY DEF TypeOK, EndRun
<1> QED BY <1>1, <1>2, <1>3

\* SetJob changes one row: its status, and its lease is cleared.
LEMMA SetJobEffect ==
  ASSUME TypeOK, NEW r \in Run, NEW s \in JobStatus, SetJob(r, s)
  PROVE  /\ jobs' \in [Run -> JobRow]
         /\ jobs'[r].status = s /\ jobs'[r].owner = None /\ jobs'[r].attempts = jobs[r].attempts
         /\ \A q \in Run : q # r => jobs'[q] = jobs[q]
BY Zenon DEF TypeOK, SetJob, JobRow

\* A released barrier names nobody and has a new version.
LEMMA ToIdleEffect ==
  ASSUME TypeOK, ToIdle
  PROVE  /\ bar' \in Barrier
         /\ bar'.state = "idle" /\ bar'.run = NoRun /\ bar'.holder = None /\ bar'.version = bar.version + 1
BY DEF TypeOK, ToIdle, Barrier

\* The other workers are where they were.
LEMMA WorkerIdleEffect ==
  ASSUME TypeOK, NEW w \in Worker, WorkerIdle(w)
  PROVE  /\ wk' \in [Worker -> WorkerState]
         /\ wk'[w].pc = "idle"
         /\ \A v \in Worker : v # w => wk'[v] = wk[v]
BY DEF TypeOK, WorkerIdle, WorkerState, WorkerPc

\* Only the place of one worker changes.
LEMMA WorkerAtEffect ==
  ASSUME TypeOK, NEW w \in Worker, NEW pc \in WorkerPc, WorkerAt(w, pc)
  PROVE  /\ wk' \in [Worker -> WorkerState]
         /\ wk'[w].pc = pc /\ wk'[w].run = wk[w].run /\ wk'[w].version = wk[w].version
         /\ \A v \in Worker : v # w => wk'[v] = wk[v]
BY Zenon DEF TypeOK, WorkerAt, WorkerState

\* The other projectors are where they were.
LEMMA ProjectorIdleEffect ==
  ASSUME TypeOK, NEW p \in Projector, ProjectorIdle(p)
  PROVE  /\ pj' \in [Projector -> ProjectorState]
         /\ pj'[p].pc = "idle" /\ pj'[p].version = 0
         /\ \A q \in Projector : q # p => pj'[q] = pj[q]
BY DEF TypeOK, ProjectorIdle, ProjectorState, ProjectorPc

\* Only the place of one projector changes.
LEMMA ProjectorAtEffect ==
  ASSUME TypeOK, NEW p \in Projector, NEW pc \in ProjectorPc, ProjectorAt(p, pc)
  PROVE  /\ pj' \in [Projector -> ProjectorState]
         /\ pj'[p].pc = pc /\ pj'[p].run = pj[p].run /\ pj'[p].version = pj[p].version /\ pj'[p].read = pj[p].read
         /\ \A q \in Projector : q # p => pj'[q] = pj[q]
BY Zenon DEF TypeOK, ProjectorAt, ProjectorState

\* One projector takes its snapshot of the inventory.
LEMMA ProjectorReadEffect ==
  ASSUME TypeOK, NEW p \in Projector, NEW pc \in ProjectorPc, ProjectorRead(p, pc)
  PROVE  /\ pj' \in [Projector -> ProjectorState]
         /\ pj'[p].pc = pc /\ pj'[p].run = pj[p].run /\ pj'[p].version = pj[p].version /\ pj'[p].read = inv
         /\ \A q \in Projector : q # p => pj'[q] = pj[q]
BY Zenon DEF TypeOK, ProjectorRead, ProjectorState

-----------------------------------------------------------------------------
\* The inductive invariant: what holds of the rows, and what each worker and each
\* projector may rely on.

\* A lease belongs to running work; a failed job has attempts left.
LeaseInv ==
  /\ \A r \in Run : runs[r].owner # None => runs[r].status = "running"
  /\ \A r \in Run : jobs[r].owner # None => jobs[r].status = "running"
  /\ \A r \in Run : jobs[r].status = "failed" => jobs[r].attempts < MaxProjectionAttempts

\* The barrier projects exactly the run with an open job, and that run published.
BarrierInv ==
  /\ bar.state = "idle" <=> bar.run = NoRun
  /\ bar.state = "projecting" => runs[bar.run].status = "published" /\ bar.holder = None
  /\ \A r \in Run : jobs[r].status # "none" => runs[r].status = "published"
  /\ JobHoldsBarrier

\* The inventory stands still under a projecting barrier; only runs that published
\* have a revision or an evaluation.
ReadInv ==
  /\ bar.state = "projecting" => inv = frozen[bar.run]
  /\ \A i \in DOMAIN revs : runs[revs[i].run].status = "published"
  /\ \A r \in Run : evals[r].status # "none" => runs[r].status = "published"
  /\ ReadsWhatWasPublished

\* One run per connector is live, and its generation is ahead of all that its
\* connector has published or projected.
GenerationInv ==
  /\ \A q, r \in Run : SameConnector(q, r) /\ runs[q].status \in Live /\ runs[r].status \in Live => q = r
  /\ \A r \in Run : runs[r].status = "none" => runs[r].generation = 0
  /\ \A r \in Run : runs[r].status = "running" => runs[r].generation > 0
  /\ \A r \in Run : runs[r].status \in Live /\ runs[r].generation > 0 =>
       runs[r].generation >= gens[ConnectorOf[r]] /\ runs[r].generation > marks[ConnectorOf[r]]
  /\ \A q, r \in Run : /\ SameConnector(q, r) /\ runs[q].status = "published"
                       /\ runs[r].status \in Live /\ runs[r].generation > 0
                       => runs[r].generation > runs[q].generation
  /\ \A r \in Run : runs[r].status = "published" => runs[r].generation <= gens[ConnectorOf[r]]
  /\ \A c \in Connector : marks[c] <= gens[c]

\* The run being projected has its connector's last generation and no other of that
\* generation was projected.
LastInv ==
  bar.state = "projecting" =>
       /\ gens[ConnectorOf[bar.run]] = runs[bar.run].generation
       /\ Revealed(bar.run) \/ marks[ConnectorOf[bar.run]] < runs[bar.run].generation

\* A collector that passes the run's fence is under the barrier of its run.
WorkerInv(w) ==
  /\ wk[w].pc # "idle" => wk[w].run \in Run
  /\ Scanning(w) /\ OwnsRun(w, wk[w].run) => bar.state = "collecting" /\ bar.run = wk[w].run
  /\ wk[w].pc = "collected" /\ OwnsRun(w, wk[w].run) => gens[ConnectorOf[wk[w].run]] = runs[wk[w].run].generation

\* A barrier whose version is the one remembered is the one seen; what was read by a
\* pass that still owns its job is what the run published.
ProjectorInv(p) ==
  /\ pj[p].pc # "idle" => pj[p].run \in Run
  /\ pj[p].version <= bar.version
  /\ pj[p].version = bar.version =>
       /\ pj[p].pc = "seen_collecting" => bar.state = "collecting" /\ bar.run = pj[p].run
       /\ pj[p].pc = "seen_projecting" => bar.state = "projecting" /\ bar.run = pj[p].run
  /\ pj[p].pc \in {"loaded", "writing"} /\ OwnsPass(p) => pj[p].read = frozen[pj[p].run]

Inv ==
  /\ TypeOK /\ LeaseInv /\ BarrierInv /\ ReadInv /\ GenerationInv /\ LastInv
  /\ \A w \in Worker : WorkerInv(w)
  /\ \A p \in Projector : ProjectorInv(p)

Basics ==
  /\ bar \in Barrier /\ bar.version \in Nat /\ (bar.state # "idle" => bar.run \in Run)
  /\ \A i \in DOMAIN revs : revs[i].run \in Run
  /\ \A p \in Projector : pj[p].version \in Nat
  /\ \A r \in Run : runs[r].generation \in Nat /\ ConnectorOf[r] \in Connector
  /\ \A c \in Connector : gens[c] \in Nat /\ marks[c] \in Nat
  /\ NoRun \notin Run /\ None \notin Worker /\ None \notin Projector

\* The consequences of TypeOK that most steps need.
LEMMA Typed == Inv => Basics
<1> SUFFICES ASSUME Inv PROVE Basics
  OBVIOUS
<1>1. bar \in Barrier /\ bar.version \in Nat /\ (bar.state # "idle" => bar.run \in Run)
  BY DEF Inv, TypeOK, Barrier, BarrierInv
<1>2. ASSUME NEW i \in DOMAIN revs PROVE revs[i].run \in Run
  <2> DEFINE S == [run : Run, read : Nat]
  <2>1. revs \in Seq(S)
    BY DEF Inv, TypeOK
  <2>2. revs[i] \in S
    <3> HIDE DEF S
    <3> QED BY <2>1
  <2> QED BY <2>2
<1>3. \A p \in Projector : pj[p].version \in Nat
  BY DEF Inv, TypeOK, ProjectorState
<1>4. NoRun \notin Run
  BY PipelineConstants DEF Run
<1>5. \A r \in Run : runs[r].generation \in Nat /\ ConnectorOf[r] \in Connector
  BY PipelineConstants DEF Inv, TypeOK, RunRow
<1>6. \A c \in Connector : gens[c] \in Nat /\ marks[c] \in Nat
  BY DEF Inv, TypeOK
<1> QED BY <1>1, <1>2, <1>3, <1>4, <1>5, <1>6, PipelineConstants DEF Basics

-----------------------------------------------------------------------------
\* Steps that leave alone all of the rows that the invariant is about.

Quiet ==
  /\ runs' \in [Run -> RunRow]
  /\ \A r \in Run : /\ runs'[r].status = runs[r].status /\ runs'[r].owner = runs[r].owner
                    /\ runs'[r].generation = runs[r].generation
  /\ jobs' \in [Run -> JobRow]
  /\ \A r \in Run : /\ jobs'[r].status = jobs[r].status /\ jobs'[r].owner = jobs[r].owner
                    /\ jobs'[r].attempts = jobs[r].attempts
  /\ bar' \in Barrier
  /\ bar'.state = bar.state /\ bar'.run = bar.run /\ bar'.holder = bar.holder /\ bar'.version = bar.version
  /\ older' \in SUBSET (Run \X Run) /\ faults' \in Nat
  /\ UNCHANGED data

\* After a quiet step only the workers that moved need an argument.
LEMMA QuietStep ==
  ASSUME Inv, Quiet,
         wk' \in [Worker -> WorkerState], pj' \in [Projector -> ProjectorState],
         \A w \in Worker : wk'[w] = wk[w] \/ WorkerInv(w)',
         \A p \in Projector : pj'[p] = pj[p] \/ ProjectorInv(p)'
  PROVE  Inv'
<1>0. Basics
  BY Typed
<1>1. TypeOK'
  BY DEF Inv, Quiet, TypeOK, data
<1>2. LeaseInv'
  BY DEF Inv, Quiet, LeaseInv
<1>3. BarrierInv'
  BY <1>0 DEF Basics, Inv, Quiet, BarrierInv, JobHoldsBarrier
<1>4. ReadInv'
  BY <1>0 DEF Basics, Inv, Quiet, ReadInv, ReadsWhatWasPublished, data
<1>4a. GenerationInv'
  BY <1>0, Zenon DEF Basics, Inv, Quiet, GenerationInv, data
<1>4b. LastInv'
  BY <1>0 DEF Basics, Inv, Quiet, LastInv, Revealed, data
<1>5. ASSUME NEW w \in Worker PROVE WorkerInv(w)'
  <2>1. WorkerInv(w) /\ (wk'[w] = wk[w] \/ WorkerInv(w)')
    BY DEF Inv
  <2> QED BY <2>1, <1>0 DEF Basics, WorkerInv, Quiet, Scanning, OwnsRun, data
<1>6. ASSUME NEW p \in Projector PROVE ProjectorInv(p)'
  <2>1. ProjectorInv(p) /\ (pj'[p] = pj[p] \/ ProjectorInv(p)')
    BY DEF Inv
  <2> QED BY <2>1, <1>0 DEF Basics, ProjectorInv, Quiet, OwnsPass, OwnsJob, Holds, data
<1> QED BY <1>1, <1>2, <1>3, <1>4, <1>4a, <1>4b, <1>5, <1>6 DEF Inv

\* A step that changes no row is quiet.
LEMMA SameRows == ASSUME Inv, UNCHANGED <<runs, older, jobs, bar, data>>, faults' \in Nat PROVE Quiet
BY DEF Inv, TypeOK, Quiet

\* A worker that stops scanning relies on nothing.
LEMMA WorkerStops ==
  ASSUME Inv, NEW w \in Worker,
         WorkerIdle(w) \/ (wk[w].pc # "idle" /\ (WorkerAt(w, "failing") \/ WorkerAt(w, "refused")))
  PROVE  /\ wk' \in [Worker -> WorkerState]
         /\ WorkerInv(w)'
         /\ \A v \in Worker : v # w => wk'[v] = wk[v]
<1>1. CASE WorkerIdle(w)
  BY <1>1, WorkerIdleEffect DEF Inv, WorkerInv, Scanning
<1>2. ASSUME NEW pc \in {"failing", "refused"}, WorkerAt(w, pc), wk[w].pc # "idle"
      PROVE  /\ wk' \in [Worker -> WorkerState] /\ WorkerInv(w)'
             /\ \A v \in Worker : v # w => wk'[v] = wk[v]
  <2>1. pc \in WorkerPc /\ wk[w].run \in Run
    BY <1>2 DEF WorkerPc, Inv, WorkerInv
  <2> QED BY <1>2, <2>1, WorkerAtEffect DEF Inv, WorkerInv, Scanning
<1> QED BY <1>1, <1>2

\* The places of a pass where nothing that was read is still to be used.
Between == {"refused", "held", "deciding", "computing", "completing", "abandoning", "failing"}

\* A pass that is between two uses of a read relies only on its version.
LEMMA ProjectorStops ==
  ASSUME Inv, NEW p \in Projector, bar'.version \in Nat, bar'.version >= bar.version,
         ProjectorIdle(p) \/ (pj[p].pc # "idle" /\ \E pc \in Between : ProjectorAt(p, pc))
  PROVE  /\ pj' \in [Projector -> ProjectorState]
         /\ ProjectorInv(p)'
         /\ \A q \in Projector : q # p => pj'[q] = pj[q]
<1>0. Basics
  BY Typed
<1>1. CASE ProjectorIdle(p)
  BY <1>0, <1>1, ProjectorIdleEffect DEF Inv, ProjectorInv, Basics
<1>2. ASSUME NEW pc \in Between, ProjectorAt(p, pc), pj[p].pc # "idle"
      PROVE  /\ pj' \in [Projector -> ProjectorState] /\ ProjectorInv(p)'
             /\ \A q \in Projector : q # p => pj'[q] = pj[q]
  <2>1. pc \in ProjectorPc /\ pj[p].run \in Run /\ pj[p].version <= bar.version
    BY <1>2 DEF ProjectorPc, Between, Inv, ProjectorInv
  <2>2. /\ pj' \in [Projector -> ProjectorState]
        /\ pj'[p].pc = pc /\ pj'[p].run = pj[p].run /\ pj'[p].version = pj[p].version
        /\ \A q \in Projector : q # p => pj'[q] = pj[q]
    BY <1>2, <2>1, ProjectorAtEffect DEF Inv
  <2> QED BY <1>0, <1>2, <2>1, <2>2 DEF ProjectorInv, Between, Basics
<1> QED BY <1>1, <1>2

\* A scan that errs or dies changes no row.
LEMMA QuietWorker ==
  ASSUME Inv, NEW w \in Worker, ScanError(w) \/ CrashWorker(w)
  PROVE  Inv'
<1>1. Quiet /\ UNCHANGED pj
  BY SameRows DEF ScanError, CrashWorker, rows, Fault, Inv, TypeOK
<1>2. /\ wk' \in [Worker -> WorkerState] /\ WorkerInv(w)'
      /\ \A v \in Worker : v # w => wk'[v] = wk[v]
  BY WorkerStops DEF ScanError, Scanning, CrashWorker
<1> QED BY <1>1, <1>2, QuietStep DEF Inv, TypeOK

\* A lease or the barrier lapses or is renewed.
Clock ==
  \/ \E r \in Run : LapseRun(r) \/ LapseJob(r)
  \/ ExpireBarrier
  \/ \E w \in Worker : HeartbeatScan(w)
  \/ \E p \in Projector : HeartbeatPass(p)

\* Renewing or losing a lease is quiet: no fence compares the flags.
LEMMA QuietClockRows ==
  ASSUME Inv, Clock
  PROVE  Quiet /\ UNCHANGED <<wk, pj>>
<1>0. UNCHANGED <<older, wk, pj, data>>
  BY Zenon DEF Clock, LapseRun, LapseJob, ExpireBarrier, HeartbeatScan, HeartbeatPass
<1>0a. faults' \in Nat
  <2>1. UNCHANGED faults \/ Fault
    BY Zenon DEF Clock, LapseRun, LapseJob, ExpireBarrier, HeartbeatScan, HeartbeatPass
  <2> QED BY <2>1 DEF Inv, TypeOK, Fault
<1>1. \/ UNCHANGED runs
      \/ \E r \in Run, b \in BOOLEAN : runs' = [runs EXCEPT ![r].lapsed = b]
  BY Zenon DEF Clock, LapseRun, LapseJob, ExpireBarrier, HeartbeatScan, HeartbeatPass, Inv, WorkerInv, Scanning
<1>2. \/ UNCHANGED jobs
      \/ \E r \in Run, b \in BOOLEAN : jobs' = [jobs EXCEPT ![r].lapsed = b]
  BY Zenon DEF Clock, LapseRun, LapseJob, ExpireBarrier, HeartbeatScan, HeartbeatPass, Inv, ProjectorInv, Passing
<1>3. \/ UNCHANGED bar
      \/ \E b \in BOOLEAN : bar' = [bar EXCEPT !.expired = b]
  BY Zenon DEF Clock, LapseRun, LapseJob, ExpireBarrier, HeartbeatScan, HeartbeatPass
<1>4. /\ runs' \in [Run -> RunRow]
      /\ \A r \in Run : /\ runs'[r].status = runs[r].status /\ runs'[r].owner = runs[r].owner
                        /\ runs'[r].generation = runs[r].generation
  <2>1. CASE UNCHANGED runs
    BY <2>1 DEF Inv, TypeOK
  <2>2. ASSUME NEW r \in Run, NEW b \in BOOLEAN, runs' = [runs EXCEPT ![r].lapsed = b]
        PROVE  /\ runs' \in [Run -> RunRow]
               /\ runs'[r].status = runs[r].status /\ runs'[r].owner = runs[r].owner
               /\ runs'[r].generation = runs[r].generation
               /\ \A q \in Run : q # r => runs'[q] = runs[q]
    BY <2>2, Zenon DEF Inv, TypeOK, RunRow
  <2> QED BY <1>1, <2>1, <2>2
<1>5. /\ jobs' \in [Run -> JobRow]
      /\ \A r \in Run : /\ jobs'[r].status = jobs[r].status /\ jobs'[r].owner = jobs[r].owner
                        /\ jobs'[r].attempts = jobs[r].attempts
  <2>1. CASE UNCHANGED jobs
    BY <2>1 DEF Inv, TypeOK
  <2>2. ASSUME NEW r \in Run, NEW b \in BOOLEAN, jobs' = [jobs EXCEPT ![r].lapsed = b]
        PROVE  /\ jobs' \in [Run -> JobRow]
               /\ jobs'[r].status = jobs[r].status /\ jobs'[r].owner = jobs[r].owner
               /\ jobs'[r].attempts = jobs[r].attempts
               /\ \A q \in Run : q # r => jobs'[q] = jobs[q]
    BY <2>2, Zenon DEF Inv, TypeOK, JobRow
  <2> QED BY <1>2, <2>1, <2>2
<1>6. /\ bar' \in Barrier
      /\ bar'.state = bar.state /\ bar'.run = bar.run /\ bar'.holder = bar.holder /\ bar'.version = bar.version
  BY <1>3, Zenon DEF Inv, TypeOK, Barrier
<1> QED BY <1>0, <1>0a, <1>4, <1>5, <1>6 DEF Quiet, Inv, TypeOK

\* So it preserves the invariant.
LEMMA QuietClock ==
  ASSUME Inv, Clock
  PROVE  Inv'
<1>1. Quiet /\ UNCHANGED <<wk, pj>>
  BY QuietClockRows
<1> QED BY <1>1, QuietStep, Zenon DEF Inv, TypeOK

\* What is read while the barrier projects the run is what the run published.
LEMMA ReadsFrozen ==
  ASSUME Inv, NEW p \in Projector, NEW pc \in {"loaded", "writing"}, pj[p].pc # "idle", ProjectorRead(p, pc),
         UNCHANGED <<bar, frozen, jobs>>
  PROVE  /\ pj' \in [Projector -> ProjectorState]
         /\ ProjectorInv(p)'
         /\ \A q \in Projector : q # p => pj'[q] = pj[q]
<1>1. pc \in ProjectorPc /\ pj[p].run \in Run /\ pj[p].version <= bar.version
  BY DEF ProjectorPc, Inv, ProjectorInv
<1>2. /\ pj' \in [Projector -> ProjectorState]
      /\ pj'[p].pc = pc /\ pj'[p].run = pj[p].run /\ pj'[p].version = pj[p].version /\ pj'[p].read = inv
      /\ \A q \in Projector : q # p => pj'[q] = pj[q]
  BY <1>1, ProjectorReadEffect DEF Inv
<1> QED BY <1>1, <1>2 DEF Inv, ProjectorInv, ReadInv, OwnsPass, Holds

\* A pass that reads, errs or dies changes no row.
LEMMA QuietProjector ==
  ASSUME Inv, NEW p \in Projector, CrashProjector(p) \/ ProjectError(p) \/ Load(p) \/ Compute(p)
  PROVE  Inv'
<1>0. Basics
  BY Typed
<1>1. Quiet /\ UNCHANGED <<wk, bar, frozen, jobs>>
  <2>1. UNCHANGED <<rows, wk, data>>
    BY DEF CrashProjector, ProjectError, Load, Compute
  <2>2. faults \in Nat
    BY DEF Inv, TypeOK
  <2>3. faults' \in Nat
    BY <2>2 DEF CrashProjector, ProjectError, Load, Compute, Fault
  <2> QED BY <2>1, <2>3, SameRows DEF rows, data
<1>2. /\ pj' \in [Projector -> ProjectorState] /\ ProjectorInv(p)'
      /\ \A q \in Projector : q # p => pj'[q] = pj[q]
  <2>1. CASE CrashProjector(p)
    BY <1>0, <1>1, <2>1, ProjectorStops DEF CrashProjector, Basics
  <2>2. CASE ProjectError(p)
    BY <1>0, <1>1, <2>2, ProjectorStops DEF ProjectError, Between, Basics
  <2>3. CASE Load(p)
    <3>1. pj[p].pc # "idle" /\ (ProjectorAt(p, "abandoning") \/ ProjectorRead(p, "loaded"))
      BY <2>3 DEF Load
    <3> QED BY <1>0, <1>1, <3>1, ProjectorStops, ReadsFrozen DEF Between, Basics
  <2>4. CASE Compute(p)
    <3>1. pj[p].pc # "idle" /\ ProjectorRead(p, "writing")
      BY <2>4 DEF Compute
    <3> QED BY <1>1, <3>1, ReadsFrozen
  <2> QED BY <2>1, <2>2, <2>3, <2>4
<1> QED BY <1>1, <1>2, QuietStep, Zenon DEF Inv, TypeOK

\* The barrier recovery has seen is the one its version names.
LEMMA SuspectInv == ASSUME Inv, NEW p \in Projector, Suspect(p) PROVE Inv'
<1>0. Basics
  BY Typed
<1>1. Quiet /\ UNCHANGED <<wk, bar>>
  BY SameRows DEF Suspect, rows, Inv, TypeOK
<1> DEFINE pc == IF bar.state = "collecting" THEN "seen_collecting" ELSE "seen_projecting"
<1>2. bar.run \in Run /\ bar.state \in {"collecting", "projecting"}
  BY <1>0 DEF Suspect, Basics, Barrier
<1>3. /\ pj'[p].pc = pc /\ pj'[p].run = bar.run /\ pj'[p].version = bar.version
      /\ \A q \in Projector : q # p => pj'[q] = pj[q]
  BY DEF Suspect, Inv, TypeOK
<1>4. pj' \in [Projector -> ProjectorState]
  BY <1>0, <1>2 DEF Suspect, Inv, TypeOK, ProjectorState, ProjectorPc, Basics
<1>5. ProjectorInv(p)'
  BY <1>0, <1>1, <1>2, <1>3 DEF ProjectorInv, Basics
<1> QED BY <1>1, <1>3, <1>4, <1>5, QuietStep, Zenon DEF Inv, TypeOK

\* holdBarrier renews the barrier and remembers its version.
LEMMA HoldBarrierInv == ASSUME Inv, NEW p \in Projector, HoldBarrier(p) PROVE Inv'
<1>0. Basics
  BY Typed
<1>1. CASE ProjectorAt(p, "refused") /\ UNCHANGED bar
  <2>1. Quiet /\ UNCHANGED <<wk, bar>>
    BY <1>1, SameRows DEF HoldBarrier, Inv, TypeOK
  <2>2. /\ pj' \in [Projector -> ProjectorState] /\ ProjectorInv(p)'
        /\ \A q \in Projector : q # p => pj'[q] = pj[q]
    BY <1>0, <1>1, ProjectorStops DEF HoldBarrier, Between, Basics
  <2> QED BY <2>1, <2>2, QuietStep DEF Inv, TypeOK
<1>2. CASE /\ bar' = [bar EXCEPT !.expired = FALSE]
           /\ pj' = [pj EXCEPT ![p] = [@ EXCEPT !.pc = "held", !.version = bar.version]]
  <2>1. /\ bar' \in Barrier
        /\ bar'.state = bar.state /\ bar'.run = bar.run /\ bar'.holder = bar.holder /\ bar'.version = bar.version
    BY <1>0, <1>2, Zenon DEF Basics, Barrier
  <2>2. Quiet /\ UNCHANGED wk
    BY <2>1 DEF HoldBarrier, Quiet, Inv, TypeOK
  <2>3. pj[p].run \in Run
    BY DEF HoldBarrier, Inv, ProjectorInv
  <2>4. pj' \in [Projector -> ProjectorState]
    <3>1. pj[p] \in ProjectorState /\ bar.version \in Nat
      BY <1>0 DEF Inv, TypeOK, Basics
    <3>2. [pj[p] EXCEPT !.pc = "held", !.version = bar.version] \in ProjectorState
      BY <3>1, Zenon DEF ProjectorState, ProjectorPc
    <3> QED BY <1>2, <3>2 DEF Inv, TypeOK
  <2>5. /\ pj'[p].pc = "held" /\ pj'[p].run = pj[p].run /\ pj'[p].version = bar.version
        /\ \A q \in Projector : q # p => pj'[q] = pj[q]
    BY <1>2 DEF Inv, TypeOK, ProjectorState
  <2>6. ProjectorInv(p)'
    BY <1>0, <2>1, <2>3, <2>5 DEF ProjectorInv, Basics
  <2> QED BY <2>2, <2>4, <2>5, <2>6, QuietStep, Zenon DEF Inv, TypeOK
<1> QED BY <1>1, <1>2 DEF HoldBarrier

\* A run somebody holds is running.
LEMMA OwnedIsRunning == ASSUME Inv, NEW w \in Worker, NEW r \in Run, OwnsRun(w, r) PROVE runs[r].status = "running"
BY Typed DEF Inv, LeaseInv, OwnsRun, Basics

\* A job somebody holds is running.
LEMMA OwnedJobIsRunning == ASSUME Inv, NEW p \in Projector, NEW r \in Run, OwnsJob(p, r) PROVE jobs[r].status = "running"
BY Typed DEF Inv, LeaseInv, OwnsJob, Basics

\* The barrier's version never falls.
LEMMA VersionGrows == ASSUME Inv, UNCHANGED bar \/ ToIdle PROVE bar'.version \in Nat /\ bar'.version >= bar.version
<1>1. bar.version \in Nat
  BY Typed DEF Basics
<1> QED BY <1>1, ToIdleEffect DEF Inv
=============================================================================
