----------------------------- MODULE IGAPipeline -----------------------------
(***************************************************************************)
(* One workspace's AWS scans and their projection onto the graph: the scan *)
(* workers (services/cloud_aws_scan_worker.go), the projectors and their   *)
(* recovery (services/iga_projection_service.go), the evaluation step      *)
(* (services/iga_gov_evaluator.go) and the rows they share: cloud_scan_run,*)
(* iga_projection_job and the barrier iga_pipeline_lease.                  *)
(*                                                                         *)
(* A statement or transaction on the rows is one step.  The leases of runs *)
(* and jobs are compared only with the (owner, version) of the worker's    *)
(* own last claim, and a worker remembers one claim, so the pair is the    *)
(* worker that made the row's last claim, or None once it was cleared.  A  *)
(* restarted worker has forgotten its claim and so has a new name.  Clocks *)
(* are the lapsed flags: a lease may lapse whenever nobody renews it.      *)
(***************************************************************************)
EXTENDS Naturals, Sequences

CONSTANTS Worker,          \* scan workers
          Projector,       \* projection services
          None,            \* no owner
          MaxRuns,         \* bound: scans ever asked for
          Connector,       \* the connectors of the workspace
          ConnectorOf,     \* the connector of each run
          ScanMaxAttempts, \* scanMaxAttempts
          MaxProjectionAttempts,
          MaxWrites,       \* bound: inventory writes
          MaxFaults        \* bound: crashes, and leases lost by a live worker

Run == 1 .. MaxRuns
NoRun == 0

ASSUME PipelineConstants ==
  /\ MaxRuns \in Nat /\ MaxWrites \in Nat /\ MaxFaults \in Nat
  /\ ScanMaxAttempts \in Nat /\ MaxProjectionAttempts \in Nat
  /\ ConnectorOf \in [Run -> Connector]
  /\ None \notin Worker \cup Projector

VARIABLES runs,   \* cloud_scan_run rows
          older,  \* requested_at: pairs of runs, the older first
          jobs,   \* iga_projection_job rows, one per run
          bar,    \* the iga_pipeline_lease row
          wk,     \* what each scan worker is doing
          pj,     \* what each projector is doing
          inv,    \* the inventory: the number of writes made to it
          frozen, \* history: the inventory when a run published
          gens,   \* cloud_connector.scan_generation
          marks,  \* iga_projection_state: the last generation projected
          revs,   \* iga_publication rows by revision
          evals,  \* iga_gov_evaluation rows, by the run of their revision
          faults

rows == <<runs, older, jobs, bar>>
data == <<inv, frozen, gens, marks, revs, evals>>
vars == <<runs, older, jobs, bar, wk, pj, inv, frozen, gens, marks, revs, evals, faults>>

Live == {"queued", "running"}
RunStatus == Live \cup {"none", "published", "failed", "abandoned"}
JobStatus == Live \cup {"none", "failed", "complete", "abandoned"}
EvalStatus == {"none", "running", "failed", "complete", "superseded"}
WorkerPc == {"idle", "giveup", "claimed", "refused", "collecting", "collected", "failing"}
ProjectorPc == {"idle", "claimed", "refused", "held", "loaded", "deciding", "computing", "writing",
                "completing", "abandoning", "failing", "seen_collecting", "seen_projecting"}

RunRow == [status : RunStatus, owner : Worker \cup {None}, lapsed : BOOLEAN, attempts : Nat, generation : Nat]
JobRow == [status : JobStatus, owner : Projector \cup {None}, lapsed : BOOLEAN, attempts : Nat]
Barrier == [state : {"idle", "collecting", "projecting"}, run : Run \cup {NoRun},
            holder : Worker \cup {None}, version : Nat, expired : BOOLEAN]
WorkerState == [pc : WorkerPc, run : Run \cup {NoRun}, version : Nat]
ProjectorState == [pc : ProjectorPc, run : Run \cup {NoRun}, version : Nat, read : Nat]

TypeOK ==
  /\ runs \in [Run -> RunRow] /\ jobs \in [Run -> JobRow]
  /\ older \in SUBSET (Run \X Run)
  /\ bar \in Barrier
  /\ wk \in [Worker -> WorkerState] /\ pj \in [Projector -> ProjectorState]
  /\ inv \in Nat /\ frozen \in [Run -> Nat]
  /\ gens \in [Connector -> Nat] /\ marks \in [Connector -> Nat]
  /\ revs \in Seq([run : Run, read : Nat])
  /\ evals \in [Run -> [status : EvalStatus, read : Nat]]
  /\ faults \in Nat

Init ==
  /\ runs = [r \in Run |-> [status |-> "none", owner |-> None, lapsed |-> FALSE,
                            attempts |-> 0, generation |-> 0]]
  /\ older = {}
  /\ jobs = [r \in Run |-> [status |-> "none", owner |-> None, lapsed |-> FALSE, attempts |-> 0]]
  /\ bar = [state |-> "idle", run |-> NoRun, holder |-> None, version |-> 0, expired |-> FALSE]
  /\ wk = [w \in Worker |-> [pc |-> "idle", run |-> NoRun, version |-> 0]]
  /\ pj = [p \in Projector |-> [pc |-> "idle", run |-> NoRun, version |-> 0, read |-> 0]]
  /\ inv = 0 /\ frozen = [r \in Run |-> 0]
  /\ gens = [c \in Connector |-> 0] /\ marks = [c \in Connector |-> 0]
  /\ revs = <<>>
  /\ evals = [r \in Run |-> [status |-> "none", read |-> 0]]
  /\ faults = 0

-----------------------------------------------------------------------------
\* The rows.

SameConnector(q, r) == ConnectorOf[q] = ConnectorOf[r]

\* The fence of every write a worker makes for its run (assertScanFence, fenced).
OwnsRun(w, r) == runs[r].owner = w

\* Mutant: the run ends with the status a job ends with.
EndRunComplete(r, status) ==
  runs' = [runs EXCEPT ![r] = [@ EXCEPT !.status = IF status = "published" THEN "complete" ELSE status,
                                        !.owner = None, !.lapsed = FALSE]]

\* A run's row once it is over: the lease is cleared with the status.
EndRun(r, status) ==
  runs' = [runs EXCEPT ![r] = [@ EXCEPT !.status = status, !.owner = None, !.lapsed = FALSE]]

OwnsJob(p, r) == jobs[r].owner = p

SetJob(r, status) ==
  jobs' = [jobs EXCEPT ![r] = [@ EXCEPT !.status = status, !.owner = None, !.lapsed = FALSE]]

\* The barrier's fence: phase, run, version and holder.  A projecting barrier is
\* held by the job of its run, which the run names.
Holds(state, r, holder, version) ==
  bar.state = state /\ bar.run = r /\ bar.holder = holder /\ bar.version = version

ToIdle ==
  bar' = [state |-> "idle", run |-> NoRun, holder |-> None, version |-> bar.version + 1, expired |-> FALSE]

\* requested_at := now: every other run is older.
Youngest(r) == older' = {x \in older : x[1] # r} \cup {<<q, r>> : q \in Run \ {r}}

\* GREATEST(attempts - 1, 0).
Uncharged(attempts) == IF attempts > 0 THEN attempts - 1 ELSE 0

WorkerIdle(w) == wk' = [wk EXCEPT ![w] = [pc |-> "idle", run |-> NoRun, version |-> 0]]
WorkerAt(w, pc) == wk' = [wk EXCEPT ![w].pc = pc]
ProjectorIdle(p) == pj' = [pj EXCEPT ![p] = [pc |-> "idle", run |-> NoRun, version |-> 0, read |-> 0]]
ProjectorAt(p, pc) == pj' = [pj EXCEPT ![p].pc = pc]
ProjectorRead(p, pc) == pj' = [pj EXCEPT ![p] = [@ EXCEPT !.pc = pc, !.read = inv]]

-----------------------------------------------------------------------------
\* Scans.

\* A scan is asked for: one live run per connector (uq_cloud_scan_run_live).
Enqueue(r) ==
  /\ runs[r].status = "none"
  /\ \A q \in Run : q < r => runs[q].status # "none"
  /\ \A q \in Run : SameConnector(q, r) => runs[q].status \notin Live
  /\ runs' = [runs EXCEPT ![r].status = "queued"]
  /\ Youngest(r)
  /\ UNCHANGED <<jobs, bar, wk, pj, data, faults>>

ClaimableRun(r) ==
  /\ runs[r].status = "queued" \/ (runs[r].status = "running" /\ runs[r].lapsed)
  /\ \A q \in Run : SameConnector(q, r) => jobs[q].status \notin Live

\* Mutant: the generation the connector has already.
ReservedAgain(r) == IF runs[r].generation > 0 THEN runs[r].generation ELSE gens[ConnectorOf[r]]

\* The generation a claim reserves, once per run.
Reserved(r) == IF runs[r].generation > 0 THEN runs[r].generation ELSE gens[ConnectorOf[r]] + 1

\* ClaimForPipeline, and the ceiling RunOnce then applies.
Claim(w) ==
  /\ wk[w].pc = "idle"
  /\ \E r \in Run :
       /\ ClaimableRun(r)
       /\ \A q \in Run : <<q, r>> \in older => ~ClaimableRun(q)
       /\ runs' = [runs EXCEPT ![r] =
            [status |-> "running", owner |-> w, lapsed |-> FALSE, attempts |-> @.attempts + 1,
             generation |-> Reserved(r)]]
       /\ wk' = [wk EXCEPT ![w] =
            [pc |-> IF runs[r].attempts + 1 > ScanMaxAttempts THEN "giveup" ELSE "claimed",
             run |-> r, version |-> 0]]
  /\ UNCHANGED <<older, jobs, bar, pj, data, faults>>

\* The run failed too often; a barrier an earlier attempt took stays.
GiveUp(w) ==
  /\ wk[w].pc = "giveup"
  /\ WorkerIdle(w)
  /\ LET r == wk[w].run IN
     \/ OwnsRun(w, r) /\ EndRun(r, "failed")
     \/ ~OwnsRun(w, r) /\ UNCHANGED runs
  /\ UNCHANGED <<older, jobs, bar, pj, data, faults>>

\* Mutant: a run does not get back the barrier its dead holder left.
AdmitsIdle(r) == bar.state = "idle"

\* Idle, or the same run's collection whose holder is gone.
Admits(r) == bar.state = "idle" \/ (bar.state = "collecting" /\ bar.run = r /\ bar.expired)

\* AcquireForCollection: the run's own lease is not looked at.
Acquire(w) ==
  /\ wk[w].pc = "claimed"
  /\ LET r == wk[w].run IN
     \/ /\ Admits(r)
        /\ bar' = [state |-> "collecting", run |-> r, holder |-> w, version |-> bar.version + 1, expired |-> FALSE]
        /\ wk' = [wk EXCEPT ![w] = [pc |-> "collecting", run |-> r, version |-> bar.version + 1]]
     \/ ~Admits(r) /\ WorkerAt(w, "refused") /\ UNCHANGED bar
  /\ UNCHANGED <<runs, older, jobs, pj, data, faults>>

\* A refused run goes to the back of the queue and is not charged the attempt.
RequeueRun(w) ==
  /\ wk[w].pc = "refused"
  /\ WorkerIdle(w)
  /\ LET r == wk[w].run IN
     \/ /\ OwnsRun(w, r)
        /\ runs' = [runs EXCEPT ![r] = [@ EXCEPT !.status = "queued", !.owner = None, !.lapsed = FALSE,
                                                !.attempts = Uncharged(runs[r].attempts)]]
        /\ Youngest(r)
     \/ ~OwnsRun(w, r) /\ UNCHANGED <<runs, older>>
  /\ UNCHANGED <<jobs, bar, pj, data, faults>>

Scanning(w) == wk[w].pc \in {"collecting", "collected"}

\* Mutant: a write checks no fence.
CollectUnfenced(w) ==
  /\ Scanning(w)
  /\ inv < MaxWrites /\ inv' = inv + 1
  /\ UNCHANGED <<rows, wk, pj, frozen, gens, marks, revs, evals, faults>>

\* An inventory write or delete, fenced on the run and not on the barrier.
Collect(w) ==
  /\ Scanning(w)
  /\ OwnsRun(w, wk[w].run)
  /\ inv < MaxWrites /\ inv' = inv + 1
  /\ UNCHANGED <<rows, wk, pj, frozen, gens, marks, revs, evals, faults>>

\* commitScan ends the IAM scan: the connector's generation becomes the run's.
CommitScan(w) ==
  /\ wk[w].pc = "collecting"
  /\ LET r == wk[w].run IN
     \/ /\ OwnsRun(w, r)
        /\ gens' = [gens EXCEPT ![ConnectorOf[r]] = runs[r].generation]
        /\ WorkerAt(w, "collected")
     \/ ~OwnsRun(w, r) /\ WorkerAt(w, "failing") /\ UNCHANGED gens
  /\ UNCHANGED <<rows, pj, inv, frozen, marks, revs, evals, faults>>

\* AWS, the database, a lost fence or a cancelled context ends the scan.
ScanError(w) ==
  /\ Scanning(w)
  /\ WorkerAt(w, "failing")
  /\ UNCHANGED <<rows, pj, data, faults>>

\* Mutant: the barrier is freed at publication and taken again by the projector.
PublishIdle(w) ==
  /\ wk[w].pc = "collected"
  /\ LET r == wk[w].run IN
     \/ /\ OwnsRun(w, r) /\ Holds("collecting", r, w, wk[w].version)
        /\ EndRun(r, "published")
        /\ SetJob(r, "queued")
        /\ ToIdle
        /\ frozen' = [frozen EXCEPT ![r] = inv]
        /\ WorkerIdle(w)
     \/ /\ ~(OwnsRun(w, r) /\ Holds("collecting", r, w, wk[w].version))
        /\ WorkerAt(w, "failing") /\ UNCHANGED <<runs, jobs, bar, frozen>>
  /\ UNCHANGED <<older, pj, inv, gens, marks, revs, evals, faults>>

\* PublishWithCoverage: the run's publication, its job and the hand-over of the
\* barrier to the job are one transaction.
Publish(w) ==
  /\ wk[w].pc = "collected"
  /\ LET r == wk[w].run IN
     \/ /\ OwnsRun(w, r) /\ Holds("collecting", r, w, wk[w].version)
        /\ EndRun(r, "published")
        /\ SetJob(r, "queued")
        /\ bar' = [state |-> "projecting", run |-> r, holder |-> None, version |-> bar.version + 1, expired |-> FALSE]
        /\ frozen' = [frozen EXCEPT ![r] = inv]
        /\ WorkerIdle(w)
     \/ /\ ~(OwnsRun(w, r) /\ Holds("collecting", r, w, wk[w].version))
        /\ WorkerAt(w, "failing") /\ UNCHANGED <<runs, jobs, bar, frozen>>
  /\ UNCHANGED <<older, pj, inv, gens, marks, revs, evals, faults>>

\* The run fails and the barrier is released in one transaction; when either
\* fence is lost neither write lands.
FailScan(w) ==
  /\ wk[w].pc = "failing"
  /\ WorkerIdle(w)
  /\ LET r == wk[w].run IN
     \/ /\ OwnsRun(w, r) /\ Holds("collecting", r, w, wk[w].version)
        /\ EndRun(r, "failed") /\ ToIdle
     \/ ~(OwnsRun(w, r) /\ Holds("collecting", r, w, wk[w].version)) /\ UNCHANGED <<runs, bar>>
  /\ UNCHANGED <<older, jobs, pj, data, faults>>

\* The heartbeat renews the run's lease and then the barrier's, by two statements, each
\* under its own fence.
HeartbeatScan(w) ==
  /\ Scanning(w)
  /\ LET r == wk[w].run IN
     \/ /\ OwnsRun(w, r) /\ runs[r].lapsed
        /\ runs' = [runs EXCEPT ![r].lapsed = FALSE] /\ UNCHANGED bar
     \/ /\ Holds("collecting", r, w, wk[w].version) /\ bar.expired
        /\ bar' = [bar EXCEPT !.expired = FALSE] /\ UNCHANGED runs
  /\ UNCHANGED <<older, jobs, wk, pj, data, faults>>

-----------------------------------------------------------------------------
\* Projections.

ClaimableJob(r) ==
  /\ jobs[r].attempts < MaxProjectionAttempts
  /\ jobs[r].status = "queued" \/ (jobs[r].status \in {"running", "failed"} /\ jobs[r].lapsed)

\* At most one job of a workspace is claimable (JobHoldsBarrier), the oldest.
ClaimJob(p, r) ==
  /\ pj[p].pc = "idle"
  /\ ClaimableJob(r)
  /\ jobs' = [jobs EXCEPT ![r] = [status |-> "running", owner |-> p, lapsed |-> FALSE, attempts |-> @.attempts + 1]]
  /\ pj' = [pj EXCEPT ![p] = [pc |-> "claimed", run |-> r, version |-> 0, read |-> 0]]
  /\ UNCHANGED <<runs, older, bar, wk, data, faults>>

\* holdBarrier: the barrier is projecting this run for this job; it is renewed.
HoldBarrier(p) ==
  /\ pj[p].pc = "claimed"
  /\ LET r == pj[p].run IN
     \/ /\ bar.state = "projecting" /\ bar.run = r
        /\ bar' = [bar EXCEPT !.expired = FALSE]
        /\ pj' = [pj EXCEPT ![p] = [@ EXCEPT !.pc = "held", !.version = bar.version]]
     \/ ~(bar.state = "projecting" /\ bar.run = r) /\ ProjectorAt(p, "refused") /\ UNCHANGED bar
  /\ UNCHANGED <<runs, older, jobs, wk, data, faults>>

RequeueJob(p) ==
  /\ pj[p].pc = "refused"
  /\ ProjectorIdle(p)
  /\ LET r == pj[p].run IN
     \/ /\ OwnsJob(p, r)
        /\ jobs' = [jobs EXCEPT ![r] = [@ EXCEPT !.status = "queued", !.owner = None, !.lapsed = FALSE,
                                                !.attempts = Uncharged(jobs[r].attempts)]]
     \/ ~OwnsJob(p, r) /\ UNCHANGED jobs
  /\ UNCHANGED <<runs, older, bar, wk, data, faults>>

\* Load: one repeatable-read snapshot of the inventory, and whether the connector
\* has moved past the run's generation.
Load(p) ==
  /\ pj[p].pc = "held"
  /\ LET r == pj[p].run IN
     \/ gens[ConnectorOf[r]] > runs[r].generation /\ ProjectorAt(p, "abandoning")
     \/ gens[ConnectorOf[r]] <= runs[r].generation /\ ProjectorRead(p, "loaded")
  /\ UNCHANGED <<rows, wk, data, faults>>

\* The fence of the graph transaction and of every evaluation write.
OwnsPass(p) == OwnsJob(p, pj[p].run) /\ Holds("projecting", pj[p].run, None, pj[p].version)

Revealed(r) == \E i \in DOMAIN revs : revs[i].run = r

\* projectAndReconcile: the one transaction.  A run that has its revision is done;
\* a generation already projected is superseded or inconsistent.
Project(p) ==
  /\ pj[p].pc = "loaded"
  /\ LET r == pj[p].run
         c == ConnectorOf[r]
         g == runs[r].generation IN
     \/ /\ OwnsPass(p) /\ ~Revealed(r) /\ g > marks[c]
        /\ revs' = Append(revs, [run |-> r, read |-> pj[p].read])
        /\ marks' = [marks EXCEPT ![c] = g]
        /\ evals' = [evals EXCEPT ![r].status = "running"]
        /\ ProjectorAt(p, "deciding")
     \/ /\ OwnsPass(p) => Revealed(r) \/ g <= marks[c]
        /\ ProjectorAt(p, IF OwnsPass(p) /\ Revealed(r) THEN "deciding"
                          ELSE IF OwnsPass(p) /\ g < marks[c] THEN "abandoning" ELSE "failing")
        /\ UNCHANGED <<revs, marks, evals>>
  /\ UNCHANGED <<rows, wk, inv, frozen, gens, faults>>

\* An error of the snapshot or of the transaction.
ProjectError(p) ==
  /\ pj[p].pc \in {"held", "loaded"}
  /\ ProjectorAt(p, "failing")
  /\ UNCHANGED <<rows, wk, data, faults>>

NewerComplete(r) ==
  \E i, k \in DOMAIN revs : i < k /\ revs[i].run = r /\ evals[revs[k].run].status = "complete"

\* evaluate, first transaction: nothing to do, superseded, or go (again).
Decide(p) ==
  /\ pj[p].pc = "deciding"
  /\ LET r == pj[p].run
         open == OwnsPass(p) /\ evals[r].status \notin {"complete", "superseded"} IN
     \/ ~open /\ ProjectorAt(p, "completing") /\ UNCHANGED evals
     \/ open /\ NewerComplete(r) /\ evals' = [evals EXCEPT ![r].status = "superseded"] /\ ProjectorAt(p, "completing")
     \/ open /\ ~NewerComplete(r) /\ evals' = [evals EXCEPT ![r].status = "running"] /\ ProjectorAt(p, "computing")
  /\ UNCHANGED <<rows, wk, inv, frozen, gens, marks, revs, faults>>

\* compute reads the inventory under no fence.
Compute(p) ==
  /\ pj[p].pc = "computing"
  /\ ProjectorRead(p, "writing")
  /\ UNCHANGED <<rows, wk, data, faults>>

\* Mutant: the result is written without proving that the pass is still the job's.
WriteEvaluationUnfenced(p) ==
  /\ pj[p].pc = "writing"
  /\ LET r == pj[p].run IN
     \/ evals[r].status = "running" /\ evals' = [evals EXCEPT ![r] = [status |-> "complete", read |-> pj[p].read]]
     \/ evals[r].status # "running" /\ UNCHANGED evals
  /\ ProjectorAt(p, "completing")
  /\ UNCHANGED <<rows, wk, inv, frozen, gens, marks, revs, faults>>

\* writeTx: fenced, and only a running evaluation is completed.
WriteEvaluation(p) ==
  /\ pj[p].pc = "writing"
  /\ LET r == pj[p].run
         mine == OwnsPass(p) /\ evals[r].status = "running" IN
     \/ mine /\ evals' = [evals EXCEPT ![r] = [status |-> "complete", read |-> pj[p].read]]
     \/ ~mine /\ UNCHANGED evals
  /\ ProjectorAt(p, "completing")
  /\ UNCHANGED <<rows, wk, inv, frozen, gens, marks, revs, faults>>

\* An error, in the decision too, or the budget: failed is recorded under the same fence.
FailEvaluation(p) ==
  /\ pj[p].pc \in {"deciding", "computing", "writing"}
  /\ LET r == pj[p].run
         mine == OwnsPass(p) /\ evals[r].status = "running" IN
     \/ mine /\ evals' = [evals EXCEPT ![r].status = "failed"]
     \/ ~mine /\ UNCHANGED evals
  /\ ProjectorAt(p, "completing")
  /\ UNCHANGED <<rows, wk, inv, frozen, gens, marks, revs, faults>>

\* The job ends and the barrier is released in one transaction, or neither.
EndPass(p, status) ==
  /\ LET r == pj[p].run IN
     \/ OwnsPass(p) /\ SetJob(r, status) /\ ToIdle
     \/ ~OwnsPass(p) /\ UNCHANGED <<jobs, bar>>
  /\ ProjectorIdle(p)
  /\ UNCHANGED <<runs, older, wk, data, faults>>

CompleteAndRelease(p) == pj[p].pc = "completing" /\ EndPass(p, "complete")
AbandonAndRelease(p) == pj[p].pc = "abandoning" /\ EndPass(p, "abandoned")

\* failKeepBarrier: retried after a backoff, given up at the ceiling.
FailKeepBarrier(p) ==
  /\ pj[p].pc = "failing"
  /\ LET r == pj[p].run IN
     \/ jobs[r].attempts >= MaxProjectionAttempts /\ EndPass(p, "abandoned")
     \/ /\ jobs[r].attempts < MaxProjectionAttempts
        /\ IF OwnsJob(p, r) THEN SetJob(r, "failed") ELSE UNCHANGED jobs
        /\ ProjectorIdle(p)
        /\ UNCHANGED <<runs, older, bar, wk, data, faults>>

Passing(p) == pj[p].pc \in {"held", "loaded", "deciding", "computing", "writing", "completing", "abandoning", "failing"}

HeartbeatPass(p) ==
  /\ Passing(p)
  /\ LET r == pj[p].run
         b == Holds("projecting", r, None, pj[p].version) IN
     /\ OwnsJob(p, r)
     /\ jobs[r].lapsed \/ (b /\ bar.expired)
     /\ jobs' = [jobs EXCEPT ![r].lapsed = FALSE]
     /\ bar' = IF b THEN [bar EXCEPT !.expired = FALSE] ELSE bar
  /\ UNCHANGED <<runs, older, wk, pj, data, faults>>

-----------------------------------------------------------------------------
\* Recovery.

\* ExpiredCandidates: the expired barrier is read ...
Suspect(p) ==
  /\ pj[p].pc = "idle"
  /\ bar.state # "idle" /\ bar.expired
  /\ pj' = [pj EXCEPT ![p] =
       [pc |-> IF bar.state = "collecting" THEN "seen_collecting" ELSE "seen_projecting",
        run |-> bar.run, version |-> bar.version, read |-> 0]]
  /\ UNCHANGED <<rows, wk, data, faults>>

\* Mutant: recovery looks at projections only.
UnreachableProjecting(p) ==
  LET r == pj[p].run IN
  /\ pj[p].pc = "seen_projecting"
  /\ \/ jobs[r].status \in {"none", "abandoned"}
     \/ jobs[r].status \in {"queued", "running", "failed"} /\ jobs[r].attempts >= MaxProjectionAttempts

\* Mutant: recovery ends collections only.
UnreachableCollecting(p) == pj[p].pc = "seen_collecting" /\ runs[pj[p].run].status \notin Live

\* ... and judged later, on the rows of that moment (recoveryFor).
Unreachable(p) ==
  LET r == pj[p].run IN
  \/ pj[p].pc = "seen_collecting" /\ runs[r].status \notin Live
  \/ /\ pj[p].pc = "seen_projecting"
     /\ \/ jobs[r].status \in {"none", "abandoned"}
        \/ /\ jobs[r].status \in {"queued", "running", "failed"}
           /\ ~(jobs[r].status = "running" /\ ~jobs[r].lapsed)
           /\ jobs[r].attempts >= MaxProjectionAttempts

\* AbandonTx: run and job terminal, barrier idle, fenced on the version alone.
AbandonBarrier(p) ==
  LET r == pj[p].run IN
  /\ IF runs[r].status \in Live THEN EndRun(r, "abandoned") ELSE UNCHANGED runs
  /\ IF jobs[r].status \in Live THEN SetJob(r, "abandoned") ELSE UNCHANGED jobs
  /\ ToIdle

Recover(p) ==
  /\ pj[p].pc \in {"seen_collecting", "seen_projecting"}
  /\ LET r == pj[p].run
         same == bar.version = pj[p].version
         complete == pj[p].pc = "seen_projecting" /\ jobs[r].status = "complete" IN
     \/ Unreachable(p) /\ same /\ AbandonBarrier(p)
     \/ complete /\ Holds("projecting", r, None, pj[p].version) /\ ToIdle /\ UNCHANGED <<runs, jobs>>
     \/ ~(Unreachable(p) /\ same) /\ ~(complete /\ Holds("projecting", r, None, pj[p].version)) /\ UNCHANGED <<runs, jobs, bar>>
  /\ ProjectorIdle(p)
  /\ UNCHANGED <<older, wk, data, faults>>

-----------------------------------------------------------------------------
\* Faults and time.

Fault == faults < MaxFaults /\ faults' = faults + 1

CrashWorker(w) ==
  /\ wk[w].pc # "idle"
  /\ Fault /\ WorkerIdle(w)
  /\ UNCHANGED <<rows, pj, data>>

CrashProjector(p) ==
  /\ pj[p].pc # "idle"
  /\ Fault /\ ProjectorIdle(p)
  /\ UNCHANGED <<rows, wk, data>>

\* A lease nobody renews lapses; a live worker losing its lease is a fault.
LapseRun(r) ==
  /\ runs[r].status = "running" /\ ~runs[r].lapsed
  /\ runs' = [runs EXCEPT ![r].lapsed = TRUE]
  /\ IF \E w \in Worker : wk[w].run = r /\ OwnsRun(w, r) THEN Fault ELSE UNCHANGED faults
  /\ UNCHANGED <<older, jobs, bar, wk, pj, data>>

LapseJob(r) ==
  /\ jobs[r].status \in {"running", "failed"} /\ ~jobs[r].lapsed
  /\ jobs' = [jobs EXCEPT ![r].lapsed = TRUE]
  /\ IF \E p \in Projector : (pj[p].pc = "claimed" \/ Passing(p)) /\ pj[p].run = r /\ OwnsJob(p, r)
     THEN Fault ELSE UNCHANGED faults
  /\ UNCHANGED <<runs, older, bar, wk, pj, data>>

BarrierTended ==
  \/ \E w \in Worker : Scanning(w) /\ OwnsRun(w, wk[w].run) /\ Holds("collecting", wk[w].run, w, wk[w].version)
  \/ \E p \in Projector : Passing(p) /\ OwnsPass(p)

ExpireBarrier ==
  /\ bar.state # "idle" /\ ~bar.expired
  /\ bar' = [bar EXCEPT !.expired = TRUE]
  /\ IF BarrierTended THEN Fault ELSE UNCHANGED faults
  /\ UNCHANGED <<runs, older, jobs, wk, pj, data>>

-----------------------------------------------------------------------------
ScanStep(w) ==
  Claim(w) \/ GiveUp(w) \/ Acquire(w) \/ RequeueRun(w) \/ CommitScan(w) \/ Publish(w) \/ FailScan(w)

PassStep(p) ==
  \/ HoldBarrier(p) \/ RequeueJob(p) \/ Load(p) \/ Project(p) \/ Decide(p) \/ Compute(p) \/ WriteEvaluation(p)
  \/ CompleteAndRelease(p) \/ AbandonAndRelease(p) \/ FailKeepBarrier(p) \/ Recover(p)

Next ==
  \/ \E w \in Worker : ScanStep(w) \/ Collect(w) \/ ScanError(w) \/ HeartbeatScan(w) \/ CrashWorker(w)
  \/ \E p \in Projector : \/ PassStep(p) \/ Suspect(p) \/ ProjectError(p) \/ FailEvaluation(p)
                          \/ HeartbeatPass(p) \/ CrashProjector(p)
  \/ \E p \in Projector, r \in Run : ClaimJob(p, r)
  \/ \E r \in Run : Enqueue(r) \/ LapseRun(r) \/ LapseJob(r)
  \/ ExpireBarrier

Spec == Init /\ [][Next]_vars

\* Every worker keeps going; every projector's loop keeps trying to claim and then
\* to recover; a lease nobody renews lapses.
Fairness ==
  /\ \A w \in Worker : WF_vars(ScanStep(w))
  /\ \A p \in Projector : WF_vars(PassStep(p)) /\ SF_vars(Suspect(p))
  /\ \A p \in Projector : SF_vars(\E r \in Run : ClaimJob(p, r))
  /\ \A r \in Run : WF_vars(LapseRun(r)) /\ WF_vars(LapseJob(r))
  /\ WF_vars(ExpireBarrier)

FairSpec == Spec /\ Fairness

-----------------------------------------------------------------------------
\* The pipeline implements the serial one: the inventory writes, which check only
\* the run's lease, all fall in the collecting phase of their run.
Serial == INSTANCE SerialPipeline WITH
  state <- bar.state, cur <- bar.run, done <- {r \in Run : runs[r].status = "published"}

ImplementsSerial == Serial!Spec

\* A revision, and the evaluation of it, show the inventory exactly as the run's
\* publication left it (the barrier of AcquireForCollection and ToProjectingTx).
ReadsWhatWasPublished ==
  /\ \A i \in DOMAIN revs : revs[i].read = frozen[revs[i].run]
  /\ \A r \in Run : evals[r].status = "complete" => evals[r].read = frozen[r]

\* The barrier is projecting a run exactly as long as the run's job can still be
\* worked: Publish hands it over, and only the job's end or recovery gives it back.
JobHoldsBarrier ==
  \A r \in Run : jobs[r].status \in {"queued", "running", "failed"} <=> bar.state = "projecting" /\ bar.run = r

\* A pass that still owns its job and barrier is never superseded (Load, Project):
\* generations of a connector are projected in order, each once.
NeverSuperseded ==
  \A p \in Projector : pj[p].pc \in {"held", "loaded"} /\ OwnsPass(p) =>
    LET r == pj[p].run IN
    /\ gens[ConnectorOf[r]] = runs[r].generation
    /\ Revealed(r) \/ marks[ConnectorOf[r]] < runs[r].generation

\* A scan that was asked for ends, whatever workers claim, lose and requeue it
\* (Claim's ceiling, RequeueRun).
ScansEnd == \A r \in Run : runs[r].status \in Live ~> runs[r].status \notin Live

\* The projection of what a run published ends, complete or given up, even when its
\* last attempt dies (FailKeepBarrier, recoveryFor).
ProjectionsEnd == \A r \in Run : jobs[r].status = "queued" ~> jobs[r].status \in {"complete", "abandoned"}

\* A dead worker never keeps the workspace: a busy barrier becomes idle again, even
\* one taken for a run that has ended.
BarrierFreed == bar.state # "idle" ~> bar.state = "idle"

\* RunProjection's comment: Rev is "nil for good when the job was abandoned".
AbandonedHasNoRevision == \A r \in Run : jobs[r].status = "abandoned" => ~Revealed(r)
=============================================================================
