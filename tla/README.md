# TLA+ models of AuthSec's background protocols

AuthSec discovers identities in cloud accounts and clusters, projects them onto a graph, and enforces
decisions about them. Three parts of that work are protocols between processes that crash, stall
and race, and they are modelled here:

- **deployment**: a policy compiled into a plan of IAM calls is applied to a role by background jobs;
- **the scan pipeline**: scans of an account are collected by workers, then projected and evaluated
  by others, one at a time per workspace;
- **actuation**: a quarantine is turned into instructions that agents in a cluster lease and report.

## The system and what is modelled

| Part | Code | Module |
|---|---|---|
| Job rows and the statements on them | `repository/iga_gov_job_repository.go` | `PolicyJobRows` |
| Job queue and worker slots | the same, `services/iga_gov_job_worker.go` | `PolicyJobQueue`, `PolicyJobQueueProofs` |
| Classifier of live reads | `internal/igagov/recover.go` | `IGAGovClassify` |
| A plan resumed at any point | the same | `IGAGovResume`, `IGAGovResumeProofs` |
| Deployment: attempt log, executor, jobs, sweep, resolve, handoff | `services/iga_gov_attempt_log.go`, `iga_gov_aws_executor.go`, `iga_gov_deploy_{service,sweep,drift,routes}.go` | `IGAGovDeploy` |
| What the workspace barrier promises | `repository/iga_pipeline_lease_repository.go` | `SerialPipeline` |
| Scan workers, projectors, evaluation, recovery | `services/cloud_aws_scan_worker.go`, `iga_projection_service.go`, `iga_gov_evaluator.go`, `repository/cloud_scan_run_repository.go`, `iga_projection_job_repository.go`, `scan_fence.go` | `IGAPipeline`, `IGAPipeline{Inv,Scan,HandOver,Pass,Eval,Proofs}` |
| Quarantine, instructions, leases, reports, reaper | `services/actuation_service.go`, `governance_actuation_worker.go`, `discovery_service.go` | `Actuation` |

`MCPolicyJobQueue`, `MCIGAGovDeploy` and `MCIGAPipeline` give the small instances their values.
`IGAGovDeploy` composes the modules above it: its jobs are rows of `PolicyJobRows`, moved by the
same row operators as in `PolicyJobQueue`, and its executor reads AWS through `IGAGovClassify`.
`PROJECT.json` lists every other part of the repository with the reason it is left out.

### PolicyJobRows and PolicyJobQueue

A row keeps kind, key, status, owner, lease_version and attempts. Times become what the
statements ask of them: `due` (run_after has come), `recent` (completed within the periodic
interval) and `lease` (ample, short of the margin for an external call, lapsed). Each statement is
one SQL command and so one step, with one exception: the INSERT of a periodic or one-shot job looks for
finished jobs in the snapshot it began with, and for an open one in the latest rows (ON CONFLICT). It
is two steps, `EnqueuePeriodicTx` or `EnqueueOnceTx` and then `InsertSelected`, with `stmts` holding the
statement a scheduler replica is in the middle of. A slot (`runs`) is one goroutine of a worker process; the slots
of a process share `lease_owner`. The handler is open: it makes fenced transactions (`InTx`)
and external calls (`ExternalBegin`, `ExternalEnd`) in any order, may stall between any two steps,
and returns any outcome. `wrote` is a history variable, the version of the last fenced write.

### IGAGovClassify and IGAGovResume

A plan maps ops to the facts each moves (`opEffects`); a read is the set of facts at their after
value, and whether some fact has neither value. `NextOp` is the first prefix of the plan that
explains the read. `IGAGovResume` runs any plan up to any point and asks the classifier.

### IGAGovDeploy

| Variable | Stands for |
|---|---|
| `jobs`, `runs` | latest deploy and resolve_unknown row of each deployment; the slots' memory |
| `dep` | `iga_gov_deployment`: state, completed_ops, settle_after, whether anything was sent, last reading |
| `att` | the latest `iga_gov_attempt` of each deployment |
| `ledger` | the `boundary_policy` row of `iga_gov_artifact` |
| `net`, `landed`, `vis` | AWS: requests in the air, how often each op was applied, what every read shows |
| `lock`, `asks` | an operator's open transaction; operator requests so far |

`runs[s].at` is where a handler stands; each action is the code up to the next point where
another process can see or change something. The deploy job goes load, start, recover, check, read,
recognise, intend, prepare, dispatch, wait, and round to read, then readback, ledger, applied, with
`stop` for blocked and failed. The resolve_unknown job goes settled, classify, record, then
resolve and redeploy, or unresolved.

### SerialPipeline and IGAPipeline

`SerialPipeline` is what a reader of the graph may rely on: one run at a time collects, its inventory
stands still from its publication to the end of its projection, and its one revision shows exactly
that inventory. It has no workers, leases or crashes. `IGAPipeline` is the code:

| Variable | Stands for |
|---|---|
| `runs`, `older` | `cloud_scan_run` rows; requested_at as an order |
| `jobs` | `iga_projection_job` rows, one per run |
| `bar` | the workspace's `iga_pipeline_lease` row |
| `wk`, `pj` | what each scan worker and each projector is doing, and what it remembers |
| `inv`, `gens`, `marks` | inventory (a count of writes), `scan_generation`, last projected generation |
| `revs`, `evals` | `iga_publication` and `iga_gov_evaluation` rows |
| `frozen` | history: the inventory when a run published |

A scan worker claims a run, acquires the barrier (or requeues the run), writes inventory under the
run's fence, commits the generation, publishes run, job and barrier in one transaction, or fails run
and barrier in another. A projector claims the job, holds the barrier, loads a snapshot, writes the
revision in one transaction, evaluates it in three steps, and ends job and barrier together; between
jobs it reads expired barriers and, in a later step, judges and abandons them. Heartbeats, lost leases and
crashes come at any moment; a scan's heartbeat renews its two leases by two statements. `Claim` takes
the oldest claimable run. The code's SKIP LOCKED passes over a run another claim has locked: when that
claim commits, this is the order of the model with that claim first; a claim that locks a run and then
rolls back, so that a younger run is taken, is not modelled. The owner and version of a lease are compared only with those of the
worker's own last claim, so the pair is modelled as the worker that made the last claim.

`ImplementsSerial` is `SerialPipeline` with the barrier's state and run, the published runs, the
inventory and the revisions substituted.

### Actuation

| Variable | Stands for |
|---|---|
| `insts` | `provisioning_instructions` in created_at order |
| `agent` | the `discovered_agents` row: quarantined, enforced, with an error |
| `adm`, `hs` | where each admin's request and each report request stands, and the row it read |
| `todo`, `reports`, `denied` | the cluster: what pods leased, reports on the way, the deny policy |
| `done`, `decisions`, `faults` | history and bounds |

No handler uses a transaction: decision, supersession, enqueue and the read of an existing row are steps
of their own, and so are a report's read, its conditional write, the classification of a refusal, the
record of a late success and the fold into the agent's row. The pods' code is not in the repository; a
pod acts on what it leased in any order and succeeds or not. A pod outside `Named` reports without a
name, as the agents already deployed do, and leases with or without one. `Report` does not compare a
name that is not given, so `LiveLeaseIsItsHolders` lets such a report end a lease.

## Assumptions

- PostgreSQL runs READ COMMITTED; a statement is atomic (but for the INSERT above), and so is a transaction that first locks
  the row it decides on. `resolveApplying` is two steps because its count of running jobs
  is not protected by the lock it holds.
- Workers compare lease times on one clock.

Deployment:

- A request leaves with the commit of Dispatch. It is processed or lost before settle_after, which
  is what the settle window is for.
- A read may miss effects not replicated yet, but a reading at least `DefaultUnknownReadingGap`
  (5 minutes) after the one before shows what had been applied by then.
- A change by someone else shows as a conflict, never as exactly a state of the plan.
- CloudTrail evidence is true when there is any; there may be none.
- Delays other than the lease, settle_after and the reading gap are dropped: a delayed step may
  come at any later time. This includes `settleStuck`'s periodic interval.
- Every deployment is of one role. Shutdown is a retry. Retry budgets, gates and refusals are
  choices of `Load` and `CannotGoOn`. After `FailExhaustedJobs` the hook is the sweep's own step.
- An error answer proves that the request was not applied. `ClassifyOpResponse` takes some for
  `recognised_done` or `not_needed`, when the op's effect is there already; `AppliedOnce` and the
  assumption on other writers keep a request of these plans from meeting it, so the answers are left out.
- Op 1 of a plan creates the boundary policy. The ledger means nothing for `VersionAndTag`, whose
  run does not look at it.
- The `rereadWithoutAttempt` branch of the resolve handler is a defence; `UnknownHasCause` shows
  it is not reached within the bounds of `deploy_recovery`.

Pipeline:

- The projection gate is on for the workspace; workers that claim without it are not modelled.
- A failed job's `lease_expires_at` is its backoff, so the `lapsed` flag stands for both.
- Connectors and runs are not deleted, so the recovery branches for missing rows are left out.
- A heartbeat that finds one of its two leases lost cancels the work at some later moment (`ScanError`,
  `ProjectError`), which is the weakest reading of a cancelled context.

Actuation:

- The cluster has not enabled eviction, so a quarantine queues one instruction.
- A lease that lapses while a pod, a report or a request is still at work counts as a fault.

## Runs

| Run | Specification | Checks | Distinct states |
|---|---|---|---|
| `queue` | FairSpec | `TypeOK SingleHolder AttemptsAtClaimAreCurrent QueuedIsClaimable WritesInLeaseOrder FinishedIsFinal OpenJobFinishes` | 142,858 |
| `queue_enqueue` | Spec | `OneOpenPerKey PeriodicBurst` | 2,031,624 |
| `resume` | Spec | `TypeOK ResumeNeverSkips ResumeRepeatsOnlyUnseen UnknownResolved` | 979 |
| `deploy_recovery` | Spec | `TypeOK AppliedOnce ReleasedIsQuiet DoneHasLanded UnknownHasCause` | 1,100,585 |
| `deploy_handoff` | Spec | `DoneHasLanded UnknownHasCause StopSettlesLedger` | 293,398 |
| `deploy_swept` | SweptSpec | `AppliedOnce AppliedMeansAll ResolvedTruthfully NeverForgotten` | 969,888 |
| `pipeline` | Spec | `TypeOK ReadsWhatWasPublished JobHoldsBarrier NeverSuperseded ImplementsSerial` | 279,298 |
| `pipeline_liveness` | FairSpec | `ScansEnd ProjectionsEnd BarrierFreed` | 65,881 |
| `actuation` | FairSpec | `TypeOK AppliedWasDone FoldedOnce WithinAttempts ClosedIsFinal LiveLeaseIsItsHolders InstructionsClose` | 596,220 |
| `deploy_ledger` | Spec | `RemovedWasNeverCreated`: violated | |
| `deploy_race` | Spec | `SenderHoldsRole`: violated | |
| `actuation_converge` | OrderedSpec | `ConvergesOnDecision`: violated | |

Five configurations are kept to be run by hand, each a counterexample described below:
`MCQueueOnce.cfg` and `MCQueuePeriodic.cfg` (module `MCPolicyJobQueue`), `MCDeploySettle.cfg`
(`MCIGAGovDeploy`), `MCPipelineRevision.cfg` (`MCIGAPipeline`) and `MCActuationRelease.cfg` (`Actuation`).

**What the operator runs do not cover.** An operator's declaration is two steps in every run. Its race
with a claim breaks `SenderHoldsRole` (`deploy_race`), and also `ResolvedTruthfully`: the bounds of
`MCDeployRace.cfg`, with that invariant in place of its own, give a counterexample with one slot and two
operator requests (a declaration whose check is stale when it commits, then a re-read). `deploy_swept`
allows one operator request (`MaxAsks = 1`), and it is this bound that keeps that race out of it. So
`ResolvedTruthfully` is shown for the recovery by readings, with at most one operator request, and is
false of the code with two. For `AppliedOnce`, `AppliedMeansAll` and `ReleasedIsQuiet` under those two
requests nine minutes of search each found no counterexample and did not exhaust the states: with two
requests these three are open (`deploy_recovery` has no operator request). `deploy_handoff` has two
requests and one claim of each job, and its three properties hold with the race.

**Bounds.** `MaxAttempts` of 1 to 3 stands for 5: the first, a middle and the last attempt differ.
`MaxClaims` bounds the claims of a subject's job; two are needed for a takeover and for two
readings, so `deploy_handoff`, with one, never resolves an outcome by readings. A send after a crashed run's
outcome was resolved takes three deploy claims (crash, takeover, resumption): `deploy_swept` has
three, with one slot, and `AppliedOnce` is checked there for that case and in `deploy_recovery`,
with two claims, for takeovers between two processes. `MaxAsks` bounds
operator requests, `MaxGiveBacks` handed-back attempts, `JobId` the rows. `queue` has one row, two
processes and no scheduler; `queue_enqueue` has three rows, one slot and one scheduler replica, whose
statement may be overtaken by the worker: three completions in an interval would break `PeriodicBurst`. Plans have one or two ops in
`IGAGovDeploy` and up to four over three facts in `IGAGovResume`. `deploy_recovery` has two
processes and no operator; the runs with an operator have one slot.

In `pipeline` two workers and two projectors share two scans of one account, with two faults: enough for
a worker to lose its run, a projector its job, and recovery to judge a barrier that has moved on. In
`pipeline_liveness` two accounts contend and any one process may die; retries are two deep. In `actuation`
there are two decisions (a quarantine with its release, or a repeat of it), two pods of which one
reports without a name, two report requests at a time, two attempts of the code's
`maxActuationAttempts`, and one fault, which may be a second copy of a report. It has one admin, whose
second decision may follow while the first's instruction is in any state; with two admins deciding at
once the same properties hold on 1,966,019 states, in thirteen minutes. Longer histories are not covered by the runs;
the proofs cover them for the queue and the pipeline.

**Deadlock** is not checked: a queue with no due job, a finished deployment, an idle pipeline and a
spent bound are proper ends.

**Symmetry** is used for safety only: the two processes with their slots, the deployments, and the
workers and projectors of `pipeline` are interchangeable, and so are the rows of `queue_enqueue`.

**Fairness.** Queue `FairSpec`: handlers return (their contexts are cancelled and calls time out), claims
go in run_after order so no due job is passed over for ever, the sweep runs on every tick, clocks
advance. `SweptSpec`: weak fairness of the sweep of each deployment, which a periodic sweeper gives,
and of the end of an operator's transaction. Pipeline `FairSpec`: workers take their next step; a
projector's loop alternates between claiming and recovering, so each of the two is taken if it is
possible again and again; leases nobody renews lapse. Actuation `FairSpec`: pods poll on a timer and act,
reports arrive unless lost, requests run to their end, leases lapse and the reaper's ticker fires.
Inventory writes, errors, crashes and decisions are never forced.

## Disagreements between code and comments

- `deploy_ledger`: an unknown CreatePolicy resolved `applied` is not in completed_ops until the next
  run recognises it. If that run stops first, the ledger row becomes `removed`, "(it was never
  created)", though AWS created the policy.
- `deploy_race`: a claim between `resolveApplying`'s count of running jobs and its commit leaves a
  job that sends for a deployment already handed off.
- `actuation_converge`: a release leaves a leased quarantine alone, because "the cluster converges on the
  newer decision either way". With two pods the release may be leased and applied first and the
  quarantine land after it; every instruction is then done and the released agent is still blocked.
  It happens although each pod acts on its instructions oldest first (`OrderedSpec`).
- `MCQueueOnce.cfg`, `OnceEver`: pruning a finished one-shot row lets its key be enqueued again; the
  scheduler says "at most once ever" (`services/iga_gov_job_scheduler.go:64`).
- `MCQueuePeriodic.cfg`, `PeriodicSpacing`: a replica's INSERT finds no job completed within the interval,
  the open job of the subject completes, and the INSERT then meets no open row: a second job of the subject
  runs in the same interval. The scheduler says "N replicas ticking together still produce one job
  per subject per interval" (`services/iga_gov_job_scheduler.go:22-23`). What holds is `PeriodicBurst`: every
  replica can add one such job, no more.
- `MCDeploySettle.cfg`, `NoConflictBeforeSettle`: the sweep takes the newest resolve_unknown row for the
  current outcome's. A failed row of an earlier outcome lets a later one be declared unresolved and
  handed off before settle_after (`migrations/master/051_iga_gov_rollout.sql:98-99`). It takes two
  crashes at the last attempt (a trace of 44 states).
- `MCPipelineRevision.cfg`, `AbandonedHasNoRevision`: when the graph transaction commits on the last
  attempt and the job's lease is lost before it is completed, recovery abandons a job that has a revision;
  `repository/cloud_scan_run_repository.go:143-144` says the revision is "nil for good when the job was
  abandoned or superseded".
- `MCActuationRelease.cfg`, `EnforcementEndsWithRelease`: the report of a quarantine that was leased before
  the release supersedes it is folded into the agent afterwards and sets `quarantine_enforced_at` on a
  released agent, until the release is reported; the comment says enforcement state "does not survive the
  release" (`repository/discovery_repository.go:1128-1129`). `FoldedOnce` keeps a second copy of
  the same report from doing it.

These are traces of the models under the assumptions above; none was reproduced on a running system.

## Proofs

`PolicyJobQueueProofs` proves, for any slots, processes, rows, keys and limits: `TypeOK`,
`SingleHolder`, `AttemptsAtClaimAreCurrent`, `QueuedIsClaimable`, `OneOpenPerKey`,
`WritesInLeaseOrder` and `FinishedIsFinal`, from `RowConstants` and `QueueConstants`.
`SingleHolder` is not inductive: a stalled run could hold a version the row reaches later. The
invariant `IInv` adds `FenceInv` (a run's version never exceeds the row's, no two runs share a
version of a row, and attempts stand still while the row runs at the run's version) and `CountInv`
(attempts against the ceiling, and writes never ahead of the row). `QuietStep` covers the steps that
leave versions and attempts alone; the others have a lemma each, and `NextInv` combines them.

`IGAGovResumeProofs` proves the four properties of `IGAGovResume` for every plan whose ops move
facts of their own. `NextOp` takes a least element, which exists by well-foundedness
(`LeastPosition`); prefixes grow (`PrefixGrows`), and an op's facts show in exactly the prefixes that
contain it (`OpShowsInPrefix`), so a prefix before an observable op differs from one after it.

`IGAPipelineProofs` proves, from `PipelineConstants`, for any number of workers, projectors, connectors, runs, attempts and faults:
`TypeOK`, `ReadsWhatWasPublished`, `JobHoldsBarrier`, `NeverSuperseded` and the refinement
`ImplementsSerial`. None but the first is inductive. The heart of `Inv` (module `IGAPipelineInv`) is in
`WorkerInv`: a collector that still owns its run is under the barrier of that run. It is why fencing
inventory writes on the run alone is enough: recovery takes a collecting barrier only from a run that is
over, and a run that is over has no owner. `ProjectorInv` says the same of readers: the barrier version
a projector remembers never exceeds the row's, so a pass that passes its fence is under the barrier it saw, and
what it read is what the run published. `BarrierInv` and `LeaseInv` tie rows to the barrier, `ReadInv`
keeps the inventory still while the barrier is projecting, and `GenerationInv` and `LastInv` order the
generations of a connector. Each action that changes what the invariant speaks of has a lemma: scans in
`IGAPipelineScan`, acquisition and publication in `IGAPipelineHandOver`, jobs and recovery in
`IGAPipelinePass`, revisions and evaluations in `IGAPipelineEval`; `QuietStep` covers the rest. The
refinement maps `Acquire` to Begin (or to no step, when the run takes its own expired barrier back), `Collect` to
Collect, `Publish` to Publish, `Project` to Reveal, every release to End, and everything else to no step.

Only model-checked: everything about `IGAGovDeploy` and `Actuation`; `PeriodicBurst`; and the liveness
properties `OpenJobFinishes`, `NeverForgotten`, `ScansEnd`, `ProjectionsEnd`, `BarrierFreed` and
`InstructionsClose`, as fairness is beyond the prover.

## Not modelled

The models cover the protocols above and a small share of the repository's lines. Most of the rest is
request handling, storage of configuration, cryptographic checks, collectors and rendering: sequential
code around single statements, of which a model would say no more than the code. What would gain from a
model and is left out:

- in deployment: version-delete selectors, building requests and classifying their responses,
  document archiving, IaC and export deliveries, undo and remove-control routes, the enforcement observer
  with verify and drift, the soft race on the deploy cap, and `Resolve(reread)` reading the open attempt
  before its transaction;
- in the pipeline: workers with the projection gate off, and the contents of scans, graphs and findings;
- in actuation: evictions, forced evictions and workload destruction, which use the same queue;
- rollout, canary and approval; the Hydra reconciler; agent action approvals; device flow, CIBA and
  sign-in state.
