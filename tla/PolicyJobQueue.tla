--------------------------- MODULE PolicyJobQueue ---------------------------
(***************************************************************************)
(* The policy job queue: iga_gov_job rows (PolicyJobRows) and the worker   *)
(* slots that claim them (services/iga_gov_job_worker.go).  A slot is one  *)
(* of the goroutines of one worker process; all slots of a process share   *)
(* its lease_owner, so only lease_version tells two claims of one process  *)
(* apart.  A slot may stall for any time between two of its steps.         *)
(*                                                                         *)
(* The handler is left open: it makes fenced writes (InTx) and external    *)
(* calls (External) in any order and returns any outcome.                  *)
(***************************************************************************)
EXTENDS PolicyJobRows

CONSTANTS Slot,          \* concurrent runs, over all worker processes
          OwnerOf,       \* the process a slot belongs to
          Replica,       \* scheduler replicas, each enqueueing one subject at a time
          JobId,         \* row ids available to the model
          MaxGiveBacks   \* bound: attempts a job may be handed back

NoJob == ""

ASSUME QueueConstants ==
  /\ OwnerOf \in [Slot -> Owner]
  /\ NoJob \notin JobId
  /\ MaxGiveBacks \in Nat

VARIABLES jobs,   \* iga_gov_job
          runs,   \* what each slot holds in memory: a PolicyJobRun or nothing
          stmts,  \* the INSERT each replica is in the middle of, or none
          wrote   \* history: the lease_version of the last fenced write per job

vars == <<jobs, runs, stmts, wrote>>

Idle == [at |-> "idle", job |-> NoJob, ver |-> 0, attempts |-> 0, lost |-> FALSE]

Run == [at : {"idle", "handling", "calling"}, job : JobId \cup {NoJob},
        ver : Nat, attempts : Nat, lost : BOOLEAN]

NoStmt == <<>>

\* An INSERT whose NOT EXISTS held in its snapshot: the (kind, dedupe key).
Stmt == {"drift_check", "refresh_activity"} \X Key

\* One type invariant: rows, runs and the history are well formed.
TypeOK ==
  /\ jobs \in [JobId -> Row]
  /\ runs \in [Slot -> Run]
  /\ \A s \in Slot : runs[s].at # "idle" => runs[s].job \in JobId
  /\ stmts \in [Replica -> Stmt \cup {NoStmt}]
  /\ wrote \in [JobId -> Nat]

Absent(r) == r.status = "none"

Init ==
  /\ \E k \in Key :
       jobs = [j \in JobId |-> [NewRow("deploy", k, FALSE) EXCEPT !.status = "none"]]
  /\ runs = [s \in Slot |-> Idle]
  /\ stmts = [p \in Replica |-> NoStmt]
  /\ wrote = [j \in JobId |-> 0]

-----------------------------------------------------------------------------
(* Enqueueing: by handlers, routes and the scheduler. *)

Insert(kind, key, due) ==
  \E j \in JobId :
    /\ Absent(jobs[j])
    /\ jobs' = [jobs EXCEPT ![j] = NewRow(kind, key, due)]

EnqueueTx(key, due) ==
  /\ NoOpen(jobs, "deploy", key)
  /\ Insert("deploy", key, due)
  /\ UNCHANGED <<runs, stmts, wrote>>

\* enqueue of the other two forms is one statement and yet two steps: NOT EXISTS
\* reads the snapshot the statement began with, and ON CONFLICT the rows as they
\* are when it inserts.  First the snapshot ...
EnqueuePeriodicTx(p, key) ==
  /\ stmts[p] = NoStmt
  /\ NoneRecent(jobs, "drift_check", key)
  /\ stmts' = [stmts EXCEPT ![p] = <<"drift_check", key>>]
  /\ UNCHANGED <<jobs, runs, wrote>>

EnqueueOnceTx(p, key) ==
  /\ stmts[p] = NoStmt
  /\ NoneEver(jobs, "refresh_activity", key)
  /\ stmts' = [stmts EXCEPT ![p] = <<"refresh_activity", key>>]
  /\ UNCHANGED <<jobs, runs, wrote>>

\* ... then the row, unless an open one is in the way.
InsertSelected(p, due) ==
  /\ stmts[p] # NoStmt
  /\ IF NoOpen(jobs, stmts[p][1], stmts[p][2])
     THEN Insert(stmts[p][1], stmts[p][2], due)
     ELSE UNCHANGED jobs
  /\ stmts' = [stmts EXCEPT ![p] = NoStmt]
  /\ UNCHANGED <<runs, wrote>>

-----------------------------------------------------------------------------
(* One slot's run of one job. *)

Holds(s) == runs[s].at # "idle" /\ Owned(jobs[runs[s].job], OwnerOf[s], runs[s].ver)

Claim(s, j) ==
  /\ runs[s].at = "idle"
  /\ ClaimableRow(jobs[j])
  /\ UnderCap(jobs, j)
  /\ jobs' = [jobs EXCEPT ![j] = Claimed(@, OwnerOf[s])]
  /\ runs' = [runs EXCEPT ![s] = [at |-> "handling", job |-> j, ver |-> jobs[j].ver + 1,
                                  attempts |-> jobs[j].attempts + 1, lost |-> FALSE]]
  /\ UNCHANGED <<stmts, wrote>>

\* The renewer goroutine: it renews, or marks the run lost and cancels it.
Renew(s) ==
  /\ runs[s].at # "idle"
  /\ ~runs[s].lost
  /\ IF Holds(s)
     THEN jobs' = [jobs EXCEPT ![runs[s].job] = Renewed(@)] /\ UNCHANGED runs
     ELSE runs' = [runs EXCEPT ![s].lost = TRUE] /\ UNCHANGED jobs
  /\ UNCHANGED <<stmts, wrote>>

\* A transaction of the handler: the row is locked and the fence proven first,
\* so the write commits only at the version the row has.
InTx(s) ==
  /\ runs[s].at = "handling"
  /\ IF Holds(s)
     THEN wrote' = [wrote EXCEPT ![runs[s].job] = runs[s].ver] /\ UNCHANGED runs
     ELSE runs' = [runs EXCEPT ![s].lost = TRUE] /\ UNCHANGED wrote
  /\ UNCHANGED <<jobs, stmts>>

\* EnsureMargin, then the call leaves.  A short lease is renewed first; the
\* result of the call is looked at only after CheckFence.
ExternalBegin(s) ==
  /\ runs[s].at = "handling"
  /\ ~runs[s].lost
  /\ IF Holds(s)
     THEN /\ jobs' = [jobs EXCEPT ![runs[s].job] = Renewed(@)]
          /\ runs' = [runs EXCEPT ![s].at = "calling"]
     ELSE /\ runs' = [runs EXCEPT ![s].lost = TRUE]
          /\ UNCHANGED jobs
  /\ UNCHANGED <<stmts, wrote>>

ExternalEnd(s) ==
  /\ runs[s].at = "calling"
  /\ runs' = [runs EXCEPT ![s].at = "handling", ![s].lost = @ \/ ~Holds(s)]
  /\ UNCHANGED <<jobs, stmts, wrote>>

\* What finish writes for each way the handler can return.
OutcomeRow(r, outcome) ==
  CASE outcome = "nil"         -> Completed(r)
    [] outcome = "abandon"     -> Abandoned(r)
    [] outcome = "retry_later" -> Requeued(r, FALSE)
    [] outcome = "shutdown"    -> Requeued(r, TRUE)
    [] outcome = "error"       -> Failed(r)

Outcome == {"nil", "abandon", "retry_later", "shutdown", "error"}

\* The bound: an attempt is handed back at most MaxGiveBacks times per job.
MayGiveBack(r, outcome) ==
  outcome \in {"retry_later", "shutdown"} => r.ver - r.attempts < MaxGiveBacks

Finish(s, outcome) ==
  /\ runs[s].at = "handling"
  /\ IF ~runs[s].lost /\ Holds(s)
     THEN /\ MayGiveBack(jobs[runs[s].job], outcome)
          /\ jobs' = [jobs EXCEPT ![runs[s].job] = OutcomeRow(@, outcome)]
     ELSE UNCHANGED jobs
  /\ runs' = [runs EXCEPT ![s] = Idle]
  /\ UNCHANGED <<stmts, wrote>>

\* The process dies; the row keeps its lease until it lapses.
Crash(s) ==
  /\ runs[s].at # "idle"
  /\ runs' = [runs EXCEPT ![s] = Idle]
  /\ UNCHANGED <<jobs, stmts, wrote>>

-----------------------------------------------------------------------------
(* Sweep, and time. *)

FailExhaustedJobs ==
  /\ \E j \in JobId : Exhausted(jobs[j])
  /\ jobs' = [j \in JobId |-> IF Exhausted(jobs[j]) THEN ExhaustedFailed(jobs[j]) ELSE jobs[j]]
  /\ UNCHANGED <<runs, stmts, wrote>>

PruneFinished(j) ==
  /\ jobs[j].status \in {"complete", "abandoned"}
  /\ ~jobs[j].recent
  /\ jobs' = [jobs EXCEPT ![j].status = "deleted"]
  /\ UNCHANGED <<runs, stmts, wrote>>

LeaseRunsDown(j) ==
  /\ jobs[j].lease \in {"ample", "short"}
  /\ jobs' = [jobs EXCEPT ![j] = LeaseAged(@)]
  /\ UNCHANGED <<runs, stmts, wrote>>

ComesDue(j) ==
  /\ jobs[j].status = "queued"
  /\ ~jobs[j].due
  /\ jobs' = [jobs EXCEPT ![j].due = TRUE]
  /\ UNCHANGED <<runs, stmts, wrote>>

WindowPasses(j) ==
  /\ jobs[j].recent
  /\ jobs' = [jobs EXCEPT ![j].recent = FALSE]
  /\ UNCHANGED <<runs, stmts, wrote>>

-----------------------------------------------------------------------------
Next ==
  \/ \E k \in Key, due \in BOOLEAN : EnqueueTx(k, due)
  \/ \E p \in Replica, k \in Key : EnqueuePeriodicTx(p, k) \/ EnqueueOnceTx(p, k)
  \/ \E p \in Replica, due \in BOOLEAN : InsertSelected(p, due)
  \/ \E s \in Slot, j \in JobId : Claim(s, j)
  \/ \E s \in Slot : Renew(s) \/ InTx(s) \/ ExternalBegin(s) \/ ExternalEnd(s) \/ Crash(s)
  \/ \E s \in Slot, o \in Outcome : Finish(s, o)
  \/ FailExhaustedJobs
  \/ \E j \in JobId : PruneFinished(j) \/ LeaseRunsDown(j) \/ ComesDue(j) \/ WindowPasses(j)

Spec == Init /\ [][Next]_vars

\* Handlers return and calls time out; the loop claims in run_after order, so
\* no due job is passed over for ever; the sweep runs on every tick; clocks
\* advance.
Fairness ==
  /\ \A s \in Slot : SF_vars(\E o \in Outcome : Finish(s, o)) /\ WF_vars(ExternalEnd(s))
  /\ \A j \in JobId : SF_vars(\E s \in Slot : Claim(s, j))
  /\ WF_vars(FailExhaustedJobs)
  /\ \A j \in JobId : SF_vars(LeaseRunsDown(j)) /\ WF_vars(ComesDue(j))

FairSpec == Spec /\ Fairness
-----------------------------------------------------------------------------
(* Properties. *)

\* uq_iga_gov_job_open and the fenced re-queueing of a running row together:
\* whatever enqueues, failures and hand-backs happen, one (kind, dedupe key)
\* never has two open jobs.
OneOpenPerKey ==
  \A i, j \in JobId :
    Open(jobs[i]) /\ Open(jobs[j]) /\ jobs[i].kind = jobs[j].kind /\ jobs[i].key = jobs[j].key
      => i = j

\* However long a run stalls, and although the slots of a process share its
\* lease_owner, at most one run can pass the fence of a job.
SingleHolder ==
  \A s, t \in Slot : Holds(s) /\ Holds(t) /\ runs[s].job = runs[t].job => s = t

\* "attempts at claim = attempts now" (finish): a run that still passes the
\* fence knows the row's attempts, so the exhausted hook it runs after Fail
\* fires exactly when Fail made the job terminal.
AttemptsAtClaimAreCurrent ==
  \A s \in Slot : Holds(s) => runs[s].attempts = jobs[runs[s].job].attempts

\* Claim admits only attempts < max_attempts and nothing sweeps a queued row,
\* so a queued job at the ceiling would wait for ever: there is none.
QueuedIsClaimable ==
  \A j \in JobId : jobs[j].status = "queued" => jobs[j].attempts < MaxAttempts

\* A run that lost its lease writes nothing more: the fenced writes of a job
\* are in lease_version order, whoever stalls between two of them.
WritesInLeaseOrder ==
  [][\A j \in JobId : wrote'[j] >= wrote[j]]_vars

\* A finished job is final: no late finish, failure or hand-back of a stalled
\* run revives it (a complete or abandoned row may only be pruned).
FinishedIsFinal ==
  [][\A j \in JobId : Finished(jobs[j]) => Finished(jobs'[j]) /\ jobs'[j].ver = jobs[j].ver]_vars

\* "N replicas ticking together still produce one job per subject per interval"
\* (PolicyJobScheduler): two runs of a periodic subject never complete within
\* one interval of each other.
PeriodicSpacing ==
  \A i, j \in JobId :
    /\ jobs[i].kind = "drift_check" /\ jobs[i].status = "complete" /\ jobs[i].recent
    /\ jobs[j].kind = "drift_check" /\ jobs[j].status = "complete" /\ jobs[j].recent
    /\ jobs[i].key = jobs[j].key
    => i = j

\* What EnqueuePeriodicTx does keep: the runs of a subject that complete within
\* one interval are at most one more than the replicas, as every replica holds at
\* most one statement whose snapshot is older than the first completion.
PeriodicBurst ==
  \A k \in Key :
    Cardinality({j \in JobId : /\ jobs[j].kind = "drift_check" /\ jobs[j].key = k
                               /\ jobs[j].status = "complete" /\ jobs[j].recent})
      <= 1 + Cardinality(Replica)

\* "enqueues the key at most once ever" (ScheduledPolicyJob.Once): a one-shot
\* key gets one row in its life.
OnceEver ==
  \A i, j \in JobId :
    /\ jobs[i].kind = "refresh_activity" /\ jobs[i].status # "none"
    /\ jobs[j].kind = "refresh_activity" /\ jobs[j].status # "none"
    /\ jobs[i].key = jobs[j].key
    => i = j

\* Every open job finishes: a crashed or stalled run is reclaimed, and a job
\* whose last attempt crashed is failed by the sweep instead of reading
\* `running` for ever.
OpenJobFinishes ==
  \A j \in JobId : Open(jobs[j]) ~> Finished(jobs[j])
=============================================================================
