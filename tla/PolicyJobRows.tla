---------------------------- MODULE PolicyJobRows ----------------------------
(***************************************************************************)
(* One row of iga_gov_job and the statements of                            *)
(* repository/iga_gov_job_repository.go as functions from rows to rows.    *)
(* Every statement is one UPDATE, INSERT or DELETE and so one step.        *)
(*                                                                         *)
(* Times are abstracted to what the statements ask of them: `due` is       *)
(* run_after <= now, `recent` is completed_at within the periodic window,  *)
(* and `lease` says whether lease_expires_at leaves at least the external  *)
(* margin, less, or has passed.  One workspace is modelled: nothing but    *)
(* the deploy cap relates two jobs, and the cap is per workspace.          *)
(***************************************************************************)
EXTENDS Integers, FiniteSets

CONSTANTS Owner,        \* lease_owner names, one per worker process
          Key,          \* dedupe keys
          MaxAttempts,  \* max_attempts, 5 when the caller gives none
          DeployCap     \* MaxConcurrentDeploysPerWorkspace, 10

NoOwner == ""

ASSUME RowConstants ==
  /\ NoOwner \notin Owner
  /\ MaxAttempts \in Nat \ {0}
  /\ DeployCap \in Nat \ {0}

\* The kinds whose enqueue rule or claim rule differs, and resolve_unknown.
Kind == {"deploy", "resolve_unknown", "drift_check", "refresh_activity"}

\* "none": no row with this id yet; "deleted": pruned.
Status == {"none", "queued", "running", "complete", "failed", "abandoned", "deleted"}

Lease == {"null", "ample", "short", "lapsed"}

Row == [kind : Kind, key : Key, status : Status, owner : Owner \cup {NoOwner},
        ver : Nat, attempts : Nat, lease : Lease, due : BOOLEAN, recent : BOOLEAN]

Open(r) == r.status \in {"queued", "running"}

Finished(r) == r.status \in {"complete", "failed", "abandoned", "deleted"}

\* The row an INSERT of enqueue leaves.
NewRow(kind, key, due) ==
  [kind |-> kind, key |-> key, status |-> "queued", owner |-> NoOwner, ver |-> 0,
   attempts |-> 0, lease |-> "null", due |-> due, recent |-> FALSE]

\* Mutants of Owned: the fence without lease_version, and lease_version alone.
OwnedByOwner(r, owner, ver) == r.owner = owner /\ r.status = "running"

OwnedByVersion(r, owner, ver) == r.ver = ver

\* fencedJob and AssertOwnedTx: (owner, version) and still running.
Owned(r, owner, ver) == r.owner = owner /\ r.ver = ver /\ r.status = "running"

\* Claim's eligibility, without the cap.
ClaimableRow(r) ==
  /\ r.attempts < MaxAttempts
  /\ \/ r.status = "queued" /\ r.due
     \/ r.status = "running" /\ r.lease \in {"null", "lapsed"}

\* The deploy cap: other running deploy jobs whose lease is live.
UnderCap(jobs, j) ==
  jobs[j].kind = "deploy" =>
     Cardinality({d \in DOMAIN jobs \ {j} :
        /\ jobs[d].kind = "deploy"
        /\ jobs[d].status = "running"
        /\ jobs[d].lease \in {"ample", "short"}}) < DeployCap

Claimed(r, owner) ==
  [r EXCEPT !.status = "running", !.owner = owner, !.lease = "ample",
            !.ver = @ + 1, !.attempts = @ + 1]

Renewed(r) == [r EXCEPT !.lease = "ample"]

Completed(r) ==
  [r EXCEPT !.status = "complete", !.owner = NoOwner, !.lease = "null", !.recent = TRUE]

\* Mutant: a status the table does not know.
AbandonedAsCancelled(r) ==
  [r EXCEPT !.status = "cancelled", !.owner = NoOwner, !.lease = "null"]

Abandoned(r) ==
  [r EXCEPT !.status = "abandoned", !.owner = NoOwner, !.lease = "null"]

\* Mutant: off by one at the ceiling.
FailedOneTooMany(r) ==
  IF r.attempts <= MaxAttempts
  THEN [r EXCEPT !.status = "queued", !.owner = NoOwner, !.lease = "null", !.due = FALSE]
  ELSE [r EXCEPT !.status = "failed", !.owner = NoOwner, !.lease = "null"]

\* Fail: queued again after a backoff below the ceiling, terminal at it.
Failed(r) ==
  IF r.attempts < MaxAttempts
  THEN [r EXCEPT !.status = "queued", !.owner = NoOwner, !.lease = "null", !.due = FALSE]
  ELSE [r EXCEPT !.status = "failed", !.owner = NoOwner, !.lease = "null"]

\* Requeue: the attempt is given back.
Requeued(r, due) ==
  [r EXCEPT !.status = "queued", !.owner = NoOwner, !.lease = "null", !.due = due,
            !.attempts = IF @ > 0 THEN @ - 1 ELSE 0]

\* Mutant: the sweep waits for one attempt more than Claim ever makes.
ExhaustedPastCeiling(r) ==
  r.status = "running" /\ r.attempts > MaxAttempts /\ r.lease \in {"null", "lapsed"}

\* FailExhaustedJobs, for one row.
Exhausted(r) ==
  r.status = "running" /\ r.attempts >= MaxAttempts /\ r.lease \in {"null", "lapsed"}

ExhaustedFailed(r) ==
  [r EXCEPT !.status = "failed", !.owner = NoOwner, !.lease = "null"]

\* Mutant: the index covers queued rows only.
NoneQueued(jobs, kind, key) ==
  \A j \in DOMAIN jobs : jobs[j].kind = kind /\ jobs[j].key = key => jobs[j].status # "queued"

\* uq_iga_gov_job_open: ON CONFLICT (kind, dedupe_key) WHERE open DO NOTHING.
NoOpen(jobs, kind, key) ==
  \A j \in DOMAIN jobs : jobs[j].kind = kind /\ jobs[j].key = key => ~Open(jobs[j])

\* Mutant: the periodic window is not consulted.
AnyTime(jobs, kind, key) == TRUE

\* The NOT EXISTS of enqueue for a periodic job.
NoneRecent(jobs, kind, key) ==
  \A j \in DOMAIN jobs : jobs[j].kind = kind /\ jobs[j].key = key
     => ~(jobs[j].status = "complete" /\ jobs[j].recent)

\* The NOT EXISTS of enqueue for a one-shot job.
NoneEver(jobs, kind, key) ==
  \A j \in DOMAIN jobs : jobs[j].kind = kind /\ jobs[j].key = key
     => jobs[j].status \in {"none", "deleted"}

\* The passing of time, as one row sees it.
LeaseAged(r) ==
  [r EXCEPT !.lease = CASE @ = "ample" -> "short"
                        [] @ = "short" -> "lapsed"
                        [] OTHER -> @]
=============================================================================
