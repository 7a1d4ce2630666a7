---------------------------- MODULE IGAGovDeploy ----------------------------
(***************************************************************************)
(* A direct deployment from `queued` to its outcome: the deploy and        *)
(* resolve_unknown jobs (rows of PolicyJobRows, run by worker slots), the  *)
(* write-ahead attempt log, the AWS executor, the stuck sweeper and the    *)
(* operator's resolve routes, against an AWS that may lose a request,      *)
(* apply it late, or not show its effect yet.                              *)
(*                                                                         *)
(* All deployments are of one role (one control).  A subject's job is its  *)
(* latest row (older ones are terminal and only the latest is looked at),  *)
(* and `ver` goes on counting over the rows of a subject, so that          *)
(* (row, lease_version) is one number.  An attempt row is the latest one   *)
(* of its deployment: uq_iga_gov_attempt_open makes it the open one.       *)
(* Delays (run_after, backoffs, sweep grace) are left out: a step that may *)
(* be delayed may come at any later time.  Times the code compares are     *)
(* kept: lease left, settle_after, the gap between two readings.           *)
(***************************************************************************)
EXTENDS PolicyJobRows, IGAGovClassify

CONSTANTS Slot, OwnerOf, \* runs in the worker processes, and their process
          Dep,           \* deployments of the role; Dep = Key
          Effects,       \* the plan: op -> facts it moves
          MaxClaims,     \* bound: claims of one subject's job
          MaxAsks        \* bound: operator requests

Op == DOMAIN Effects

JobKind == {"deploy", "resolve_unknown"}

ASSUME DeployConstants ==
  /\ OwnerOf \in [Slot -> Owner]
  /\ Dep = Key /\ 0 \notin Dep
  /\ \E n \in 1 .. 9 : Op = 1 .. n
  /\ OwnFacts(Effects)

VARIABLES jobs,    \* iga_gov_job: the latest row of each (kind, deployment)
          runs,    \* what each slot holds in memory
          dep,     \* iga_gov_deployment, with the last reading of its events
          att,     \* iga_gov_attempt: the latest of each deployment
          ledger,  \* iga_gov_artifact: the boundary_policy row each one wrote last
          net,     \* requests sent that AWS has not processed
          landed,  \* how often AWS applied each op
          vis,     \* effects every AWS read shows
          lock,    \* the deployment an operator's transaction holds, or 0
          asks     \* operator requests made

vars == <<jobs, runs, dep, att, ledger, net, landed, vis, lock, asks>>

aws == <<net, landed, vis>>

AllFacts == UNION {Effects[o] : o \in Op}

InFlight == {"queued", "applying", "outcome_unknown", "outcome_unresolved"}

DepState == InFlight \cup {"absent", "blocked", "failed", "applied_unverified", "recovered"}

Verdict == {"none", "applied", "not_applied", "unobservable", "conflict"}

NoDep == [st |-> "absent", done |-> {}, settle |-> "null", sent |-> FALSE, read |-> "none"]

NoAttempt == [op |-> 0, ver |-> 0, st |-> "none", res |-> "none"]

Idle == [at |-> "idle", kind |-> "deploy", d |-> 0, ver |-> 0, tries |-> 0, k |-> 0,
         comp |-> {}, reply |-> "none", ret |-> "none", this |-> "none"]

At == {"idle", "load", "start", "recover", "unknown", "check", "read", "recognise", "intend",
       "prepare", "dispatch", "wait", "readback", "ledger", "applied", "stop", "return", "hook",
       "settled", "classify", "record", "resolve", "redeploy", "unresolved"}

\* One type invariant.
TypeOK ==
  /\ jobs \in [JobKind \X Dep -> Row]
  /\ \A s \in Slot :
       /\ runs[s].at \in At /\ runs[s].kind \in JobKind /\ runs[s].d \in Dep \cup {0}
       /\ runs[s].at # "idle" => runs[s].d \in Dep
       /\ runs[s].comp \subseteq Op /\ runs[s].k \in 0 .. Cardinality(Op)
  /\ \A d \in Dep :
       /\ dep[d].st \in DepState /\ dep[d].done \subseteq Op
       /\ dep[d].settle \in {"null", "waiting", "passed"} /\ dep[d].read \in Verdict
       /\ dep[d].st \in {"outcome_unknown", "outcome_unresolved", "recovered"}
            => dep[d].settle # "null"                       \* iga_gov_pd_unknown_chk
       /\ att[d].op \in Op \cup {0} /\ att[d].ver \in Nat
       /\ att[d].st \in {"none", "prepared", "dispatched", "completed", "unknown", "abandoned"}
       /\ att[d].res \in {"none", "applied", "not_applied"}
       /\ ledger[d] \in {"none", "intended", "present", "removed"}
       /\ vis[d] \subseteq AllFacts
  /\ net \subseteq [d : Dep, op : Op, ver : Nat]
  /\ lock \in Dep \cup {0} /\ asks \in 0 .. MaxAsks

Init ==
  /\ jobs = [j \in JobKind \X Dep |-> [NewRow(j[1], j[2], FALSE) EXCEPT !.status = "none"]]
  /\ runs = [s \in Slot |-> Idle]
  /\ dep = [d \in Dep |-> NoDep]
  /\ att = [d \in Dep |-> NoAttempt]
  /\ ledger = [d \in Dep |-> "none"]
  /\ net = {} /\ landed = [d \in Dep |-> [o \in Op |-> 0]] /\ vis = [d \in Dep |-> {}]
  /\ lock = 0 /\ asks = 0

-----------------------------------------------------------------------------
(* Rows. *)

\* Delays and windows are over by the time the row is looked at again.
AnyTimeLater(r) == [r EXCEPT !.due = TRUE, !.recent = FALSE]

\* enqueueJobTx: nothing when an open job of the kind and deployment exists.
EnqueueAt(js, kind, d, due) ==
  IF NoOpen(js, kind, d)
  THEN [js EXCEPT ![<<kind, d>>] = [NewRow(kind, d, due) EXCEPT !.ver = js[<<kind, d>>].ver]]
  ELSE js

Enqueue(js, kind, d) == EnqueueAt(js, kind, d, TRUE)

\* A resolve_unknown job is due at settle_after.
EnqueueSettled(js, d, x) == EnqueueAt(js, "resolve_unknown", d, x.settle # "waiting")

OpenJobs(d) == {k \in JobKind : Open(jobs[<<k, d>>])}

RunningJobs(d) == {k \in JobKind : jobs[<<k, d>>].status = "running"}

\* uq_iga_gov_attempt_open.
OpenAttempt(a) ==
  a.st \in {"prepared", "dispatched"} \/ (a.st = "unknown" /\ a.res = "none")

Unresolved(a) == a.st = "unknown" /\ a.res = "none"

\* Mutant: settle_after is not written.
MarkedUnknownUnsettled(x) ==
  IF x.st = "applying" THEN [x EXCEPT !.st = "outcome_unknown"] ELSE x

\* The deployment side of markUnknownTx: an applying deployment waits on the
\* request until settle_after; in any other state it is left alone.
MarkedUnknown(x) ==
  IF x.st = "applying" THEN [x EXCEPT !.st = "outcome_unknown", !.settle = "waiting"] ELSE x

\* RecoverTx: the replacement-worker rule.
RecoveryAction(a) ==
  CASE a.st = "prepared"   -> "reprepare"
    [] a.st = "dispatched" -> "outcome_unknown"
    [] Unresolved(a)       -> "hold"
    [] OTHER               -> "continue"

\* Mutant: a dispatched attempt is dropped like a prepared one.
RecoveredAsUnsent(a) ==
  IF a.st \in {"prepared", "dispatched"} THEN [a EXCEPT !.st = "abandoned"] ELSE a

RecoveredAttempt(a) ==
  CASE a.st = "prepared"   -> [a EXCEPT !.st = "abandoned"]
    [] a.st = "dispatched" -> [a EXCEPT !.st = "unknown"]
    [] OTHER               -> a

RecoveredDep(x, a) == IF a.st = "dispatched" THEN MarkedUnknown(x) ELSE x

\* ensureOutcomeUnknownTx: a held attempt on an applying deployment moves it.
EnsuredUnknown(x) == MarkedUnknown(x)

\* settleLedgerTx, for the boundary_policy row: op 1 creates the policy.
CreateOp == 1

\* Mutant: only what was created is settled.
SettledWhenCreated(row, done) ==
  IF row = "intended" /\ CreateOp \in done THEN "present" ELSE row

Settled(row, done) ==
  IF row # "intended" THEN row ELSE IF CreateOp \in done THEN "present" ELSE "removed"

\* declareUnresolvedTx: from applying settle_after becomes now.
Declared(x) ==
  [x EXCEPT !.st = "outcome_unresolved",
            !.settle = IF x.st = "applying" \/ @ = "null" THEN "passed" ELSE @]

-----------------------------------------------------------------------------
(* A slot's run. *)

Job(s) == <<runs[s].kind, runs[s].d>>

\* The fence of InTx and of External; a run that fails it returns and writes
\* nothing (LeaseLost).  The steps in between only read, so the model asks it of
\* them too: a run past its fence has no effect, however far it reads on.
Fenced(s) == Owned(jobs[Job(s)], OwnerOf[s], runs[s].ver)

\* A fenced transaction of a run at this point that writes the deployment's row
\* or a row referring to it, and so waits for the operator's lock on it.
Tx(s, at) == runs[s].at = at /\ Fenced(s) /\ lock # runs[s].d

Goto(s, at) == runs' = [runs EXCEPT ![s].at = at]

\* The handler's memory is gone once it returns.
Leave(s, at, ret) ==
  runs' = [runs EXCEPT ![s] = [Idle EXCEPT !.at = at, !.ret = ret, !.kind = runs[s].kind,
                                 !.d = runs[s].d, !.ver = runs[s].ver, !.tries = runs[s].tries]]

Return(s, ret) == Leave(s, "return", ret)

\* x.stop, then applyOutcome -> stop: the state to write is kept in ret.
StopWith(s, state) == Leave(s, "stop", state)

Claim(s, j) ==
  /\ runs[s].at = "idle"
  /\ jobs[j].ver < MaxClaims
  /\ ClaimableRow(jobs[j]) /\ UnderCap(jobs, j)
  /\ jobs' = [jobs EXCEPT ![j] = Claimed(@, OwnerOf[s])]
  /\ runs' = [runs EXCEPT ![s] =
       [Idle EXCEPT !.at = IF j[1] = "deploy" THEN "load" ELSE "settled", !.kind = j[1], !.d = j[2],
                    !.ver = jobs[j].ver + 1, !.tries = jobs[j].attempts + 1]]
  /\ UNCHANGED <<dep, att, ledger, aws, lock, asks>>

Renew(s) ==
  /\ runs[s].at \notin {"idle", "hook"} /\ Fenced(s)
  /\ jobs[Job(s)].lease # "ample"
  /\ jobs' = [jobs EXCEPT ![Job(s)] = Renewed(@)]
  /\ UNCHANGED <<runs, dep, att, ledger, aws, lock, asks>>

LeaseLost(s) ==
  /\ runs[s].at \notin {"idle", "hook"} /\ ~Fenced(s)
  /\ runs' = [runs EXCEPT ![s] = Idle]
  /\ UNCHANGED <<jobs, dep, att, ledger, aws, lock, asks>>

Crash(s) ==
  /\ runs[s].at # "idle"
  /\ runs' = [runs EXCEPT ![s] = Idle]
  /\ UNCHANGED <<jobs, dep, att, ledger, aws, lock, asks>>

\* A database error, or the shutdown of the worker (requeued like a RetryLater),
\* ends the handler anywhere.
HandlerError(s) ==
  /\ runs[s].at \notin {"idle", "return", "hook"} /\ Fenced(s)
  /\ \E ret \in {"error", "retry_later"} : Return(s, ret)
  /\ UNCHANGED <<jobs, dep, att, ledger, aws, lock, asks>>

FinishedRow(r, ret) ==
  CASE ret = "nil"   -> Completed(r)
    [] ret = "error" -> Failed(r)
    [] ret = "retry_later" -> Requeued(r, TRUE)
    [] ret = "at_settle"   -> Requeued(r, FALSE)

\* finish, and the exhausted hook when the last attempt failed.
Finish(s) ==
  /\ runs[s].at = "return" /\ Fenced(s)
  /\ jobs' = [jobs EXCEPT ![Job(s)] =
       [AnyTimeLater(FinishedRow(@, runs[s].ret))
          EXCEPT !.due = runs[s].ret = "at_settle" => dep[runs[s].d].settle # "waiting"]]
  /\ runs' = [runs EXCEPT ![s] = IF runs[s].ret = "error" /\ runs[s].tries >= MaxAttempts
                                 THEN [Idle EXCEPT !.at = "hook", !.d = runs[s].d]
                                 ELSE Idle]
  /\ UNCHANGED <<dep, att, ledger, aws, lock, asks>>

-----------------------------------------------------------------------------
(* The deploy job: DeployHandler, start and ExecutePlan. *)

\* The state, and start's gates: paused, not authorised or bound, or ready.
Load(s) ==
  /\ runs[s].at = "load" /\ Fenced(s)
  /\ CASE dep[runs[s].d].st = "queued" ->
            Goto(s, "start") \/ Return(s, "retry_later") \/ StopWith(s, "blocked")
       [] dep[runs[s].d].st \in {"applying", "outcome_unknown"} -> Goto(s, "recover")
       [] OTHER -> Return(s, "nil")
  /\ UNCHANGED <<jobs, dep, att, ledger, aws, lock, asks>>

Start(s) ==
  /\ Tx(s, "start")
  /\ IF dep[runs[s].d].st = "queued"
     THEN dep' = [dep EXCEPT ![runs[s].d].st = "applying"] /\ Goto(s, "recover")
     ELSE Return(s, "nil") /\ UNCHANGED dep
  /\ UNCHANGED <<jobs, att, ledger, aws, lock, asks>>

Recover(s) ==
  LET d == runs[s].d IN
  /\ runs[s].at = "recover" /\ Fenced(s)
  /\ lock # d \/ att[d].st # "dispatched"   \* only this one writes the deployment
  /\ att' = [att EXCEPT ![d] = RecoveredAttempt(@)]
  /\ dep' = [dep EXCEPT ![d] = RecoveredDep(@, att[d])]
  /\ Goto(s, IF RecoveryAction(att[d]) \in {"outcome_unknown", "hold"} THEN "unknown" ELSE "check")
  /\ UNCHANGED <<jobs, ledger, aws, lock, asks>>

\* applyOutcome for DeployOutcomeUnknown and DeployHold.
EnqueueResolve(s) ==
  /\ runs[s].at = "unknown" /\ Fenced(s)
  /\ jobs' = EnqueueSettled(jobs, runs[s].d, dep[runs[s].d])
  /\ Return(s, "nil")
  /\ UNCHANGED <<dep, att, ledger, aws, lock, asks>>

\* The state again, the discovery role, and completed_ops.
Check(s) ==
  /\ runs[s].at = "check" /\ Fenced(s)
  /\ IF dep[runs[s].d].st = "applying"
     THEN runs' = [runs EXCEPT ![s].at = "read", ![s].comp = dep[runs[s].d].done]
     ELSE Return(s, "nil")
  /\ UNCHANGED <<jobs, dep, att, ledger, aws, lock, asks>>

\* accessStop (discovery or enforcement role), the refusals of refuseDirect and
\* runOp and a used-up retry budget; a read that fails is tried again later.
CannotGoOn(s) ==
  /\ runs[s].at \in {"check", "read", "prepare", "readback"} /\ Fenced(s)
  /\ \/ Return(s, "retry_later")
     \/ /\ runs[s].at \in {"check", "prepare"}
        /\ \E state \in {"blocked", "failed"} : StopWith(s, state)
  /\ UNCHANGED <<jobs, dep, att, ledger, aws, lock, asks>>

\* What one AWS read may show: everything all replicas show, and any part of
\* what only some show.
LandedFacts(d) == UNION {Effects[o] : o \in {p \in Op : landed[d][p] > 0}}

Readable(d) == {f \in SUBSET LandedFacts(d) : vis[d] \subseteq f}

\* notVisible: an op recorded done that a read does not show is waited for,
\* then reported; never sent again.
NotVisible(s) == Return(s, "retry_later") \/ StopWith(s, "blocked")

\* One pass of execute's loop up to the ops it has to record.
Read(s) ==
  LET r == runs[s] IN
  /\ r.at = "read" /\ Fenced(s)
  /\ \E facts \in Readable(r.d), outside \in BOOLEAN :
       LET k == NextOp(Effects, facts, outside) IN
       IF k = Conflict THEN StopWith(s, "blocked")
       ELSE IF \E o \in Op : k < o /\ o <= r.k /\ OpObservable(Effects, o) THEN NotVisible(s)
       ELSE runs' = [runs EXCEPT ![s].at = "recognise", ![s].k = IF k < r.k THEN r.k ELSE k]
  /\ UNCHANGED <<jobs, dep, att, ledger, aws, lock, asks>>

\* recognise: an op the read shows done and completed_ops lacks.
Recognise(s) ==
  LET r == runs[s] IN
  /\ Tx(s, "recognise")
  /\ \E o \in (1 .. r.k) \ r.comp :
       /\ \A p \in (1 .. r.k) \ r.comp : o <= p
       /\ dep' = [dep EXCEPT ![r.d].done = @ \cup {o}]
       /\ runs' = [runs EXCEPT ![s].comp = @ \cup {o}]
  /\ UNCHANGED <<jobs, att, ledger, aws, lock, asks>>

\* The next op of the loop: none left, already recorded, or to be sent.
Choose(s) ==
  LET r == runs[s] IN
  /\ r.at = "recognise" /\ Fenced(s) /\ 1 .. r.k \subseteq r.comp
  /\ CASE r.k + 1 \notin Op     -> Goto(s, "readback")
       [] r.k + 1 \in Op \ r.comp -> Goto(s, "intend")
       [] r.k + 1 \in r.comp ->
            IF OpObservable(Effects, r.k + 1) THEN NotVisible(s)
            ELSE runs' = [runs EXCEPT ![s].at = "read", ![s].k = r.k + 1]
  /\ UNCHANGED <<jobs, dep, att, ledger, aws, lock, asks>>

LiveRows == {d \in Dep : ledger[d] \in {"intended", "present"}}

MarkIntended(s) ==
  /\ Tx(s, "intend")
  /\ ledger' = IF LiveRows = {} THEN [ledger EXCEPT ![runs[s].d] = "intended"] ELSE ledger
  /\ Goto(s, "prepare")
  /\ UNCHANGED <<jobs, dep, att, aws, lock, asks>>

-----------------------------------------------------------------------------
(* One request: ExecuteChecked around Send. *)

Prepare(s) ==
  LET r == runs[s] IN
  /\ Tx(s, "prepare")
  /\ IF OpenAttempt(att[r.d])
     THEN Return(s, "error") /\ UNCHANGED <<att, dep>>
     ELSE /\ att' = [att EXCEPT ![r.d] = [op |-> r.k + 1, ver |-> r.ver, st |-> "prepared", res |-> "none"]]
          /\ dep' = [dep EXCEPT ![r.d].read = "none"]   \* readings are per attempt
          /\ Goto(s, "dispatch")
  /\ UNCHANGED <<jobs, ledger, aws, lock, asks>>

\* The attempt this run made, still in state st.
Own(s, st) == att[runs[s].d].st = st /\ att[runs[s].d].ver = runs[s].ver

\* abandonOwnReason: the binding check refused, or the lease margin is short.
AbandonOwn(s) ==
  LET d == runs[s].d IN
  /\ Tx(s, "dispatch")
  /\ att' = [att EXCEPT ![d].st = IF Own(s, "prepared") THEN "abandoned" ELSE @]
  /\ \/ StopWith(s, "blocked")
     \/ jobs[Job(s)].lease # "ample" /\ Return(s, "error")
  /\ UNCHANGED <<jobs, dep, ledger, aws, lock, asks>>

\* Dispatch, and the request leaves (awsenforce.Send).
Dispatch(s) ==
  LET r == runs[s] IN
  /\ Tx(s, "dispatch") /\ jobs[Job(s)].lease = "ample"
  /\ IF Own(s, "prepared")
     THEN /\ att' = [att EXCEPT ![r.d].st = "dispatched"]
          /\ dep' = [dep EXCEPT ![r.d].sent = TRUE]
          /\ net' = net \cup {[d |-> r.d, op |-> r.k + 1, ver |-> r.ver]}
          /\ Goto(s, "wait")
     ELSE Return(s, "error") /\ UNCHANGED <<att, dep, net>>
  /\ UNCHANGED <<jobs, ledger, landed, vis, lock, asks>>

\* Mutants: any definitive answer counts as done; the answer is not recorded there.
OpDoneByAnyAnswer(done, op, reply) == done \cup {op}

OpDoneForgotten(done, op, reply) == done

\* OpDone: the op joins completed_ops in the transaction that records its answer.
OpDone(done, op, reply) == IF reply = "ok" THEN done \cup {op} ELSE done

\* A definitive answer: Complete records it, and what attempt makes of it.
Complete(s) ==
  LET r == runs[s] IN
  /\ Tx(s, "wait") /\ r.reply # "none"
  /\ IF Own(s, "dispatched")
     THEN /\ att' = [att EXCEPT ![r.d].st = "completed"]
          /\ dep' = [dep EXCEPT ![r.d].done = OpDone(@, r.k + 1, r.reply)]
          /\ CASE r.reply = "ok" -> runs' = [runs EXCEPT ![s].at = "read", ![s].reply = "none",
                                               ![s].k = @ + 1, ![s].comp = @ \cup {r.k + 1}]
               [] r.reply = "retryable" -> Return(s, "retry_later")
               [] r.reply = "terminal"  -> \E state \in {"blocked", "failed"} : StopWith(s, state)
     ELSE Return(s, "error") /\ UNCHANGED <<att, dep>>
  /\ UNCHANGED <<jobs, ledger, aws, lock, asks>>

\* No answer before the timeout: MarkUnknown.
MarkUnknown(s) ==
  LET d == runs[s].d IN
  /\ Tx(s, "wait")
  /\ IF Own(s, "dispatched")
     THEN /\ att' = [att EXCEPT ![d].st = "unknown"]
          /\ dep' = [dep EXCEPT ![d] = MarkedUnknown(@)]
          /\ Goto(s, "unknown")
     ELSE Return(s, "error") /\ UNCHANGED <<att, dep>>
  /\ UNCHANGED <<jobs, ledger, aws, lock, asks>>

\* Both reads of a round, classified.
Readback(s) ==
  LET r == runs[s] IN
  /\ r.at = "readback" /\ Fenced(s)
  /\ \E facts \in Readable(r.d), outside \in BOOLEAN :
       IF NextOp(Effects, facts, outside) = Conflict THEN StopWith(s, "blocked")
       ELSE IF facts = AllFacts THEN Goto(s, "ledger")
       ELSE Return(s, "retry_later")
  /\ UNCHANGED <<jobs, dep, att, ledger, aws, lock, asks>>

\* The live row, whoever wrote it, is this deployment's and present.
WriteLedger(s) ==
  /\ Tx(s, "ledger")
  /\ ledger' = [d \in Dep |-> IF d = runs[s].d THEN "present"
                              ELSE IF d \in LiveRows THEN "none" ELSE ledger[d]]
  /\ Goto(s, "applied")
  /\ UNCHANGED <<jobs, dep, att, aws, lock, asks>>

Applied(s) ==
  LET d == runs[s].d IN
  /\ Tx(s, "applied")
  /\ dep' = [dep EXCEPT ![d].st = IF @ = "applying" THEN "applied_unverified" ELSE @]
  /\ Return(s, "nil")
  /\ UNCHANGED <<jobs, att, ledger, aws, lock, asks>>

\* stop: blocked or failed, with the ledger settled; nothing when the state moved.
Stop(s) ==
  LET d == runs[s].d IN
  /\ Tx(s, "stop")
  /\ IF dep[d].st \in {"queued", "applying"}
     THEN /\ dep' = [dep EXCEPT ![d].st = runs[s].ret]
          /\ ledger' = [ledger EXCEPT ![d] = Settled(@, dep[d].done)]
     ELSE UNCHANGED <<dep, ledger>>
  /\ Return(s, "nil")
  /\ UNCHANGED <<jobs, att, aws, lock, asks>>

-----------------------------------------------------------------------------
(* AWS. *)

Answered(q, reply) ==
  runs' = [s \in Slot |-> IF runs[s].at = "wait" /\ runs[s].d = q.d /\ runs[s].ver = q.ver /\ runs[s].k + 1 = q.op
                          THEN [runs[s] EXCEPT !.reply = reply] ELSE runs[s]]

\* A request is applied, now or late; the answer reaches a run still waiting.
AwsApplies(q) ==
  /\ net' = net \ {q}
  /\ landed' = [landed EXCEPT ![q.d][q.op] = IF @ < 2 THEN @ + 1 ELSE @]
  /\ Answered(q, "ok")
  /\ UNCHANGED <<jobs, dep, att, ledger, vis, lock, asks>>

\* An error answer proves the request was not applied.  One that ClassifyOpResponse
\* recognises as done needs the op's effect there before the request: AppliedOnce says
\* that no request of this deployment meets it.
AwsRefuses(q) ==
  /\ net' = net \ {q}
  /\ \E reply \in {"retryable", "terminal"} : Answered(q, reply)
  /\ UNCHANGED <<jobs, dep, att, ledger, landed, vis, lock, asks>>

RequestLost(q) ==
  /\ net' = net \ {q}
  /\ UNCHANGED <<jobs, runs, dep, att, ledger, landed, vis, lock, asks>>

\* Every replica shows what was applied.
Propagates(d) ==
  /\ vis[d] # LandedFacts(d)
  /\ vis' = [vis EXCEPT ![d] = LandedFacts(d)]
  /\ UNCHANGED <<jobs, runs, dep, att, ledger, net, landed, lock, asks>>

-----------------------------------------------------------------------------
(* The resolve_unknown job: ResolveUnknownHandler. *)

WaitSettle(s) ==
  /\ runs[s].at = "settled" /\ Fenced(s)
  /\ CASE dep[runs[s].d].st # "outcome_unknown"    -> Return(s, "nil")
       [] dep[runs[s].d].settle = "waiting"        -> Return(s, "at_settle")
       [] OTHER -> Goto(s, "classify")
  /\ UNCHANGED <<jobs, dep, att, ledger, aws, lock, asks>>

\* trailVerdict: evidence is true when there is any; there may be none yet.
TrailVerdicts(d) ==
  {"none", "unreadable"} \cup
  (IF landed[d][att[d].op] > 0 THEN {"applied"} ELSE {"not_applied"})

\* The table of two readings and the trail; "none" is outcome_unresolved.
Decision(prev, this, trail) ==
  IF this = "conflict" \/ prev # this THEN "none"
  ELSE IF this = "unobservable" THEN IF trail = "unreadable" THEN "none" ELSE trail
  ELSE IF trail = "unreadable" THEN IF this = "applied" THEN "applied" ELSE "none"
  ELSE IF trail # "none" /\ trail # this THEN "none"
  ELSE this

\* Back to applying with the deploy job queued, unless the state moved.
RereadWithoutAttemptTx(d) ==
  IF dep[d].st \in {"outcome_unknown", "outcome_unresolved"}
  THEN dep' = [dep EXCEPT ![d].st = "applying"] /\ jobs' = Enqueue(jobs, "deploy", d)
  ELSE UNCHANGED <<dep, jobs>>

\* ClassifyUnknown, the trail and lastReading.  A reading DefaultUnknownReadingGap
\* after the one before shows all that was applied before that one.
ClassifyUnknown(s) ==
  LET r == runs[s] IN
  /\ r.at = "classify" /\ Fenced(s)
  /\ IF ~Unresolved(att[r.d])
     THEN RereadWithoutAttemptTx(r.d) /\ Return(s, "nil")
     ELSE /\ UNCHANGED <<jobs, dep>>
          /\ \/ Return(s, "retry_later")
             \/ \E facts \in Readable(r.d), outside, gap \in BOOLEAN, trail \in TrailVerdicts(r.d) :
                  LET this == ResolveUnknownOp(Effects, att[r.d].op, facts, outside) IN
                  /\ gap => dep[r.d].read # "none" /\ vis[r.d] = LandedFacts(r.d)
                  /\ runs' = [runs EXCEPT ![s].at = "record", ![s].this = this,
                        ![s].ret = IF gap THEN Decision(dep[r.d].read, this, trail) ELSE "early"]
  /\ UNCHANGED <<att, ledger, aws, lock, asks>>

RecordReading(s) ==
  LET r == runs[s] IN
  /\ Tx(s, "record")
  /\ dep' = [dep EXCEPT ![r.d].read = r.this]
  /\ CASE r.ret = "early" -> Return(s, "retry_later")
       [] r.ret = "none"  -> Goto(s, "unresolved")
       [] OTHER           -> Goto(s, "resolve")
  /\ UNCHANGED <<jobs, att, ledger, aws, lock, asks>>

\* IGAGovAttemptLog.ResolveUnknown: the attempt and its deployment, or neither.
ResolveUnknown(s) ==
  LET r == runs[s] IN
  /\ Tx(s, "resolve")
  /\ IF Unresolved(att[r.d]) /\ dep[r.d].st = "outcome_unknown"
     THEN /\ att' = [att EXCEPT ![r.d].res = r.ret]
          /\ dep' = [dep EXCEPT ![r.d].st = "applying"]
          /\ Goto(s, "redeploy")
     ELSE Return(s, "error") /\ UNCHANGED <<att, dep>>
  /\ UNCHANGED <<jobs, ledger, aws, lock, asks>>

EnqueueDeploy(s) ==
  /\ runs[s].at = "redeploy" /\ Fenced(s)
  /\ jobs' = Enqueue(jobs, "deploy", runs[s].d)
  /\ Return(s, "nil")
  /\ UNCHANGED <<dep, att, ledger, aws, lock, asks>>

MarkUnresolved(s) ==
  /\ Tx(s, "unresolved")
  /\ dep' = [dep EXCEPT ![runs[s].d].st = IF @ = "outcome_unknown" THEN "outcome_unresolved" ELSE @]
  /\ Return(s, "nil")
  /\ UNCHANGED <<jobs, att, ledger, aws, lock, asks>>

-----------------------------------------------------------------------------
(* Stuck deployments: the sweep and the exhausted hook. *)

jobKindFor(st) == IF st = "outcome_unknown" THEN "resolve_unknown" ELSE "deploy"

FailTx(d) ==
  /\ dep' = [dep EXCEPT ![d].st = "failed"]
  /\ ledger' = [ledger EXCEPT ![d] = Settled(@, dep[d].done)]

\* x is the row as the transaction has it so far.
DeclareUnresolvedTx(d, x) ==
  /\ dep' = [dep EXCEPT ![d] = Declared(x)]
  /\ UNCHANGED ledger

\* The replacement rule found a request that may have been sent.
HoldForOutcome(d, x, js) ==
  LET y == EnsuredUnknown(RecoveredDep(x, att[d])) IN
  /\ dep' = [dep EXCEPT ![d] = y]
  /\ jobs' = EnqueueSettled(js, d, y)
  /\ UNCHANGED ledger

\* Mutants: an applying deployment fails without the replacement rule; one that
\* touched AWS is left as it is.
ExhaustedFailsAtOnce(d) == FailTx(d) /\ UNCHANGED <<jobs, att>>

ExhaustedLeavesTouched(d) ==
  IF dep[d].done = {} /\ ~dep[d].sent THEN FailTx(d) /\ UNCHANGED <<jobs, att>>
  ELSE UNCHANGED <<dep, ledger, jobs, att>>

ExhaustedTx(d) ==
  CASE dep[d].st = "queued" -> FailTx(d) /\ UNCHANGED <<jobs, att>>
    [] dep[d].st = "outcome_unknown" -> DeclareUnresolvedTx(d, dep[d]) /\ UNCHANGED <<jobs, att>>
    [] dep[d].st = "applying" ->
         /\ att' = [att EXCEPT ![d] = RecoveredAttempt(@)]
         /\ IF RecoveryAction(att[d]) \in {"outcome_unknown", "hold"} THEN HoldForOutcome(d, dep[d], jobs)
            ELSE /\ IF dep[d].done = {} /\ ~dep[d].sent THEN FailTx(d) ELSE DeclareUnresolvedTx(d, dep[d])
                 /\ UNCHANGED jobs

IsStuck(d) == dep[d].st \in {"queued", "applying", "outcome_unknown"} /\ OpenJobs(d) = {}

SettleStuck(d) ==
  IF jobs[<<jobKindFor(dep[d].st), d>>].status # "failed"
  THEN /\ jobs' = IF jobKindFor(dep[d].st) = "deploy" THEN Enqueue(jobs, "deploy", d)
                  ELSE EnqueueSettled(jobs, d, dep[d])
       /\ UNCHANGED <<dep, att, ledger>>
  ELSE ExhaustedTx(d)

SweepStuckDeployments(d) ==
  /\ IsStuck(d) /\ lock # d
  /\ SettleStuck(d)
  /\ UNCHANGED <<runs, aws, lock, asks>>

OnJobExhausted(s) ==
  LET d == runs[s].d IN
  /\ runs[s].at = "hook" /\ lock # d
  /\ IF IsStuck(d) THEN SettleStuck(d) ELSE UNCHANGED <<jobs, dep, att, ledger>>
  /\ runs' = [runs EXCEPT ![s] = Idle]
  /\ UNCHANGED <<aws, lock, asks>>

FailExhaustedJobs ==
  /\ \E j \in DOMAIN jobs : Exhausted(jobs[j])
  /\ jobs' = [j \in DOMAIN jobs |-> IF Exhausted(jobs[j]) THEN ExhaustedFailed(jobs[j]) ELSE jobs[j]]
  /\ UNCHANGED <<runs, dep, att, ledger, aws, lock, asks>>

-----------------------------------------------------------------------------
(* The routes: a deployment is created; an operator resolves one. *)

Insert(x, d) == [x EXCEPT ![d].st = "queued"]

\* uq_iga_gov_deployment_inflight: one in flight on the role.
CreateDeployment(d) ==
  /\ dep[d].st = "absent"
  /\ \A e \in Dep : dep[e].st \notin InFlight
  /\ dep' = Insert(dep, d)
  /\ jobs' = Enqueue(jobs, "deploy", d)
  /\ UNCHANGED <<runs, att, ledger, aws, lock, asks>>

Ask == asks < MaxAsks /\ asks' = asks + 1

\* The event of an operator's request: lastReading looks at no reading before it.
ResolveRequested(x) == [x EXCEPT !.read = "none"]

\* Resolve(reread) of an unresolved outcome, or of an unknown one after settle_after.
ResolveReread(d) ==
  /\ Ask /\ lock # d
  /\ dep[d].st = "outcome_unresolved" \/ (dep[d].st = "outcome_unknown" /\ dep[d].settle = "passed")
  /\ LET next == IF Unresolved(att[d]) THEN "outcome_unknown" ELSE "applying" IN
     /\ dep' = [dep EXCEPT ![d] = [ResolveRequested(@) EXCEPT !.st = next]]
     /\ jobs' = Enqueue(jobs, jobKindFor(next), d)
  /\ UNCHANGED <<runs, att, ledger, aws, lock>>

\* resolveApplying(reread).
RequeueApplying(d) ==
  /\ Ask /\ lock # d
  /\ dep[d].st = "applying" /\ RunningJobs(d) = {}
  /\ dep' = [dep EXCEPT ![d] = ResolveRequested(@)]
  /\ jobs' = Enqueue(jobs, "deploy", d)
  /\ UNCHANGED <<runs, att, ledger, aws, lock>>

\* resolveApplying(accept_observed | emergency_undo) is refused while a job runs;
\* it abandons the jobs still queued and declares the deployment.
DeclareStuckTx(d) ==
  LET x == ResolveRequested(dep[d])
      js == [j \in DOMAIN jobs |->
               IF j[2] = d /\ jobs[j].status = "queued" THEN Abandoned(jobs[j]) ELSE jobs[j]] IN
  /\ att' = [att EXCEPT ![d] = RecoveredAttempt(@)]
  /\ IF RecoveryAction(att[d]) \in {"outcome_unknown", "hold"} THEN HoldForOutcome(d, x, js)
     ELSE DeclareUnresolvedTx(d, x) /\ jobs' = js

\* One transaction that holds the deployment's row: first the count of running
\* jobs, which the lock does not cover ...
DeclareStuckCheck(d) ==
  /\ Ask /\ lock = 0
  /\ dep[d].st = "applying" /\ RunningJobs(d) = {}
  /\ lock' = d
  /\ UNCHANGED <<jobs, runs, dep, att, ledger, aws>>

\* ... then the rest.
DeclareStuckCommit(d) ==
  /\ lock = d /\ lock' = 0
  /\ DeclareStuckTx(d)
  /\ UNCHANGED <<runs, aws, asks>>

\* Handoff: the unresolved deployment is recovered by its successor.
Handoff(d, e) ==
  /\ Ask /\ lock = 0
  /\ dep[d].st = "outcome_unresolved" /\ dep[e].st = "absent"
  /\ dep' = Insert([dep EXCEPT ![d].st = "recovered"], e)
  /\ jobs' = Enqueue(jobs, "deploy", e)
  /\ UNCHANGED <<runs, att, ledger, aws, lock>>

-----------------------------------------------------------------------------
(* Time. *)

\* The lease runs below the margin and then out; a lapsed lease stands for both,
\* as no step asks which.
LeaseRunsDown(j) ==
  /\ jobs[j].lease = "ample"
  /\ jobs' = [jobs EXCEPT ![j] = LeaseAged(LeaseAged(@))]
  /\ UNCHANGED <<runs, dep, att, ledger, aws, lock, asks>>

\* settle_after is signed_at plus the time a signed request stays valid.
SettleElapses(d) ==
  /\ dep[d].settle = "waiting"
  /\ \A q \in net : q.d # d
  /\ dep' = [dep EXCEPT ![d].settle = "passed"]
  /\ jobs' = [jobs EXCEPT ![<<"resolve_unknown", d>>].due = TRUE]
  /\ UNCHANGED <<runs, att, ledger, aws, lock, asks>>

-----------------------------------------------------------------------------
Work(s) ==
  \/ Load(s) \/ Start(s) \/ Recover(s) \/ EnqueueResolve(s) \/ Check(s) \/ CannotGoOn(s)
  \/ Read(s) \/ Recognise(s) \/ Choose(s) \/ MarkIntended(s) \/ Prepare(s) \/ AbandonOwn(s)
  \/ Dispatch(s) \/ Complete(s) \/ MarkUnknown(s) \/ Readback(s) \/ WriteLedger(s)
  \/ Applied(s) \/ Stop(s)
  \/ WaitSettle(s) \/ ClassifyUnknown(s) \/ RecordReading(s) \/ ResolveUnknown(s)
  \/ EnqueueDeploy(s) \/ MarkUnresolved(s)

Worker(s) ==
  \/ \E j \in DOMAIN jobs : Claim(s, j)
  \/ Work(s) \/ Renew(s) \/ LeaseLost(s) \/ Crash(s) \/ HandlerError(s) \/ Finish(s)
  \/ OnJobExhausted(s)

Aws ==
  \/ \E q \in net : AwsApplies(q) \/ AwsRefuses(q) \/ RequestLost(q)
  \/ \E d \in Dep : Propagates(d)

Operator(d) ==
  \/ ResolveReread(d) \/ RequeueApplying(d) \/ DeclareStuckCheck(d) \/ DeclareStuckCommit(d)
  \/ \E e \in Dep : Handoff(d, e)

Next ==
  \/ \E s \in Slot : Worker(s)
  \/ Aws
  \/ \E d \in Dep : CreateDeployment(d) \/ SweepStuckDeployments(d) \/ SettleElapses(d) \/ Operator(d)
  \/ FailExhaustedJobs
  \/ \E j \in DOMAIN jobs : LeaseRunsDown(j)

Spec == Init /\ [][Next]_vars

\* Some process goes on sweeping, and an operator's transaction ends.
SweptSpec ==
  Spec /\ \A d \in Dep : WF_vars(SweepStuckDeployments(d)) /\ WF_vars(DeclareStuckCommit(d))

-----------------------------------------------------------------------------
(* Properties. *)

\* Whatever is lost, late, retried or crashed, AWS applies an op of a plan at
\* most once (the write-ahead log, the settle window and the two readings
\* together); only an op no read can see may be sent again.
AppliedOnce ==
  \A d \in Dep, o \in Op : OpObservable(Effects, o) => landed[d][o] <= 1

\* resolved_as is what happened: an attempt resolved applied was applied, and
\* one resolved not_applied was not and never will be.
ResolvedTruthfully ==
  \A d \in Dep : att[d].op \in Op /\ OpObservable(Effects, att[d].op) =>
    /\ att[d].res = "applied" => landed[d][att[d].op] > 0
    /\ att[d].res = "not_applied" =>
         landed[d][att[d].op] = 0 /\ ~\E q \in net : q.d = d /\ q.op = att[d].op

\* A deployment that released the role (blocked, failed or applied) has no
\* request that may still reach AWS and no attempt without an outcome.
ReleasedIsQuiet ==
  \A d \in Dep : dep[d].st \in {"blocked", "failed", "applied_unverified"} =>
    ~OpenAttempt(att[d]) /\ \A q \in net : q.d # d

\* completed_ops is true of AWS: an op recorded done (answered, or recognised
\* from a read) has been applied.
DoneHasLanded ==
  \A d \in Dep : \A o \in dep[d].done : OpObservable(Effects, o) => landed[d][o] > 0

\* A deployment is reported applied only when AWS applied every op of its plan,
\* those no read can see included.
AppliedMeansAll ==
  \A d \in Dep : dep[d].st = "applied_unverified" => \A o \in Op : landed[d][o] > 0

\* No deployment is left in flight without a job (SweepStuckDeployments): stuck,
\* it gets a job again, ends, or is declared to the operator.
NeverForgotten ==
  \A d \in Dep : IsStuck(d) ~> ~IsStuck(d)

\* "a run that STOPPED must not leave one" (settleLedgerTx): once a deployment
\* is blocked, failed or applied, whoever moved it, no intended row of it is left.
StopSettlesLedger ==
  \A d \in Dep : dep[d].st \in {"blocked", "failed", "applied_unverified"} => ledger[d] # "intended"

\* An unresolved unknown attempt holds the role, and a deployment is
\* outcome_unknown only for one: resolve_unknown always has an attempt to
\* decide, so none waits for a decision that cannot come.
UnknownHasCause ==
  \A d \in Dep :
    /\ dep[d].st = "outcome_unknown" => Unresolved(att[d])
    /\ Unresolved(att[d]) => dep[d].st \in {"outcome_unknown", "outcome_unresolved", "recovered"}

\* "removed otherwise (it was never created)" (settleLedgerTx): an artifact the
\* ledger calls removed was never created.
RemovedWasNeverCreated ==
  \A d \in Dep : ledger[d] = "removed" => landed[d][CreateOp] = 0

\* "no conflicting operation on the control may start before settle_after"
\* (051): while a request of one deployment may still reach AWS, no other
\* deployment of the role is in flight.
NoConflictBeforeSettle ==
  \A d, e \in Dep : d # e /\ dep[d].settle = "waiting" => dep[e].st \notin InFlight

\* "refused while a job holds the deployment's lease: a running deploy job may be
\* about to send" (resolveApplying): a run that holds its lease and has sent a
\* request works for a deployment that is still in flight.
SenderHoldsRole ==
  \A s \in Slot : runs[s].at = "wait" /\ Fenced(s) => dep[runs[s].d].st \in InFlight
=============================================================================
