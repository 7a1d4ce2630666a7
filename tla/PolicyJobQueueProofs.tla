------------------------ MODULE PolicyJobQueueProofs ------------------------
(***************************************************************************)
(* Proofs about PolicyJobQueue, for any number of slots, processes, rows,  *)
(* keys, attempts and hand-backs.                                          *)
(***************************************************************************)
EXTENDS PolicyJobQueue, TLAPS

\* What makes SingleHolder inductive: a run never holds a version the row has
\* not reached, two runs never hold the same version of one row, and while the
\* row is still running at the run's version, nobody has changed its attempts.
FenceInv ==
  /\ \A s \in Slot : runs[s].at # "idle" =>
       /\ jobs[runs[s].job].status # "none"
       /\ runs[s].ver <= jobs[runs[s].job].ver
       /\ runs[s].ver = jobs[runs[s].job].ver /\ jobs[runs[s].job].status = "running"
            => runs[s].attempts = jobs[runs[s].job].attempts
  /\ \A s, t \in Slot :
       /\ runs[s].at # "idle" /\ runs[t].at # "idle"
       /\ runs[s].job = runs[t].job /\ runs[s].ver = runs[t].ver
       => s = t

\* The counters of one row: Claim stops at the ceiling, and what Fail and
\* Requeue put back in the queue is below it.
CountInv ==
  \A j \in JobId :
    /\ jobs[j].status = "queued" => jobs[j].attempts < MaxAttempts
    /\ jobs[j].status = "running" => jobs[j].attempts \in 1 .. MaxAttempts
    /\ wrote[j] <= jobs[j].ver
    /\ jobs[j].status = "none" => wrote[j] = 0

IInv == TypeOK /\ FenceInv /\ CountInv

\* The part of TypeOK about statements, which only enqueue touches.
StmtsTyped == stmts \in [Replica -> Stmt \cup {NoStmt}]

\* Every statement on a row leaves a row.
LEMMA RowOps ==
  ASSUME NEW r \in Row, NEW d \in BOOLEAN
  PROVE  /\ \A o \in Owner : Claimed(r, o) \in Row
         /\ Renewed(r) \in Row
         /\ Completed(r) \in Row
         /\ Abandoned(r) \in Row
         /\ Failed(r) \in Row
         /\ Requeued(r, d) \in Row
         /\ ExhaustedFailed(r) \in Row
         /\ LeaseAged(r) \in Row
<1>1. ASSUME NEW o \in Owner PROVE Claimed(r, o) \in Row
  <2>1. r.ver + 1 \in Nat /\ r.attempts + 1 \in Nat
    BY DEF Row
  <2> QED BY <2>1 DEF Row, Claimed, Status, Lease
<1>2. Renewed(r) \in Row
  BY DEF Row, Renewed, Lease
<1>3. Completed(r) \in Row /\ Abandoned(r) \in Row
  BY DEF Row, Completed, Abandoned, Status, Lease
<1>4. Failed(r) \in Row
  BY DEF Row, Failed, Status, Lease
<1>5. Requeued(r, d) \in Row
  <2>1. (IF r.attempts > 0 THEN r.attempts - 1 ELSE 0) \in Nat
    BY DEF Row
  <2> QED BY <2>1 DEF Row, Requeued, Status, Lease
<1>6. ExhaustedFailed(r) \in Row
  BY DEF Row, ExhaustedFailed, Status, Lease
<1>7. LeaseAged(r) \in Row
  BY DEF Row, LeaseAged, Lease
<1> QED BY <1>1, <1>2, <1>3, <1>4, <1>5, <1>6, <1>7

\* What finish writes for a handler's outcome is a row.
LEMMA OutcomeRowType ==
  ASSUME NEW r \in Row, NEW o \in Outcome
  PROVE  OutcomeRow(r, o) \in Row
BY RowOps DEF OutcomeRow, Outcome

\* What enqueue inserts is a row.
LEMMA NewRowType ==
  ASSUME NEW kind \in Kind, NEW key \in Key, NEW d \in BOOLEAN
  PROVE  NewRow(kind, key, d) \in Row
BY DEF Row, NewRow, Status, Lease, NoOwner

\* finish ends the run's hold: the row keeps its version and its key, is no
\* longer running, and is open again only below the ceiling.
LEMMA OutcomeRowEffect ==
  ASSUME NEW r \in Row, NEW o \in Outcome, r.attempts \in 1 .. MaxAttempts
  PROVE  LET q == OutcomeRow(r, o) IN
         /\ q.ver = r.ver /\ q.kind = r.kind /\ q.key = r.key
         /\ q.status \in {"queued", "complete", "failed", "abandoned"}
         /\ q.status = "queued" => q.attempts < MaxAttempts
BY RowConstants
   DEF Row, OutcomeRow, Outcome, Completed, Abandoned, Failed, Requeued

-----------------------------------------------------------------------------
\* The empty table with idle slots satisfies the inductive invariant.
THEOREM InitInv == Init => IInv
<1> SUFFICES ASSUME Init PROVE IInv
    OBVIOUS
<1> PICK k \in Key : jobs = [j \in JobId |-> [NewRow("deploy", k, FALSE) EXCEPT !.status = "none"]]
    BY DEF Init
<1>1. TypeOK
  BY DEF Init, TypeOK, Idle, Run, NewRow, Row, Kind, Status, Lease, NoOwner, NoJob
<1>2. FenceInv
  BY DEF Init, FenceInv, Idle
<1>3. CountInv
  BY RowConstants DEF Init, CountInv, NewRow
<1> QED BY <1>1, <1>2, <1>3 DEF IInv
-----------------------------------------------------------------------------
(* Most steps neither take a job nor start a new row.  They are quiet: a row  *)
(* keeps its version and does not start running, a run keeps its claim or     *)
(* ends.                                                                      *)

QuietRow(r, q) ==
  /\ q \in Row
  /\ q.ver = r.ver
  /\ q.status = "none" <=> r.status = "none"
  /\ q.status = "running" => r.status = "running" /\ q.attempts = r.attempts
  /\ q.status = "queued" => q.attempts < MaxAttempts

QuietRun(r, q) ==
  /\ q \in Run
  /\ \/ q.at = "idle"
     \/ r.at # "idle" /\ q.at # "idle" /\ q.job = r.job /\ q.ver = r.ver /\ q.attempts = r.attempts

\* A row left alone is quiet.
LEMMA SameRow ==
  ASSUME IInv, NEW j \in JobId
  PROVE  QuietRow(jobs[j], jobs[j])
BY DEF IInv, TypeOK, CountInv, QuietRow

\* A run left alone is quiet.
LEMMA SameRun ==
  ASSUME IInv, NEW s \in Slot
  PROVE  QuietRun(runs[s], runs[s]) /\ QuietRun(runs[s], Idle)
BY DEF IInv, TypeOK, QuietRun, Idle, Run, NoJob

\* A quiet step preserves the invariant.
LEMMA QuietStep ==
  ASSUME IInv,
         jobs' = [j \in JobId |-> jobs'[j]],
         runs' = [s \in Slot |-> runs'[s]],
         \A j \in JobId : QuietRow(jobs[j], jobs'[j]),
         \A s \in Slot : QuietRun(runs[s], runs'[s]),
         UNCHANGED <<stmts, wrote>>
  PROVE  IInv'
<1>1. TypeOK'
  <2>1. jobs' \in [JobId -> Row]
    BY DEF QuietRow
  <2>2. runs' \in [Slot -> Run]
    BY DEF QuietRun
  <2>3. \A s \in Slot : runs'[s].at # "idle" => runs'[s].job \in JobId
    BY DEF IInv, TypeOK, QuietRun
  <2> QED BY <2>1, <2>2, <2>3 DEF IInv, TypeOK
<1>2. FenceInv'
  <2>1. ASSUME NEW s \in Slot, runs'[s].at # "idle"
        PROVE  /\ runs'[s].job = runs[s].job /\ runs'[s].ver = runs[s].ver
               /\ runs'[s].attempts = runs[s].attempts
               /\ runs[s].at # "idle" /\ runs[s].job \in JobId
    BY <2>1 DEF IInv, TypeOK, QuietRun
  <2>2. ASSUME NEW s \in Slot, runs'[s].at # "idle"
        PROVE  /\ jobs'[runs'[s].job].status # "none"
               /\ runs'[s].ver <= jobs'[runs'[s].job].ver
               /\ runs'[s].ver = jobs'[runs'[s].job].ver /\ jobs'[runs'[s].job].status = "running"
                    => runs'[s].attempts = jobs'[runs'[s].job].attempts
    <3>1. QuietRow(jobs[runs[s].job], jobs'[runs[s].job])
      BY <2>1, <2>2
    <3> QED BY <2>1, <2>2, <3>1 DEF IInv, FenceInv, QuietRow
  <2> QED BY <2>1, <2>2 DEF IInv, FenceInv
<1>3. CountInv'
  BY DEF IInv, TypeOK, Row, CountInv, QuietRow
<1> QED BY <1>1, <1>2, <1>3 DEF IInv

\* The same for a step that touches one row, and one that touches one run.
LEMMA QuietRowUpdate ==
  ASSUME IInv, NEW j \in JobId, NEW q, QuietRow(jobs[j], q),
         jobs' = [jobs EXCEPT ![j] = q], UNCHANGED <<runs, stmts, wrote>>
  PROVE  IInv'
<1>1. jobs' = [i \in JobId |-> jobs'[i]] /\ runs' = [t \in Slot |-> runs'[t]]
  BY DEF IInv, TypeOK
<1>2. ASSUME NEW i \in JobId PROVE QuietRow(jobs[i], jobs'[i])
  BY SameRow DEF IInv, TypeOK
<1> QED BY <1>1, <1>2, SameRun, QuietStep

\* A quiet step that changes one run.
LEMMA QuietRunUpdate ==
  ASSUME IInv, NEW s \in Slot, NEW r, QuietRun(runs[s], r),
         runs' = [runs EXCEPT ![s] = r], UNCHANGED <<jobs, stmts, wrote>>
  PROVE  IInv'
<1>1. jobs' = [i \in JobId |-> jobs'[i]] /\ runs' = [t \in Slot |-> runs'[t]]
  BY DEF IInv, TypeOK
<1>2. ASSUME NEW t \in Slot PROVE QuietRun(runs[t], runs'[t])
  BY SameRun DEF IInv, TypeOK
<1> QED BY <1>1, <1>2, SameRow, QuietStep

\* A quiet step that changes one row and one run.
LEMMA QuietUpdate ==
  ASSUME IInv,
         NEW j \in JobId, NEW q, QuietRow(jobs[j], q), jobs' = [jobs EXCEPT ![j] = q],
         NEW s \in Slot, NEW r, QuietRun(runs[s], r), runs' = [runs EXCEPT ![s] = r],
         UNCHANGED <<stmts, wrote>>
  PROVE  IInv'
<1>1. jobs' = [i \in JobId |-> jobs'[i]] /\ runs' = [t \in Slot |-> runs'[t]]
  BY DEF IInv, TypeOK
<1>2. ASSUME NEW i \in JobId PROVE QuietRow(jobs[i], jobs'[i])
  BY SameRow DEF IInv, TypeOK
<1>3. ASSUME NEW t \in Slot PROVE QuietRun(runs[t], runs'[t])
  BY SameRun DEF IInv, TypeOK
<1> QED BY <1>1, <1>2, <1>3, QuietStep

-----------------------------------------------------------------------------
(* The steps that are not quiet. *)

\* enqueue's INSERT preserves the invariant: no run knows the new row.
LEMMA InsertInv ==
  ASSUME IInv, NEW kind \in Kind, NEW key \in Key, NEW due \in BOOLEAN,
         Insert(kind, key, due), StmtsTyped', UNCHANGED <<runs, wrote>>
  PROVE  IInv'
<1> PICK j \in JobId : /\ Absent(jobs[j])
                       /\ jobs' = [jobs EXCEPT ![j] = NewRow(kind, key, due)]
    BY DEF Insert
<1>1. NewRow(kind, key, due) \in Row
  BY NewRowType
<1>2. TypeOK'
  BY <1>1 DEF IInv, TypeOK, StmtsTyped
<1>3. ASSUME NEW s \in Slot, runs[s].at # "idle"
      PROVE  runs[s].job \in JobId /\ runs[s].job # j
  BY <1>3 DEF IInv, TypeOK, FenceInv, Absent
<1>4. FenceInv'
  BY <1>3 DEF IInv, TypeOK, FenceInv
<1>5. CountInv'
  BY RowConstants DEF IInv, TypeOK, CountInv, NewRow, Absent
<1> QED BY <1>2, <1>4, <1>5 DEF IInv

\* The three steps of enqueue preserve it: a statement in the middle of its work
\* knows a kind and a key and nothing of the rows.
LEMMA EnqueueInv ==
  ASSUME IInv,
         \/ \E k \in Key, due \in BOOLEAN : EnqueueTx(k, due)
         \/ \E p \in Replica, k \in Key : EnqueuePeriodicTx(p, k) \/ EnqueueOnceTx(p, k)
         \/ \E p \in Replica, due \in BOOLEAN : InsertSelected(p, due)
  PROVE  IInv'
<1>1. StmtsTyped
  BY DEF IInv, TypeOK, StmtsTyped
<1>2. ASSUME NEW k \in Key, NEW due \in BOOLEAN, EnqueueTx(k, due) PROVE IInv'
  BY <1>1, <1>2, InsertInv DEF EnqueueTx, Kind, StmtsTyped
<1>3. ASSUME StmtsTyped', UNCHANGED <<jobs, runs, wrote>> PROVE IInv'
  BY <1>3 DEF StmtsTyped, IInv, TypeOK, FenceInv, CountInv
<1>4. ASSUME NEW p \in Replica, NEW k \in Key, EnqueuePeriodicTx(p, k) \/ EnqueueOnceTx(p, k)
      PROVE  IInv'
  BY <1>1, <1>3, <1>4 DEF EnqueuePeriodicTx, EnqueueOnceTx, StmtsTyped, Stmt
<1>5. ASSUME NEW p \in Replica, NEW due \in BOOLEAN, InsertSelected(p, due) PROVE IInv'
  <2>1. StmtsTyped' /\ stmts[p] \in Stmt
    BY <1>1, <1>5 DEF InsertSelected, StmtsTyped
  <2>2. stmts[p][1] \in Kind /\ stmts[p][2] \in Key
    BY <2>1 DEF Stmt, Kind
  <2> QED BY <1>3, <1>5, <2>1, <2>2, InsertInv DEF InsertSelected
<1> QED BY <1>2, <1>4, <1>5

\* Claim preserves it: the new lease_version is above every run's.
LEMMA ClaimInv ==
  ASSUME IInv, NEW s \in Slot, NEW j \in JobId, Claim(s, j)
  PROVE  IInv'
<1> DEFINE new == [at |-> "handling", job |-> j, ver |-> jobs[j].ver + 1,
                   attempts |-> jobs[j].attempts + 1, lost |-> FALSE]
<1>1. /\ jobs' = [jobs EXCEPT ![j] = Claimed(jobs[j], OwnerOf[s])]
      /\ runs' = [runs EXCEPT ![s] = new]
      /\ UNCHANGED <<stmts, wrote>>
  BY DEF Claim
<1>2. jobs[j] \in Row /\ jobs[j].ver \in Nat /\ jobs[j].attempts \in Nat
  BY DEF IInv, TypeOK, Row
<1>3. /\ jobs'[j] \in Row /\ jobs'[j].ver = jobs[j].ver + 1
      /\ jobs'[j].attempts = jobs[j].attempts + 1 /\ jobs'[j].status = "running"
  <2>1. Claimed(jobs[j], OwnerOf[s]) \in Row
    BY <1>2, RowOps, QueueConstants
  <2> QED BY <1>1, <1>2, <2>1 DEF IInv, TypeOK, Row, Claimed
<1>4. \A i \in JobId : i # j => jobs'[i] = jobs[i]
  BY <1>1 DEF IInv, TypeOK
<1>5. runs'[s] = new /\ \A t \in Slot : t # s => runs'[t] = runs[t]
  BY <1>1 DEF IInv, TypeOK
<1>6. new \in Run
  BY <1>2 DEF Run
<1>7. TypeOK'
  BY <1>1, <1>3, <1>5, <1>6 DEF IInv, TypeOK
<1>8. FenceInv'
  <2>1. ASSUME NEW t \in Slot, t # s, runs[t].at # "idle", runs[t].job = j
        PROVE  runs[t].ver < jobs[j].ver + 1
    BY <1>2, <2>1 DEF IInv, TypeOK, Run, FenceInv
  <2> QED BY <1>2, <1>3, <1>4, <1>5, <2>1 DEF IInv, TypeOK, Run, FenceInv
<1>9. CountInv'
  <2>1. jobs[j].attempts < MaxAttempts /\ jobs[j].status # "none"
    BY DEF Claim, ClaimableRow
  <2> QED BY <1>1, <1>2, <1>3, <1>4, <2>1, RowConstants DEF IInv, TypeOK, CountInv
<1> QED BY <1>7, <1>8, <1>9 DEF IInv

\* A fenced transaction preserves it: it writes at the row's own version.
LEMMA InTxInv ==
  ASSUME IInv, NEW s \in Slot, InTx(s)
  PROVE  IInv'
<1>1. CASE Holds(s)
  <2>1. /\ wrote' = [wrote EXCEPT ![runs[s].job] = runs[s].ver]
        /\ UNCHANGED <<jobs, runs, stmts>>
    BY <1>1 DEF InTx
  <2>2. runs[s].job \in JobId /\ runs[s].ver \in Nat /\ runs[s].ver = jobs[runs[s].job].ver
        /\ jobs[runs[s].job].status = "running"
    BY <1>1 DEF Holds, Owned, IInv, TypeOK, Run
  <2> QED BY <2>1, <2>2 DEF IInv, TypeOK, Row, FenceInv, CountInv
<1>2. CASE ~Holds(s)
  <2>1. runs' = [runs EXCEPT ![s] = [runs[s] EXCEPT !.lost = TRUE]] /\ UNCHANGED <<jobs, stmts, wrote>>
    BY <1>2 DEF InTx
  <2>2. QuietRun(runs[s], [runs[s] EXCEPT !.lost = TRUE])
    BY DEF IInv, TypeOK, QuietRun, Run
  <2> QED BY <2>1, <2>2, QuietRunUpdate
<1> QED BY <1>1, <1>2
-----------------------------------------------------------------------------
(* The quiet steps. *)

\* finish preserves it: the row it leaves is no longer running.
LEMMA FinishInv ==
  ASSUME IInv, NEW s \in Slot, NEW o \in Outcome, Finish(s, o)
  PROVE  IInv'
<1>1. runs' = [runs EXCEPT ![s] = Idle] /\ UNCHANGED <<stmts, wrote>>
  BY DEF Finish
<1>2. QuietRun(runs[s], Idle)
  BY SameRun
<1>3. CASE ~runs[s].lost /\ Holds(s)
  <2> DEFINE j == runs[s].job
  <2>1. j \in JobId /\ jobs[j].status = "running"
    BY <1>3 DEF Holds, Owned, IInv, TypeOK
  <2>2. jobs' = [jobs EXCEPT ![j] = OutcomeRow(jobs[j], o)]
    BY <1>3 DEF Finish
  <2>3. jobs[j] \in Row /\ jobs[j].attempts \in 1 .. MaxAttempts
    BY <2>1 DEF IInv, TypeOK, CountInv
  <2>4. QuietRow(jobs[j], OutcomeRow(jobs[j], o))
    BY <2>1, <2>3, OutcomeRowType, OutcomeRowEffect DEF QuietRow
  <2> HIDE DEF j
  <2> QED BY <1>1, <1>2, <2>1, <2>2, <2>4, QuietUpdate
<1>4. CASE ~(~runs[s].lost /\ Holds(s))
  <2>1. jobs' = jobs
    BY <1>4 DEF Finish
  <2> QED BY <1>1, <1>2, <2>1, QuietRunUpdate
<1> QED BY <1>3, <1>4

\* The renewer preserves it, whether it renews or marks the run lost.
LEMMA RenewInv ==
  ASSUME IInv, NEW s \in Slot, Renew(s) \/ ExternalBegin(s)
  PROVE  IInv'
<1> DEFINE j == runs[s].job
           lost == [runs[s] EXCEPT !.lost = TRUE]
           calling == [runs[s] EXCEPT !.at = "calling"]
<1>1. runs[s].at # "idle" /\ j \in JobId /\ runs[s] \in Run /\ jobs[j] \in Row
  BY DEF Renew, ExternalBegin, IInv, TypeOK
<1>2. QuietRun(runs[s], lost) /\ QuietRun(runs[s], calling) /\ QuietRun(runs[s], runs[s])
  BY <1>1 DEF QuietRun, Run
<1>3. QuietRow(jobs[j], Renewed(jobs[j]))
  <2>1. Renewed(jobs[j]) \in Row
    BY <1>1, RowOps
  <2> QED BY <1>1, <2>1 DEF QuietRow, Renewed, Row, IInv, CountInv
<1>4. \/ jobs' = [jobs EXCEPT ![j] = Renewed(jobs[j])] /\ UNCHANGED <<runs, stmts, wrote>>
      \/ /\ jobs' = [jobs EXCEPT ![j] = Renewed(jobs[j])]
         /\ runs' = [runs EXCEPT ![s] = calling] /\ UNCHANGED <<stmts, wrote>>
      \/ runs' = [runs EXCEPT ![s] = lost] /\ UNCHANGED <<jobs, stmts, wrote>>
  BY DEF Renew, ExternalBegin
<1> HIDE DEF j, lost, calling
<1> QED BY <1>1, <1>2, <1>3, <1>4, QuietRowUpdate, QuietRunUpdate, QuietUpdate

\* The end of an external call preserves it.
LEMMA EndCallInv ==
  ASSUME IInv, NEW s \in Slot, ExternalEnd(s) \/ Crash(s)
  PROVE  IInv'
<1> DEFINE back == [runs[s] EXCEPT !.at = "handling", !.lost = runs[s].lost \/ ~Holds(s)]
<1>1. QuietRun(runs[s], Idle)
  BY SameRun
<1>2. ASSUME ExternalEnd(s) PROVE QuietRun(runs[s], back)
  BY <1>2 DEF ExternalEnd, QuietRun, Run, IInv, TypeOK
<1>3. CASE ExternalEnd(s)
  <2>1. runs' = [runs EXCEPT ![s] = back] /\ UNCHANGED <<jobs, stmts, wrote>>
    BY <1>3 DEF ExternalEnd
  <2> HIDE DEF back
  <2> QED BY <1>2, <1>3, <2>1, QuietRunUpdate
<1>4. CASE Crash(s)
  BY <1>1, <1>4, QuietRunUpdate DEF Crash
<1> QED BY <1>3, <1>4

\* The passing of time and PruneFinished preserve it.
LEMMA ClockInv ==
  ASSUME IInv, NEW j \in JobId,
         PruneFinished(j) \/ LeaseRunsDown(j) \/ ComesDue(j) \/ WindowPasses(j)
  PROVE  IInv'
<1>1. jobs[j] \in Row
  BY DEF IInv, TypeOK
<1>2. CASE PruneFinished(j)
  <2>1. QuietRow(jobs[j], [jobs[j] EXCEPT !.status = "deleted"])
    BY <1>1, <1>2 DEF PruneFinished, QuietRow, Row, Status
  <2> QED BY <1>2, <2>1, QuietRowUpdate DEF PruneFinished
<1>3. CASE LeaseRunsDown(j)
  <2>1. LeaseAged(jobs[j]) \in Row
    BY <1>1, RowOps
  <2>2. QuietRow(jobs[j], LeaseAged(jobs[j]))
    BY <1>1, <2>1 DEF QuietRow, Row, LeaseAged, IInv, CountInv
  <2> QED BY <1>3, <2>2, QuietRowUpdate DEF LeaseRunsDown
<1>4. CASE ComesDue(j)
  <2>1. QuietRow(jobs[j], [jobs[j] EXCEPT !.due = TRUE])
    BY <1>1, <1>4 DEF ComesDue, QuietRow, Row, IInv, CountInv
  <2> QED BY <1>4, <2>1, QuietRowUpdate DEF ComesDue
<1>5. CASE WindowPasses(j)
  <2>1. QuietRow(jobs[j], [jobs[j] EXCEPT !.recent = FALSE])
    BY <1>1, <1>5 DEF WindowPasses, QuietRow, Row, IInv, CountInv
  <2> QED BY <1>5, <2>1, QuietRowUpdate DEF WindowPasses
<1> QED BY <1>2, <1>3, <1>4, <1>5

\* FailExhaustedJobs preserves it: the rows it fails are held by no one after.
LEMMA SweepInv ==
  ASSUME IInv, FailExhaustedJobs
  PROVE  IInv'
<1>1. /\ jobs' = [j \in JobId |-> IF Exhausted(jobs[j]) THEN ExhaustedFailed(jobs[j]) ELSE jobs[j]]
      /\ UNCHANGED <<runs, stmts, wrote>>
  BY DEF FailExhaustedJobs
<1>2. ASSUME NEW j \in JobId PROVE QuietRow(jobs[j], jobs'[j])
  <2>1. jobs[j] \in Row
    BY DEF IInv, TypeOK
  <2>2. CASE Exhausted(jobs[j])
    <3>1. ExhaustedFailed(jobs[j]) \in Row
      BY <2>1, RowOps
    <3> QED BY <1>1, <2>1, <2>2, <3>1 DEF QuietRow, Row, Exhausted, ExhaustedFailed
  <2>3. CASE ~Exhausted(jobs[j])
    BY <1>1, <2>3, SameRow
  <2> QED BY <2>2, <2>3
<1>3. runs' = [t \in Slot |-> runs'[t]]
  BY <1>1 DEF IInv, TypeOK
<1> QED BY <1>1, <1>2, <1>3, SameRun, QuietStep
-----------------------------------------------------------------------------
\* Every step of the queue preserves the inductive invariant.
LEMMA NextInv == IInv /\ [Next]_vars => IInv'
<1> SUFFICES ASSUME IInv, [Next]_vars PROVE IInv'
    OBVIOUS
<1>1. CASE \/ \E k \in Key, due \in BOOLEAN : EnqueueTx(k, due)
           \/ \E p \in Replica, k \in Key : EnqueuePeriodicTx(p, k) \/ EnqueueOnceTx(p, k)
           \/ \E p \in Replica, due \in BOOLEAN : InsertSelected(p, due)
  BY <1>1, EnqueueInv
<1>2. ASSUME NEW s \in Slot, NEW j \in JobId, Claim(s, j) PROVE IInv'
  BY <1>2, ClaimInv
<1>3. ASSUME NEW s \in Slot, Renew(s) \/ InTx(s) \/ ExternalBegin(s) \/ ExternalEnd(s) \/ Crash(s)
      PROVE  IInv'
  BY <1>3, RenewInv, InTxInv, EndCallInv
<1>4. ASSUME NEW s \in Slot, NEW o \in Outcome, Finish(s, o) PROVE IInv'
  BY <1>4, FinishInv
<1>5. CASE FailExhaustedJobs
  BY <1>5, SweepInv
<1>6. ASSUME NEW j \in JobId,
             PruneFinished(j) \/ LeaseRunsDown(j) \/ ComesDue(j) \/ WindowPasses(j)
      PROVE  IInv'
  BY <1>6, ClockInv
<1>7. CASE UNCHANGED vars
  BY <1>7 DEF vars, IInv, TypeOK, FenceInv, CountInv
<1> QED BY <1>1, <1>2, <1>3, <1>4, <1>5, <1>6, <1>7 DEF Next

\* The inductive invariant holds in every reachable state.
THEOREM Invariance == Spec => []IInv
<1>1. Init => IInv
  BY InitInv
<1>2. IInv /\ [Next]_vars => IInv'
  BY NextInv
<1> QED BY <1>1, <1>2, PTL DEF Spec

\* Rows and runs stay well formed, whatever the interleaving of enqueues,
\* claims, crashes, renewals and sweeps (iga_gov_job_repository.go).
THEOREM TypeCorrect == Spec => []TypeOK
<1>1. IInv => TypeOK
  BY DEF IInv
<1> QED BY <1>1, Invariance, PTL

\* The fence: at most one run of a job can pass fencedJob or AssertOwnedTx,
\* however many processes and slots there are and however long each stalls.
THEOREM FenceIsExclusive == Spec => []SingleHolder
<1>1. IInv => SingleHolder
  BY DEF IInv, TypeOK, Run, FenceInv, SingleHolder, Holds, Owned
<1> QED BY <1>1, Invariance, PTL

\* The comment in finish, "attempts at claim = attempts now", for every run
\* that still holds its job: the exhausted hook and Fail agree.
THEOREM HookAgreesWithFail == Spec => []AttemptsAtClaimAreCurrent
<1>1. IInv => AttemptsAtClaimAreCurrent
  BY DEF IInv, TypeOK, FenceInv, AttemptsAtClaimAreCurrent, Holds, Owned
<1> QED BY <1>1, Invariance, PTL

\* No job is left in the queue at its attempt ceiling, where Claim would never
\* take it and FailExhaustedJobs would never see it.
THEOREM QueuedBelowCeiling == Spec => []QueuedIsClaimable
<1>1. IInv => QueuedIsClaimable
  BY DEF IInv, CountInv, QueuedIsClaimable
<1> QED BY <1>1, Invariance, PTL

\* The transactions of a job commit in lease_version order (InTx): a run that
\* was superseded while it slept writes nothing.
THEOREM NoStaleWrite == Spec => WritesInLeaseOrder
<1>1. IInv /\ [Next]_vars => [\A j \in JobId : wrote'[j] >= wrote[j]]_vars
  <2> SUFFICES ASSUME IInv, Next, NEW j \in JobId PROVE wrote'[j] >= wrote[j]
      OBVIOUS
  <2>1. CASE \E s \in Slot : InTx(s)
    <3> PICK s \in Slot : InTx(s)
        BY <2>1
    <3>1. CASE Holds(s)
      BY <3>1 DEF InTx, Holds, Owned, IInv, TypeOK, Run, Row, CountInv
    <3>2. CASE ~Holds(s)
      BY <3>2 DEF InTx, IInv, TypeOK
    <3> QED BY <3>1, <3>2
  <2>2. CASE ~\E s \in Slot : InTx(s)
    <3>1. wrote' = wrote
      BY <2>2 DEF Next, EnqueueTx, EnqueuePeriodicTx, EnqueueOnceTx, InsertSelected, Claim, Renew,
         ExternalBegin, ExternalEnd, Crash, Finish, FailExhaustedJobs, PruneFinished,
         LeaseRunsDown, ComesDue, WindowPasses
    <3> QED BY <3>1 DEF IInv, TypeOK
  <2> QED BY <2>1, <2>2
<1> QED BY <1>1, Invariance, PTL DEF Spec, WritesInLeaseOrder
-----------------------------------------------------------------------------
(* What one step can do to a row that exists: it keeps its kind and key, is   *)
(* never reopened, and once finished keeps its version.                       *)

Moves(r, q) ==
  /\ q.kind = r.kind /\ q.key = r.key
  /\ Open(q) => Open(r)
  /\ Finished(r) => Finished(q) /\ q.ver = r.ver

\* What a step can do to one row: leave it, move it legally, or open it by enqueue.
LEMMA RowMoves ==
  ASSUME IInv, Next
  PROVE  \/ \E kind \in Kind, key \in Key, due \in BOOLEAN :
               NoOpen(jobs, kind, key) /\ Insert(kind, key, due)
         \/ \A j \in JobId : Moves(jobs[j], jobs'[j])
<1> USE DEF IInv, TypeOK
<1>0. \A j \in JobId : Moves(jobs[j], jobs[j])
  BY DEF Moves
<1>1. CASE \/ \E k \in Key, due \in BOOLEAN : EnqueueTx(k, due)
           \/ \E p \in Replica, k \in Key : EnqueuePeriodicTx(p, k) \/ EnqueueOnceTx(p, k)
           \/ \E p \in Replica, due \in BOOLEAN : InsertSelected(p, due)
  <2>1. ASSUME NEW k \in Key, NEW due \in BOOLEAN, EnqueueTx(k, due)
        PROVE  NoOpen(jobs, "deploy", k) /\ Insert("deploy", k, due) /\ "deploy" \in Kind
    BY <2>1 DEF EnqueueTx, Kind
  <2>2. ASSUME NEW p \in Replica, NEW k \in Key, EnqueuePeriodicTx(p, k) \/ EnqueueOnceTx(p, k)
        PROVE  jobs' = jobs
    BY <2>2 DEF EnqueuePeriodicTx, EnqueueOnceTx
  <2>3. ASSUME NEW p \in Replica, NEW due \in BOOLEAN, InsertSelected(p, due)
        PROVE  \/ jobs' = jobs
               \/ \E kind \in Kind, key \in Key : NoOpen(jobs, kind, key) /\ Insert(kind, key, due)
    <3>1. stmts[p][1] \in Kind /\ stmts[p][2] \in Key
      BY <2>3 DEF InsertSelected, Stmt, Kind
    <3> QED BY <2>3, <3>1 DEF InsertSelected
  <2> QED BY <1>0, <1>1, <2>1, <2>2, <2>3
<1>2. ASSUME NEW s \in Slot, NEW j \in JobId, Claim(s, j)
      PROVE  \A i \in JobId : Moves(jobs[i], jobs'[i])
  <2>1. Moves(jobs[j], Claimed(jobs[j], OwnerOf[s]))
    BY <1>2 DEF Claim, ClaimableRow, Claimed, Moves, Open, Finished, Row
  <2> QED BY <1>0, <1>2, <2>1 DEF Claim
<1>3. ASSUME NEW s \in Slot, Renew(s) \/ InTx(s) \/ ExternalBegin(s) \/ ExternalEnd(s) \/ Crash(s)
      PROVE  \A i \in JobId : Moves(jobs[i], jobs'[i])
  <2>1. \A j \in JobId : Moves(jobs[j], Renewed(jobs[j]))
    BY DEF Renewed, Moves, Open, Finished, Row
  <2>2. \/ jobs' = jobs
        \/ runs[s].job \in JobId /\ jobs' = [jobs EXCEPT ![runs[s].job] = Renewed(jobs[runs[s].job])]
    BY <1>3 DEF Renew, InTx, ExternalBegin, ExternalEnd, Crash
  <2> QED BY <1>0, <2>1, <2>2
<1>4. ASSUME NEW s \in Slot, NEW o \in Outcome, Finish(s, o)
      PROVE  \A i \in JobId : Moves(jobs[i], jobs'[i])
  <2> DEFINE j == runs[s].job
  <2>1. CASE ~runs[s].lost /\ Holds(s)
    <3>1. j \in JobId /\ jobs[j].status = "running" /\ jobs[j].attempts \in 1 .. MaxAttempts
      BY <2>1 DEF Holds, Owned, CountInv
    <3>2. Moves(jobs[j], OutcomeRow(jobs[j], o))
      BY <3>1, OutcomeRowEffect DEF Moves, Open, Finished
    <3>3. jobs' = [jobs EXCEPT ![j] = OutcomeRow(jobs[j], o)]
      BY <1>4, <2>1 DEF Finish
    <3> HIDE DEF j
    <3> QED BY <1>0, <3>1, <3>2, <3>3
  <2>2. CASE ~(~runs[s].lost /\ Holds(s))
    BY <1>0, <1>4, <2>2 DEF Finish
  <2> QED BY <2>1, <2>2
<1>5. CASE FailExhaustedJobs
  <2>1. \A j \in JobId : Exhausted(jobs[j]) => Moves(jobs[j], ExhaustedFailed(jobs[j]))
    BY DEF Exhausted, ExhaustedFailed, Moves, Open, Finished, Row
  <2> QED BY <1>0, <1>5, <2>1 DEF FailExhaustedJobs
<1>6. ASSUME NEW j \in JobId,
             PruneFinished(j) \/ LeaseRunsDown(j) \/ ComesDue(j) \/ WindowPasses(j)
      PROVE  \A i \in JobId : Moves(jobs[i], jobs'[i])
  <2>1. Moves(jobs[j], LeaseAged(jobs[j]))
    BY DEF LeaseAged, Moves, Open, Finished, Row
  <2>2. PruneFinished(j) => Moves(jobs[j], [jobs[j] EXCEPT !.status = "deleted"])
    BY DEF PruneFinished, Moves, Open, Finished, Row
  <2>3. /\ Moves(jobs[j], [jobs[j] EXCEPT !.due = TRUE])
        /\ Moves(jobs[j], [jobs[j] EXCEPT !.recent = FALSE])
    BY DEF Moves, Open, Finished, Row
  <2> QED BY <1>0, <1>6, <2>1, <2>2, <2>3 DEF PruneFinished, LeaseRunsDown, ComesDue, WindowPasses
<1> QED BY <1>1, <1>2, <1>3, <1>4, <1>5, <1>6 DEF Next

\* One (kind, dedupe key) never has two open jobs: the conflict clause of
\* enqueue is enough, because nothing else opens a row.
THEOREM OneOpenJob == Spec => []OneOpenPerKey
<1>1. Init => OneOpenPerKey
  BY DEF Init, OneOpenPerKey, Open, NewRow
<1>2. IInv /\ OneOpenPerKey /\ [Next]_vars => OneOpenPerKey'
  <2> SUFFICES ASSUME IInv, OneOpenPerKey, [Next]_vars PROVE OneOpenPerKey'
      OBVIOUS
  <2>1. CASE \A j \in JobId : Moves(jobs[j], jobs'[j])
    BY <2>1 DEF OneOpenPerKey, Moves
  <2>2. ASSUME NEW kind \in Kind, NEW key \in Key, NEW due \in BOOLEAN,
               NoOpen(jobs, kind, key), Insert(kind, key, due)
        PROVE  OneOpenPerKey'
    <3> PICK j \in JobId : jobs' = [jobs EXCEPT ![j] = NewRow(kind, key, due)]
        BY <2>2 DEF Insert
    <3>1. jobs'[j].kind = kind /\ jobs'[j].key = key /\ \A i \in JobId : i # j => jobs'[i] = jobs[i]
      BY DEF NewRow, IInv, TypeOK
    <3>2. \A i \in JobId : jobs[i].kind = kind /\ jobs[i].key = key => ~Open(jobs[i])
      BY <2>2 DEF NoOpen, IInv, TypeOK
    <3> QED BY <3>1, <3>2 DEF OneOpenPerKey
  <2>3. CASE UNCHANGED vars
    BY <2>3 DEF vars, OneOpenPerKey
  <2> QED BY <2>1, <2>2, <2>3, RowMoves
<1> QED BY <1>1, <1>2, Invariance, PTL DEF Spec

\* No late write of a stalled run revives a finished job.
THEOREM FinishedStays == Spec => FinishedIsFinal
<1>1. IInv /\ [Next]_vars
        => [\A j \in JobId : Finished(jobs[j]) => Finished(jobs'[j]) /\ jobs'[j].ver = jobs[j].ver]_vars
  <2> SUFFICES ASSUME IInv, Next, NEW j \in JobId, Finished(jobs[j])
               PROVE  Finished(jobs'[j]) /\ jobs'[j].ver = jobs[j].ver
      OBVIOUS
  <2>1. CASE \A i \in JobId : Moves(jobs[i], jobs'[i])
    BY <2>1 DEF Moves
  <2>2. ASSUME NEW kind \in Kind, NEW key \in Key, NEW due \in BOOLEAN, Insert(kind, key, due)
        PROVE  jobs'[j] = jobs[j]
    BY <2>2 DEF Insert, Absent, Finished, IInv, TypeOK
  <2> QED BY <2>1, <2>2, RowMoves
<1> QED BY <1>1, Invariance, PTL DEF Spec, FinishedIsFinal
=============================================================================
