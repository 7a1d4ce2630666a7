------------------------------ MODULE Actuation ------------------------------
(***************************************************************************)
(* In-cluster enforcement of a quarantine: the decisions on one discovered *)
(* agent (services/discovery_service.go), the queue of instructions for    *)
(* its cluster (services/actuation_service.go), the lease reaper, and the  *)
(* agent pods in the cluster, which poll, act and report.  The pods' code  *)
(* is not in the repository: a pod acts on what it leased in any order,    *)
(* succeeds or fails, and its reports are delayed, repeated or lost.       *)
(*                                                                         *)
(* A statement on the rows is one step; no handler here uses a             *)
(* transaction.  Rows are in created_at order; their idempotency key is    *)
(* the kind.  The cluster does not allow evictions (enforcement_evict).    *)
(***************************************************************************)
EXTENDS Naturals, Sequences, FiniteSets

CONSTANTS Pod,          \* replicas of the agent
          Named,        \* the pods that name themselves when they report
          Admin,        \* concurrent callers of quarantine and release
          Handler,      \* concurrent report requests
          None,
          Batch,        \* the most instructions one poll takes
          MaxAttempts,  \* maxActuationAttempts
          MaxDecisions, \* bound: quarantines and releases decided
          MaxFaults     \* bound: crashes, lost or repeated reports, leases lost to a slow pod

ASSUME ActuationConstants ==
  /\ Named \subseteq Pod /\ None \notin Pod
  /\ Batch \in Nat \ {0} /\ MaxAttempts \in Nat \ {0} /\ MaxDecisions \in Nat /\ MaxFaults \in Nat

VARIABLES insts,   \* provisioning_instructions
          agent,   \* the discovered_agents row
          adm,     \* what each admin's request is doing
          todo,    \* the instructions each pod has yet to act on
          reports, \* reports on their way
          hs,      \* what each report request is doing, and the row it read
          denied,  \* the deny NetworkPolicy is in the cluster
          done,    \* history: instructions carried out in the cluster
          decisions,
          faults

vars == <<insts, agent, adm, todo, reports, hs, denied, done, decisions, faults>>

Kind == {"quarantine", "unquarantine"}
Open == {"pending", "leased"}
Status == Open \cup {"applied", "failed", "superseded"}
Holder == Pod \cup {None, "unknown"}
Inst == [kind : Kind, status : Status, attempts : Nat, by : Holder, lapsed : BOOLEAN]
Report == [id : Nat, by : Named \cup {None}, ok : BOOLEAN]
Request == [pc : {"idle", "write", "classify", "late", "fold"}, id : Nat, by : Named \cup {None}, ok : BOOLEAN,
            status : Status, attempts : Nat, holder : Holder]

TypeOK ==
  /\ insts \in Seq(Inst)
  /\ agent \in [quarantined : BOOLEAN, enforced : BOOLEAN, error : BOOLEAN]
  /\ adm \in [Admin -> [pc : {"idle", "supersede", "enqueue", "existing"}, kind : Kind]]
  /\ todo \in [Pod -> SUBSET DOMAIN insts]
  /\ reports \subseteq Report
  /\ hs \in [Handler -> Request]
  /\ denied \in BOOLEAN
  /\ done \subseteq DOMAIN insts
  /\ decisions \in Nat /\ faults \in Nat

NoRequest == [pc |-> "idle", id |-> 0, by |-> None, ok |-> FALSE, status |-> "pending", attempts |-> 0, holder |-> None]

Init ==
  /\ insts = <<>>
  /\ agent = [quarantined |-> FALSE, enforced |-> FALSE, error |-> FALSE]
  /\ adm = [a \in Admin |-> [pc |-> "idle", kind |-> "quarantine"]]
  /\ todo = [p \in Pod |-> {}]
  /\ reports = {}
  /\ hs = [h \in Handler |-> NoRequest]
  /\ denied = FALSE /\ done = {} /\ decisions = 0 /\ faults = 0

Fault == faults < MaxFaults /\ faults' = faults + 1

-----------------------------------------------------------------------------
\* Decisions.

AdminAt(a, pc) == adm' = [adm EXCEPT ![a].pc = pc]

\* The decision is committed first; whoever is quarantined may be again.
Quarantine(a) ==
  /\ adm[a].pc = "idle"
  /\ decisions < MaxDecisions /\ decisions' = decisions + 1
  /\ agent' = [agent EXCEPT !.quarantined = TRUE]
  /\ adm' = [adm EXCEPT ![a] = [pc |-> "supersede", kind |-> "quarantine"]]
  /\ UNCHANGED <<insts, todo, reports, hs, denied, done, faults>>

ReleaseQuarantine(a) ==
  /\ adm[a].pc = "idle"
  /\ agent.quarantined
  /\ decisions < MaxDecisions /\ decisions' = decisions + 1
  /\ agent' = [agent EXCEPT !.quarantined = FALSE, !.enforced = FALSE, !.error = FALSE]
  /\ adm' = [adm EXCEPT ![a] = [pc |-> "supersede", kind |-> "unquarantine"]]
  /\ UNCHANGED <<insts, todo, reports, hs, denied, done, faults>>

\* Mutant: a status the table does not have.
SupersedeCancelled(a) ==
  /\ adm[a].pc = "supersede"
  /\ insts' = [i \in DOMAIN insts |->
       IF insts[i].kind # adm[a].kind /\ insts[i].status = "pending"
       THEN [insts[i] EXCEPT !.status = "cancelled"] ELSE insts[i]]
  /\ AdminAt(a, "enqueue")
  /\ UNCHANGED <<agent, todo, reports, hs, denied, done, decisions, faults>>

\* supersedeOpenInstruction: the opposite instruction, if nobody has leased it.
Supersede(a) ==
  /\ adm[a].pc = "supersede"
  /\ insts' = [i \in DOMAIN insts |->
       IF insts[i].kind # adm[a].kind /\ insts[i].status = "pending"
       THEN [insts[i] EXCEPT !.status = "superseded"] ELSE insts[i]]
  /\ AdminAt(a, "enqueue")
  /\ UNCHANGED <<agent, todo, reports, hs, denied, done, decisions, faults>>

OpenInstruction(kind) == \E i \in DOMAIN insts : insts[i].kind = kind /\ insts[i].status \in Open

\* INSERT ... ON CONFLICT DO NOTHING over the open instructions.
Enqueue(a) ==
  /\ adm[a].pc = "enqueue"
  /\ LET kind == adm[a].kind IN
     \/ /\ ~OpenInstruction(kind)
        /\ insts' = Append(insts, [kind |-> kind, status |-> "pending", attempts |-> 0, by |-> None, lapsed |-> FALSE])
        /\ AdminAt(a, "idle")
     \/ OpenInstruction(kind) /\ AdminAt(a, "existing") /\ UNCHANGED insts
  /\ UNCHANGED <<agent, todo, reports, hs, denied, done, decisions, faults>>

\* The row the insert collapsed onto is read; it may have closed meanwhile, and then
\* the caller is told that nothing was queued.
ReadExisting(a) ==
  /\ adm[a].pc = "existing"
  /\ AdminAt(a, "idle")
  /\ IF OpenInstruction(adm[a].kind) THEN UNCHANGED agent ELSE agent' = [agent EXCEPT !.error = TRUE]
  /\ UNCHANGED <<insts, todo, reports, hs, denied, done, decisions, faults>>

-----------------------------------------------------------------------------
\* The queue.

Pending == {i \in DOMAIN insts : insts[i].status = "pending"}

\* A poll takes the oldest pending instructions; a pod that gives no name in its reports
\* may give one here.
Lease(p) ==
  /\ Pending # {}
  /\ LET taken == {i \in Pending : Cardinality({j \in Pending : j < i}) < Batch} IN
     /\ \E name \in IF p \in Named THEN {p} ELSE {p, "unknown"} :
          insts' = [i \in DOMAIN insts |->
            IF i \in taken
            THEN [insts[i] EXCEPT !.status = "leased", !.attempts = @ + 1, !.lapsed = FALSE, !.by = name]
            ELSE insts[i]]
     /\ todo' = [todo EXCEPT ![p] = @ \cup taken]
  /\ UNCHANGED <<agent, adm, reports, hs, denied, done, decisions, faults>>

\* Mutant: one attempt more than the ceiling.
AfterFailureOneMore(attempts) == IF attempts > MaxAttempts THEN "failed" ELSE "pending"

AfterFailure(attempts) == IF attempts >= MaxAttempts THEN "failed" ELSE "pending"

\* Mutant: an exhausted instruction is left leased, in nobody's hands.
ReclaimRetryable ==
  /\ \E i \in DOMAIN insts : insts[i].status = "leased" /\ insts[i].lapsed
  /\ insts' = [i \in DOMAIN insts |->
       IF insts[i].status = "leased" /\ insts[i].lapsed /\ insts[i].attempts < MaxAttempts
       THEN [insts[i] EXCEPT !.status = "pending", !.by = None, !.lapsed = FALSE]
       ELSE insts[i]]
  /\ UNCHANGED <<agent, adm, todo, reports, hs, denied, done, decisions, faults>>

\* The reaper: one statement over every lapsed lease.
ReclaimExpiredLeases ==
  /\ \E i \in DOMAIN insts : insts[i].status = "leased" /\ insts[i].lapsed
  /\ insts' = [i \in DOMAIN insts |->
       IF insts[i].status = "leased" /\ insts[i].lapsed
       THEN [insts[i] EXCEPT !.status = AfterFailure(insts[i].attempts), !.by = None, !.lapsed = FALSE]
       ELSE insts[i]]
  /\ UNCHANGED <<agent, adm, todo, reports, hs, denied, done, decisions, faults>>

-----------------------------------------------------------------------------
\* Reports.

\* Mutant: a late failure is taken for a late success.
LateAny(row, m) == row.status = "pending" /\ row.attempts > 0

\* A success for an instruction that is back in the queue.
Late(row, m) == row.status = "pending" /\ m.ok /\ row.attempts > 0

\* Mutant: the reporter is not compared with the holder.
HeldByAny(row, m) == row.status = "leased"

Held(row, m) == row.status = "leased" /\ m.by \in {None, row.by}

\* Report's read of the row, and the answers it gives at once.
Receive(h, m, repeated) ==
  /\ hs[h].pc = "idle" /\ m \in reports
  /\ LET row == insts[m.id] IN
     hs' = [hs EXCEPT ![h] =
       IF Late(row, m) \/ Held(row, m)
       THEN [pc |-> IF Late(row, m) THEN "late" ELSE "write", id |-> m.id, by |-> m.by, ok |-> m.ok,
             status |-> row.status, attempts |-> row.attempts, holder |-> row.by]
       ELSE NoRequest]
  /\ IF repeated THEN Fault /\ UNCHANGED reports ELSE reports' = reports \ {m} /\ UNCHANGED faults
  /\ UNCHANGED <<insts, agent, adm, todo, denied, done, decisions>>

HandlerAt(h, pc) == hs' = [hs EXCEPT ![h].pc = pc]
HandlerIdle(h) == hs' = [hs EXCEPT ![h] = NoRequest]

\* Mutant: the write is conditional on the attempts alone.
SameAttempt(h) == insts[hs[h].id].attempts = hs[h].attempts

\* The lease the request read is the row's still.
SameLease(h) ==
  LET row == insts[hs[h].id] IN
  row.status = "leased" /\ row.by = hs[h].holder /\ row.attempts = hs[h].attempts

Close(i, status) == insts' = [insts EXCEPT ![i] = [@ EXCEPT !.status = status, !.by = None, !.lapsed = FALSE]]

\* The write, conditional on that lease being live.
Write(h) ==
  /\ hs[h].pc = "write"
  /\ \/ /\ SameLease(h) /\ ~insts[hs[h].id].lapsed
        /\ Close(hs[h].id, IF hs[h].ok THEN "applied" ELSE AfterFailure(hs[h].attempts))
        /\ HandlerAt(h, "fold")
     \/ /\ ~(SameLease(h) /\ ~insts[hs[h].id].lapsed)
        /\ HandlerAt(h, "classify") /\ UNCHANGED insts
  /\ UNCHANGED <<agent, adm, todo, reports, denied, done, decisions, faults>>

\* classifyRefusedReport: the holder's own success is recorded though its lease ran out.
Classify(h) ==
  /\ hs[h].pc = "classify"
  /\ \/ SameLease(h) /\ hs[h].ok /\ HandlerAt(h, "late")
     \/ ~(SameLease(h) /\ hs[h].ok) /\ HandlerIdle(h)
  /\ UNCHANGED <<insts, agent, adm, todo, reports, denied, done, decisions, faults>>

\* Mutant: the attempts and the status the request read are not compared.
NobodyElseHoldsAny(h) == insts[hs[h].id].status # "leased" \/ SameLease(h)

\* The fence of recordLateSuccess.
NobodyElseHolds(h) ==
  LET row == insts[hs[h].id] IN
  /\ row.status = hs[h].status /\ row.attempts = hs[h].attempts
  /\ row.status = "leased" => row.by = hs[h].holder

RecordLateSuccess(h) ==
  /\ hs[h].pc = "late"
  /\ \/ NobodyElseHolds(h) /\ Close(hs[h].id, "applied") /\ HandlerAt(h, "fold")
     \/ ~NobodyElseHolds(h) /\ HandlerIdle(h) /\ UNCHANGED insts
  /\ UNCHANGED <<agent, adm, todo, reports, denied, done, decisions, faults>>

\* applyToAgent, a statement of its own after the outcome is recorded.
ApplyToAgent(h) ==
  /\ hs[h].pc = "fold"
  /\ LET kind == insts[hs[h].id].kind IN
     agent' = IF hs[h].ok THEN [agent EXCEPT !.enforced = (kind = "quarantine"), !.error = FALSE]
              ELSE [agent EXCEPT !.error = TRUE]
  /\ HandlerIdle(h)
  /\ UNCHANGED <<insts, adm, todo, reports, denied, done, decisions, faults>>

-----------------------------------------------------------------------------
\* The cluster, faults and time (external).

CarryOut(p, i, ok) ==
  /\ i \in todo[p]
  /\ todo' = [todo EXCEPT ![p] = @ \ {i}]
  /\ denied' = IF ok THEN insts[i].kind = "quarantine" ELSE denied
  /\ done' = IF ok THEN done \cup {i} ELSE done
  /\ reports' = reports \cup {[id |-> i, by |-> IF p \in Named THEN p ELSE None, ok |-> ok]}
  /\ UNCHANGED <<insts, agent, adm, hs, decisions, faults>>

CrashPod(p) ==
  /\ todo[p] # {}
  /\ Fault
  /\ todo' = [todo EXCEPT ![p] = {}]
  /\ UNCHANGED <<insts, agent, adm, reports, hs, denied, done, decisions>>

LoseReport(m) ==
  /\ m \in reports
  /\ Fault
  /\ reports' = reports \ {m}
  /\ UNCHANGED <<insts, agent, adm, todo, hs, denied, done, decisions>>

\* The server dies in the middle of a report request, or of a decision's enforcement.
CrashHandler(h) ==
  /\ hs[h].pc # "idle"
  /\ Fault /\ HandlerIdle(h)
  /\ UNCHANGED <<insts, agent, adm, todo, reports, denied, done, decisions>>

CrashAdmin(a) ==
  /\ adm[a].pc # "idle"
  /\ Fault /\ AdminAt(a, "idle")
  /\ UNCHANGED <<insts, agent, todo, reports, hs, denied, done, decisions>>

\* A lease lapses two minutes after it was taken; on a pod still at work, or with its
\* report on the way, that is a fault.
Lapse(i) ==
  /\ insts[i].status = "leased" /\ ~insts[i].lapsed
  /\ insts' = [insts EXCEPT ![i].lapsed = TRUE]
  /\ IF \/ \E p \in Pod : i \in todo[p]
        \/ \E m \in reports : m.id = i
        \/ \E h \in Handler : hs[h].pc # "idle" /\ hs[h].id = i
     THEN Fault ELSE UNCHANGED faults
  /\ UNCHANGED <<agent, adm, todo, reports, hs, denied, done, decisions>>

-----------------------------------------------------------------------------
AdminStep(a) == Supersede(a) \/ Enqueue(a) \/ ReadExisting(a)
HandlerStep(h) == Write(h) \/ Classify(h) \/ RecordLateSuccess(h) \/ ApplyToAgent(h)

Next ==
  \/ \E a \in Admin : Quarantine(a) \/ ReleaseQuarantine(a) \/ AdminStep(a) \/ CrashAdmin(a)
  \/ \E p \in Pod : Lease(p) \/ CrashPod(p)
  \/ ReclaimExpiredLeases
  \/ \E h \in Handler, m \in reports, repeated \in BOOLEAN : Receive(h, m, repeated)
  \/ \E h \in Handler : HandlerStep(h) \/ CrashHandler(h)
  \/ \E p \in Pod : \E i \in todo[p], ok \in BOOLEAN : CarryOut(p, i, ok)
  \/ \E m \in reports : LoseReport(m)
  \/ \E i \in DOMAIN insts : Lapse(i)

Spec == Init /\ [][Next]_vars

\* The same with orderly pods: each acts on what it leased oldest first.
PodsInOrder == \A p \in Pod : \A i \in todo[p] \ todo'[p], j \in todo'[p] : i < j
OrderedSpec == Init /\ [][Next /\ PodsInOrder]_vars

\* The pods poll on a timer and act, reports arrive, requests run on, leases lapse and
\* the reaper's ticker fires.
Fairness ==
  /\ \A p \in Pod : WF_vars(Lease(p)) /\ WF_vars(\E i \in todo[p], ok \in BOOLEAN : CarryOut(p, i, ok))
  /\ WF_vars(\E h \in Handler, m \in reports : Receive(h, m, FALSE))
  /\ \A h \in Handler : WF_vars(HandlerStep(h))
  /\ WF_vars(\E i \in DOMAIN insts : Lapse(i))
  /\ WF_vars(ReclaimExpiredLeases)

FairSpec == Spec /\ Fairness

-----------------------------------------------------------------------------
\* "A superseded, failed or re-leased instruction still refuses any late report", of the
\* first two (LiveLeaseIsItsHolders has the third): once closed an instruction never
\* changes again, so Lease never hands it out twice.
ClosedIsFinal ==
  [][\A i \in DOMAIN insts : insts[i].status \notin Open => insts'[i] = insts[i]]_vars

\* The lease fence of Report: a live lease ends by a report of its holder, or by one that
\* gives no name, which Report does not compare; the reaper and a late success leave it
\* alone.
LiveLeaseIsItsHolders ==
  [][\A i \in DOMAIN insts, p \in Pod :
       insts[i].status = "leased" /\ insts[i].by = p /\ ~insts[i].lapsed /\ insts'[i].status # "leased" =>
         \E h \in Handler : hs[h].pc = "write" /\ hs[h].id = i /\ hs[h].by \in {p, None}]_vars

\* An instruction recorded applied, on time or late, was carried out in the cluster.
AppliedWasDone == \A i \in DOMAIN insts : insts[i].status = "applied" => i \in done

\* Two copies of a success racing through Report: one of them closes the instruction and
\* reaches applyToAgent, the other is refused, so a release cannot be undone by the copy.
FoldedOnce ==
  \A g, h \in Handler :
    hs[g].pc = "fold" /\ hs[h].pc = "fold" /\ hs[g].ok /\ hs[h].ok /\ hs[g].id = hs[h].id => g = h

\* ReleaseQuarantine: "enforcement state describes what is true NOW, so it does not
\* survive the release".
EnforcementEndsWithRelease == agent.enforced => agent.quarantined

\* maxActuationAttempts bounds the leases of an instruction, whether its pods report
\* failures or vanish, and only then is it failed.
WithinAttempts ==
  \A i \in DOMAIN insts :
    /\ insts[i].attempts <= MaxAttempts
    /\ insts[i].status = "pending" => insts[i].attempts < MaxAttempts
    /\ insts[i].status = "failed" => insts[i].attempts = MaxAttempts

\* Every instruction closes, whatever crashes or is lost: "silence would look identical
\* to progress" (LeaseReaper).
InstructionsClose ==
  \A i \in 1 .. MaxDecisions :
    (i \in DOMAIN insts /\ insts[i].status \in Open) ~> (i \in DOMAIN insts /\ insts[i].status \notin Open)

\* supersedeOpenInstruction: "the cluster converges on the newer decision either way":
\* when every instruction is done, the deny policy is there exactly if the agent is
\* quarantined.
ConvergesOnDecision ==
  /\ \A a \in Admin : adm[a].pc = "idle"
  /\ \A p \in Pod : todo[p] = {}
  /\ \A i \in DOMAIN insts : insts[i].status \in {"applied", "superseded"}
  => denied = agent.quarantined
=============================================================================
