--------------------------- MODULE SerialPipeline ---------------------------
(***************************************************************************)
(* What the workspace barrier of iga_pipeline_lease promises a reader of   *)
(* the graph: one run at a time collects, its inventory stands still from  *)
(* its publication to the end of its projection, and a revision shows      *)
(* exactly that inventory.  There are no workers, leases or crashes here.  *)
(***************************************************************************)
EXTENDS Naturals, Sequences

CONSTANT Run

VARIABLES state, \* idle, collecting or projecting
          cur,   \* the run the barrier names, NoRun when idle
          inv,   \* the inventory: the number of writes made to it
          done,  \* runs that published their scan
          revs   \* the revisions: the run and the inventory each shows

vars == <<state, cur, inv, done, revs>>

NoRun == 0

Init ==
  /\ state = "idle" /\ cur = NoRun
  /\ inv = 0 /\ done = {} /\ revs = <<>>

\* A run is admitted only when no other is collecting or being projected.
Begin(r) ==
  /\ state = "idle"
  /\ state' = "collecting" /\ cur' = r
  /\ UNCHANGED <<inv, done, revs>>

\* The inventory changes only while a run that has not published collects.
Collect ==
  /\ state = "collecting" /\ cur \notin done
  /\ inv' = inv + 1
  /\ UNCHANGED <<state, cur, done, revs>>

\* A run publishes its scan once.
Publish ==
  /\ state = "collecting" /\ cur \notin done
  /\ state' = "projecting" /\ done' = done \cup {cur}
  /\ UNCHANGED <<cur, inv, revs>>

\* A run gets one revision, of the inventory as it stands.
Reveal ==
  /\ state = "projecting"
  /\ \A i \in DOMAIN revs : revs[i].run # cur
  /\ revs' = Append(revs, [run |-> cur, read |-> inv])
  /\ UNCHANGED <<state, cur, inv, done>>

\* The workspace is handed on, projected or given up.
End ==
  /\ state # "idle"
  /\ state' = "idle" /\ cur' = NoRun
  /\ UNCHANGED <<inv, done, revs>>

Next == (\E r \in Run : Begin(r)) \/ Collect \/ Publish \/ Reveal \/ End

Spec == Init /\ [][Next]_vars
=============================================================================
