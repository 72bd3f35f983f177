---------------------------- MODULE AnalyticsPromise ----------------------------
(***************************************************************************)
(* What the analytics landing promises, without locks, requests, versions  *)
(* or journals: a ledger of entries that overlap in nothing, a snapshot    *)
(* that appears whole, and statements that run in their order, one at a    *)
(* time and once each.                                                     *)
(***************************************************************************)
EXTENDS Naturals

CONSTANTS
  Tasks,        \* what may be ingested: [kind, name, artifacts]
  Runs,         \* who publishes or recovers the snapshot
  Statements    \* 1..n

VARIABLES
  ledger,
  snapshot,     \* "absent", "whole", or "broken" by somebody else
  sighted,      \* the runs that last found the snapshot whole
  confirmed,    \* the runs that ended in success
  statement,    \* statement -> the state of its one execution
  reported      \* the round ended in success

promiseVars == <<ledger, snapshot, sighted, confirmed, statement, reported>>

Init ==
  /\ ledger = {} /\ snapshot = "absent"
  /\ sighted = {} /\ confirmed = {}
  /\ statement = [s \in Statements |-> "none"] /\ reported = FALSE

Overlap(d, e) == d.artifacts \cap e.artifacts # {} \/ <<d.kind, d.name>> = <<e.kind, e.name>>

Ingest ==
  /\ \E task \in Tasks : /\ \A e \in ledger : ~Overlap(e, task)
                         /\ ledger' = ledger \cup {task}
  /\ UNCHANGED <<snapshot, sighted, confirmed, statement, reported>>

\* All of the snapshot at once, the first time or after it was broken.
Appear ==
  /\ snapshot # "whole" /\ snapshot' = "whole"
  /\ UNCHANGED <<ledger, sighted, confirmed, statement, reported>>

\* Somebody outside the pipeline changes the bucket.
Break ==
  /\ snapshot' = "broken"
  /\ UNCHANGED <<ledger, sighted, confirmed, statement, reported>>

Sight(p) ==
  /\ snapshot = "whole" /\ sighted' = sighted \cup {p}
  /\ UNCHANGED <<ledger, snapshot, confirmed, statement, reported>>

\* A run starts again, or looks and does not find the snapshot whole.
Forget(p) ==
  /\ p \notin confirmed /\ sighted' = sighted \ {p}
  /\ UNCHANGED <<ledger, snapshot, confirmed, statement, reported>>

Confirm(p) ==
  /\ p \in sighted /\ confirmed' = confirmed \cup {p}
  /\ UNCHANGED <<ledger, snapshot, sighted, statement, reported>>

Submit(s) ==
  /\ statement[s] = "none" /\ \A t \in 1..s - 1 : statement[t] = "succeeded"
  /\ statement' = [statement EXCEPT ![s] = "running"]
  /\ UNCHANGED <<ledger, snapshot, sighted, confirmed, reported>>

End(s) ==
  /\ statement[s] = "running"
  /\ \E state \in {"succeeded", "failed"} : statement' = [statement EXCEPT ![s] = state]
  /\ UNCHANGED <<ledger, snapshot, sighted, confirmed, reported>>

Report ==
  /\ \A s \in Statements : statement[s] = "succeeded"
  /\ reported' = TRUE
  /\ UNCHANGED <<ledger, snapshot, sighted, confirmed, statement>>

Next ==
  \/ Ingest \/ Appear \/ Break \/ Report
  \/ \E p \in Runs : Sight(p) \/ Forget(p) \/ Confirm(p)
  \/ \E s \in Statements : Submit(s) \/ End(s)

Spec == Init /\ [][Next]_promiseVars
================================================================================
