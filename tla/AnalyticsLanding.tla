---------------------------- MODULE AnalyticsLanding ---------------------------
(***************************************************************************)
(* How SBOMs become analytics: the local intake of a lot, the publication  *)
(* of its frozen plan as a snapshot, and a round of SQL over the snapshot. *)
(* Each hands the next something it never changes again (a committed plan, *)
(* a complete snapshot), reads nothing back from it, and shares no other   *)
(* state with it; so a behaviour of the whole is an interleaving of three  *)
(* that do not touch, and each is checked by itself, as the subject.       *)
(***************************************************************************)
EXTENDS LotIntake, SnapshotPublication, AthenaRound

VARIABLE subject    \* which of the three the behaviour is about

vars == <<intakeVars, publicationVars, roundVars, subject>>

Init ==
  /\ IntakeInit /\ PublicationInit /\ RoundInit
  /\ subject \in {"intake", "publication", "round"}

Next ==
  \/ subject = "intake" /\ IntakeNext /\ UNCHANGED <<publicationVars, roundVars, subject>>
  \/ subject = "publication" /\ PublicationNext /\ UNCHANGED <<intakeVars, roundVars, subject>>
  \/ subject = "round" /\ RoundNext /\ UNCHANGED <<intakeVars, publicationVars, subject>>

Spec == Init /\ [][Next]_vars

(* A publication goes on until it ends and is dispatched again if it failed;  *)
(* so is a round, whose executions end or see their deadline pass.            *)
OfPublication(A) == subject = "publication" /\ A /\ UNCHANGED <<intakeVars, roundVars, subject>>
OfRound(A) == subject = "round" /\ A /\ UNCHANGED <<intakeVars, publicationVars, subject>>

Fairness ==
  /\ \A p \in Runs : WF_vars(OfPublication(Publishing(p)))
  /\ WF_vars(OfRound(Proceed))
  /\ \A s \in Statements : WF_vars(OfRound(DeadlinePasses(s)))

FairSpec == Spec /\ Fairness

(* A manifest under a snapshot's prefix means the snapshot is complete: it is *)
(* written last, whatever calls were lost, answered late or repeated by two   *)
(* publishers.  And a run that ends in success, a publication or a recovery,  *)
(* does so on a snapshot that was whole when its last verification began,     *)
(* even when somebody changed the bucket behind it.                           *)
CompleteMeansWhole ==
  /\ changes = 0 /\ Present(Manifest) => Whole
  /\ \A p \in Runs : job[p].pc = "success" => intact[p]

(* No artifact is covered by two entries of the ledger, lots or closed        *)
(* snapshots, whichever runs raced for the lock, were killed with it or had   *)
(* it removed under the operator's rule.                                      *)
ArtifactIngestedOnce ==
  \A d, e \in ledger :
    d # e => d.artifacts \cap e.artifacts = {} /\ <<d.kind, d.name>> # <<e.kind, e.name>>

(* A publication that is dispatched until it succeeds ends with a whole       *)
(* snapshot in the bucket: no sequence of lost, late and conflicting puts and *)
(* killed runs leaves objects that the next dispatch of the same plan cannot  *)
(* complete, unless the bucket was changed by somebody else.                  *)
PublishCompletes ==
  (subject = "publication" /\ ~Present(Manifest)) ~> (Whole \/ changes > 0)

(* A statement is sent to Athena only when every earlier one has succeeded,   *)
(* so at most one query of the round is active, and a run ends in success     *)
(* only when all of them succeeded in time, each submitted after its entry    *)
(* was written: across kills, resumptions and journals of the wrong age.      *)
RoundIsSequential ==
  /\ \A s, t \in Statements : s < t /\ remote[t].state # "none" => remote[s].state = "succeeded"
  /\ run.pc = "success" =>
       \A s \in Statements : /\ remote[s].state = "succeeded"
                              /\ remote[s].late < run.journal[s].made /\ run.journal[s].made <= remote[s].by

(* No query runs that the journal does not know: the running dispatch's       *)
(* journal, or the newest one a restore accepts while it has none, holds an   *)
(* entry of every execution, written before it was submitted.  A fresh round  *)
(* dispatched over a started one is stopped by the tables it finds; what      *)
(* escapes is a dispatch over executions that left none yet, a stale journal, *)
(* one lost with its runner or stranded in a cancelled job, a changed snapshot.*)
JournalKnows ==
  LET Holds(journal, s) == s <= Len(journal) /\ journal[s].made <= remote[s].by IN
  ~strayed => \A s \in Statements :
    remote[s].state # "none" => Holds(IF run.journal = << >> THEN Kept ELSE run.journal, s)

(* A round that was dispatched ends: in success, or with an execution that    *)
(* failed or ran out of time written in an uploaded journal, whatever calls   *)
(* failed and processes died, and whoever was cancelled before writing more   *)
(* than it had restored.  Not so when the newest journal was lost or stranded *)
(* in a cancelled job, a stale one or none at all was resumed from, or the    *)
(* snapshot changed: the code refuses to work around those.                   *)
RoundSettles ==
  (subject = "round" /\ run.pc # "idle")
    ~> (run.pc = "success" \/ strayed \/ \E i \in DOMAIN archive : Closed(archive[i].journal))

(***************************************************************************)
(* The abstract specification that this one implements.                    *)
(***************************************************************************)
Snapshot ==
  IF Whole THEN "whole"
  ELSE IF changes # 0 THEN "broken" ELSE IF Present(Manifest) THEN "partial" ELSE "absent"

Sighted == {p \in Runs : intact[p]}
Confirmed == {p \in Runs : job[p].pc = "success"}
States == [s \in Statements |-> remote[s].state]

Promise ==
  INSTANCE AnalyticsPromise WITH
    snapshot <- Snapshot,
    sighted <- Sighted,
    confirmed <- Confirmed,
    statement <- States,
    reported <- run.pc = "success"

(* Whatever is lost, late, killed or raced for: an entry joins the ledger only*)
(* when it overlaps with nothing there, the snapshot appears whole and is     *)
(* broken by nobody in the pipeline, a run that confirms it has seen it whole,*)
(* and statements run once each, in order and one at a time.                  *)
ImplementsPromise == Promise!Spec
================================================================================
