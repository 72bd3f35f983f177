------------------------------- MODULE AthenaRound ------------------------------
(***************************************************************************)
(* An authorised round of SQL statements over a published snapshot          *)
(* (scripts/pipeline/analytics/athena_run.py, athena_restore.py, and the    *)
(* workflow sbom-analytics-athena.yml that dispatches them one at a time).  *)
(* Every statement has a request frozen with its token; a journal on the    *)
(* runner's disk is written before and after each call, uploaded when the   *)
(* job ends, and restored by the dispatch that resumes the round, if the    *)
(* job that uploaded it is one a restore accepts.                           *)
(***************************************************************************)
EXTENDS Naturals, Sequences

CONSTANTS
  S,             \* statements of the plan, submitted in this order (the code has 18)
  Ddl,           \* those that create a table or a view of the catalog
  MaxMishaps     \* bound: failed calls, kills, cancellations, lost runners, dispatches
                 \* without the newest journal, changed snapshots

ASSUME RoundConstants == S \in Nat \ {0} /\ Ddl \subseteq 1..S /\ MaxMishaps \in Nat

VARIABLES
  remote,     \* statement -> its execution at Athena, one per token
  made,       \* statement -> how many journal entries were created for it
  late,       \* statement -> the entries up to this one are past their deadline
  archive,    \* what ended jobs uploaded, oldest first: the journal, how they ended
  run,        \* the dispatch that is going on
  changed,    \* the snapshot is no longer the one the plan names
  strayed,    \* history: the round went on without its newest journal, or the snapshot changed
  mishaps

roundVars == <<remote, made, late, archive, run, changed, strayed, mishaps>>

Statements == 1..S
NotStarted == [state |-> "none", by |-> 0, late |-> 0]
NoRun == [pc |-> "idle", journal |-> << >>, at |-> 1, then |-> "catalog"]

Mishap == mishaps < MaxMishaps /\ mishaps' = mishaps + 1
Running(pc) == run.pc = pc
Step(record) == run' = record
Entry(s) == run.journal[s]
Journaled(s, state) == [run.journal EXCEPT ![s].state = state]

(* validate_journal: a prefix of the plan whose entries, but the last, are   *)
(* VERIFIED.  The entries are made in order, so a sequence is always a prefix.*)
Valid(journal) == \A s \in 1..Len(journal) - 1 : journal[s].state = "VERIFIED"
Closed(journal) == journal # << >> /\ journal[Len(journal)].state \in {"FAILED", "TIMED_OUT"}

(* The job ends: the report directory is uploaded, whatever happened, beside  *)
(* the outcome of the authentication step.                                   *)
Upload(journal, conclusion, authentication) ==
  LET artifact == [journal |-> journal, conclusion |-> conclusion, authentication |-> authentication] IN
  archive' = IF journal = << >> \/ (archive # << >> /\ archive[Len(archive)] = artifact)
             THEN archive ELSE Append(archive, artifact)

JobEnds(journal) == Upload(journal, "failure", "success") /\ Step(NoRun)

(* What athena_restore accepts: a run that ended by itself, not one that was  *)
(* cancelled or ran over its 45 minutes, whose authentication step succeeded, *)
(* and whose journal has executions and is a valid one.                      *)
Accepted(artifact) ==
  /\ artifact.conclusion # "cancelled" /\ artifact.authentication = "success"
  /\ artifact.journal # << >> /\ Valid(artifact.journal)
ValidSources == {i \in DOMAIN archive : Accepted(archive[i])}

(* Mutant of Newest: only the last upload is accepted. *)
LastUpload == Len(archive)

Newest == CHOOSE i \in ValidSources : \A j \in ValidSources : j <= i
Kept == IF ValidSources = {} THEN << >> ELSE archive[Newest].journal

(***************************************************************************)
(* Dispatches                                                              *)
(***************************************************************************)

(* What the empty journal of a fresh round leaves unseen: executions, of      *)
(* which none has left a table or a view in the catalog.                     *)
Tables == {s \in Ddl : remote[s].state = "succeeded"}
Unseen == Tables = {} /\ \E s \in Statements : remote[s].state # "none"

(* fresh_round: an empty journal.  The code refuses it on no account of what  *)
(* was uploaded: only the catalog can.  The snapshot must be the one the      *)
(* configuration names.                                                      *)
Fresh ==
  /\ Running("idle") /\ ~changed
  /\ Step([NoRun EXCEPT !.pc = "credentials"])
  /\ strayed' = (strayed \/ Unseen)
  /\ UNCHANGED <<remote, made, late, archive, changed>>

FreshRound == archive = << >> /\ Fresh /\ UNCHANGED mishaps
FreshAgain == archive # << >> /\ Fresh /\ Mishap

(* resume_source: the operator names an uploaded journal, restored byte for  *)
(* byte and validated before any credential.                                 *)
Restore(i) ==
  /\ Running("idle") /\ ~changed /\ i \in ValidSources
  /\ Step([NoRun EXCEPT !.pc = "credentials", !.journal = archive[i].journal])

Resume ==
  /\ ValidSources # {} /\ Restore(Newest)
  /\ UNCHANGED <<remote, made, late, archive, changed, strayed, mishaps>>

ResumeStale ==
  /\ \E i \in ValidSources : i # Newest /\ Restore(i)
  /\ strayed' = TRUE /\ Mishap
  /\ UNCHANGED <<remote, made, late, archive, changed>>

Authenticate ==
  /\ Running("credentials")
  /\ Step([run EXCEPT !.pc = "catalog"])
  /\ UNCHANGED <<remote, made, late, archive, changed, strayed, mishaps>>

(***************************************************************************)
(* The run                                                                 *)
(***************************************************************************)

(* Mutant of Catalog: a table that no entry created does not end the run. *)
CatalogTrusting ==
  LET journal == run.journal IN
  /\ Running("catalog")
  /\ IF journal # << >> /\ journal[Len(journal)].state = "PREPARED"
     THEN Step([run EXCEPT !.pc = "start", !.at = Len(journal)])
     ELSE Step([run EXCEPT !.pc = "entry", !.at = 1, !.then = "poll"])
  /\ UNCHANGED <<remote, made, late, archive, changed, strayed, mishaps>>

(* resource_readback: a request without an answer is sent again; then every  *)
(* table and view that exists must belong to an entry of this journal.       *)
Catalog ==
  LET journal == run.journal
      foreign == \E s \in Tables : s > Len(journal) IN
  /\ Running("catalog")
  /\ IF journal # << >> /\ journal[Len(journal)].state = "PREPARED"
     THEN Step([run EXCEPT !.pc = "start", !.at = Len(journal)]) /\ UNCHANGED archive
     ELSE IF foreign THEN JobEnds(journal)
     ELSE Step([run EXCEPT !.pc = "entry", !.at = 1, !.then = "poll"]) /\ UNCHANGED archive
  /\ UNCHANGED <<remote, made, late, changed, strayed, mishaps>>

(* The next statement of the loop: its entry is found, or made and written.  *)
NextEntry ==
  LET s == run.at
      journal == run.journal IN
  /\ Running("entry")
  /\ IF s > Len(journal)
     THEN /\ Step([run EXCEPT !.pc = "start", !.journal = Append(@, [state |-> "PREPARED", made |-> made[s] + 1])])
          /\ made' = [made EXCEPT ![s] = @ + 1] /\ UNCHANGED archive
     ELSE /\ IF Entry(s).state \in {"FAILED", "TIMED_OUT"} THEN JobEnds(journal)
             ELSE Step([run EXCEPT !.pc = "poll"]) /\ UNCHANGED archive
          /\ UNCHANGED made
  /\ UNCHANGED <<remote, late, changed, strayed, mishaps>>

(* Mutant of Start: the request carries a token of its own every time. *)
StartAgain ==
  /\ Running("start")
  /\ remote' = [remote EXCEPT ![run.at] = [state |-> "running", by |-> made[run.at], late |-> 0]]
  /\ Step([run EXCEPT !.pc = "answer"])
  /\ UNCHANGED <<made, late, archive, changed, strayed, mishaps>>

(* start_query_execution: the service runs one execution per token.          *)
Start ==
  LET s == run.at IN
  /\ Running("start")
  /\ remote' = [remote EXCEPT ![s] =
       IF @.state = "none" THEN [state |-> "running", by |-> made[s], late |-> 0] ELSE @]
  /\ Step([run EXCEPT !.pc = "answer"])
  /\ UNCHANGED <<made, late, archive, changed, strayed, mishaps>>

Answer ==
  /\ Running("answer")
  /\ Step([run EXCEPT !.pc = run.then, !.journal = Journaled(run.at, "SUBMITTED")])
  /\ UNCHANGED <<remote, made, late, archive, changed, strayed, mishaps>>

(* _terminal_timing: a success counts when it was submitted after the entry  *)
(* was made and ended before the entry's deadline.                           *)
Timely(s) == Entry(s).made \in remote[s].late + 1 .. remote[s].by

(* Mutant of Counts: any terminal state will do. *)
CountsTerminal(s) == remote[s].state \in {"succeeded", "failed"} /\ Timely(s)

Counts(s) == remote[s].state = "succeeded" /\ Timely(s)

(* One observation.  Every outcome is written before it is acted upon, and   *)
(* anything but a success that counts ends the run; one submitted before its *)
(* entry was made is left as it was read, its timing invalid.                *)
Observe ==
  LET s == run.at
      execution == remote[s]
      outcome == IF execution.state = "failed" THEN "FAILED"
                 ELSE IF Entry(s).made <= execution.by /\ Entry(s).made <= execution.late
                     THEN "TIMED_OUT" ELSE "SUCCEEDED" IN
  /\ Running("poll")
  /\ \/ /\ execution.state = "running" /\ late[s] >= Entry(s).made
        /\ Step([run EXCEPT !.pc = "stop", !.journal = Journaled(s, "TIMED_OUT")]) /\ UNCHANGED archive
     \/ /\ Counts(s)
        /\ Step([run EXCEPT !.pc = "compare", !.journal = Journaled(s, "SUCCEEDED")]) /\ UNCHANGED archive
     \/ execution.state # "running" /\ ~Counts(s) /\ JobEnds(Journaled(s, outcome))
  /\ UNCHANGED <<remote, made, late, changed, strayed, mishaps>>

Stop ==
  /\ Running("stop")
  /\ remote' = [remote EXCEPT ![run.at].state = IF @ = "running" THEN "failed" ELSE @]
  /\ JobEnds(run.journal)
  /\ UNCHANGED <<made, late, changed, strayed, mishaps>>

(* The execution's settings, scanned bytes and result rows are as planned.   *)
Compare ==
  LET s == run.at IN
  /\ Running("compare")
  /\ Step([run EXCEPT !.journal = Journaled(s, "VERIFIED"), !.at = IF s = S THEN s ELSE s + 1,
                      !.pc = IF s = S THEN "final" ELSE "entry"])
  /\ UNCHANGED <<remote, made, late, archive, changed, strayed, mishaps>>

(* Every object of the catalog is there and the snapshot is the one read     *)
(* before the first statement.                                               *)
Final ==
  /\ Running("final")
  /\ Upload(run.journal, IF changed THEN "failure" ELSE "success", "success")
  /\ Step(IF changed THEN NoRun ELSE [run EXCEPT !.pc = "success"])
  /\ UNCHANGED <<remote, made, late, changed, strayed, mishaps>>

(* A call or a check fails, or the process dies: the journal on disk is what *)
(* the job uploads.                                                          *)
Going == run.pc \notin {"idle", "success"}

CallFails ==
  /\ Going /\ Mishap
  /\ Upload(run.journal, "failure", IF Running("credentials") THEN "failure" ELSE "success")
  /\ Step(NoRun)
  /\ UNCHANGED <<remote, made, late, changed, strayed>>

(* The job is cancelled, or over its 45 minutes: it uploads its journal too,  *)
(* which no restore accepts, so what it adds to the newest one is stranded.  *)
Cancelled ==
  /\ Going /\ Mishap
  /\ Upload(run.journal, "cancelled", IF Running("credentials") THEN "failure" ELSE "success")
  /\ Step(NoRun) /\ strayed' = (strayed \/ run.journal \notin {<< >>, Kept})
  /\ UNCHANGED <<remote, made, late, changed>>

(* The runner disappears, and its disk with it; or the upload step fails.    *)
RunnerLost ==
  /\ Going /\ Mishap
  /\ Step(NoRun) /\ strayed' = (strayed \/ run.journal \notin {<< >>, Kept})
  /\ UNCHANGED <<remote, made, late, archive, changed>>

(***************************************************************************)
(* The service, the clock and the bucket                                   *)
(***************************************************************************)
Completes(s) ==
  /\ remote[s].state = "running"
  /\ \E state \in {"succeeded", "failed"} :
       remote' = [remote EXCEPT ![s] = [@ EXCEPT !.state = state, !.late = late[s]]]
  /\ UNCHANGED <<made, late, archive, run, changed, strayed, mishaps>>

(* A deadline that passes once the execution has ended changes nothing.       *)
DeadlinePasses(s) ==
  /\ remote[s].state \in {"none", "running"} /\ late[s] < made[s]
  /\ late' = [late EXCEPT ![s] = @ + 1]
  /\ UNCHANGED <<remote, made, archive, run, changed, strayed, mishaps>>

SnapshotChanges ==
  /\ ~changed /\ Mishap
  /\ changed' = TRUE /\ strayed' = TRUE
  /\ UNCHANGED <<remote, made, late, archive, run>>

RoundInit ==
  /\ remote = [s \in Statements |-> NotStarted]
  /\ made = [s \in Statements |-> 0] /\ late = [s \in Statements |-> 0]
  /\ archive = << >> /\ run = NoRun
  /\ changed = FALSE /\ strayed = FALSE /\ mishaps = 0

Proceed ==
  \/ FreshRound \/ Resume \/ Authenticate \/ Catalog \/ NextEntry \/ Start \/ Answer
  \/ Observe \/ Stop \/ Compare \/ Final

RoundNext ==
  \/ Proceed \/ FreshAgain \/ ResumeStale
  \/ CallFails \/ Cancelled \/ RunnerLost \/ SnapshotChanges
  \/ \E s \in Statements : Completes(s) \/ DeadlinePasses(s)
================================================================================
