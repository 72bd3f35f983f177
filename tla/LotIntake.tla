------------------------------- MODULE LotIntake -------------------------------
(***************************************************************************)
(* The local intake of SBOM artifacts (scripts/pipeline/analytics/          *)
(* intake.py): each run takes an exclusive lock file, reads every coverage *)
(* the root knows, acquires, stages and normalises the artifacts of a lot, *)
(* refuses those already ingested and commits by one rename.  A killed run leaves  *)
(* the lock behind; an operator who sees no run going removes it.          *)
(***************************************************************************)
EXTENDS Naturals, FiniteSets

CONSTANTS
  Workers,          \* intake processes
  Tasks,            \* [kind : {"LOT", "CLOSED_IMPORTED"}, name, artifacts] asked of them
  MaxTrouble        \* bound: sources that refuse or fail, kills and unreadable entries

ASSUME IntakeConstants ==
  /\ MaxTrouble \in Nat
  /\ \A task \in Tasks : task.kind \in {"LOT", "CLOSED_IMPORTED"} /\ task.artifacts # {}

VARIABLES
  lock,       \* the file .intake.lock is there
  ledger,     \* committed entries: lots and registered closed snapshots
  unread,     \* the entries of the ledger that can no longer be read
  worker,     \* process -> its step, its task, the entries it read, what is left to acquire
  trouble

intakeVars == <<lock, ledger, unread, worker, trouble>>

Resting == [pc |-> "idle", task |-> {}, entries |-> {}, left |-> {}]
Does(w, pc) == worker[w].pc = pc
Becomes(w, record) == worker' = [worker EXCEPT ![w] = record]
Trouble == trouble < MaxTrouble /\ trouble' = trouble + 1
Named(task) == {e \in ledger : e.kind = task.kind /\ e.name = task.name}

(* _deduplicate: an entry of another name that shares an artifact.           *)
Conflicts(task, entries) ==
  \E e \in entries : /\ <<e.kind, e.name>> # <<task.kind, task.name>>
                     /\ e.artifacts \cap task.artifacts # {}

(* The request's shape is checked before anything else.                      *)
Begin(w) ==
  /\ Does(w, "idle")
  /\ \E task \in Tasks : Becomes(w, [Resting EXCEPT !.pc = "lock", !.task = task])
  /\ UNCHANGED <<lock, ledger, unread, trouble>>

(* Mutant of Lock: the lock file is opened without O_EXCL. *)
LockAnyway(w) ==
  /\ Does(w, "lock")
  /\ lock' = TRUE /\ Becomes(w, [worker[w] EXCEPT !.pc = "look"])
  /\ UNCHANGED <<ledger, unread, trouble>>

(* _locked: the file is created exclusively, or the answer is INTAKE_BUSY.   *)
Lock(w) ==
  /\ Does(w, "lock")
  /\ IF lock THEN Becomes(w, Resting) ELSE Becomes(w, [worker[w] EXCEPT !.pc = "look"])
  /\ lock' = TRUE
  /\ UNCHANGED <<ledger, unread, trouble>>

(* An entry of the same name is compared with the task and read back, which  *)
(* answers ALREADY_PRESENT or refuses; otherwise every entry is read.         *)
Look(w) ==
  LET task == worker[w].task
      lot == task.kind = "LOT" IN
  /\ Does(w, "look")
  /\ IF Named(task) # {} THEN Becomes(w, [worker[w] EXCEPT !.pc = IF lot THEN "verify" ELSE "unlock"])
     ELSE IF unread # {} THEN Becomes(w, [worker[w] EXCEPT !.pc = "unlock"])
     ELSE Becomes(w, [worker[w] EXCEPT !.entries = ledger,
                        !.left = IF lot THEN task.artifacts ELSE {},
                        !.pc = IF lot THEN "describe" ELSE "deduplicate"])
  /\ UNCHANGED <<lock, ledger, unread, trouble>>

(* A stage of the lot that finds what it checks in order and goes on.        *)
Passes(w, from, to) ==
  /\ Does(w, from) /\ Becomes(w, [worker[w] EXCEPT !.pc = to])
  /\ UNCHANGED <<lock, ledger, unread, trouble>>

(* The source's report of the next artifact is of the declared artifact, run,*)
(* attempt, repository, branch and source, and it has not expired.           *)
Describe(w) == Passes(w, "describe", "read")

(* Its archive has the declared bytes and is kept.                           *)
Acquire(w) ==
  /\ Does(w, "read")
  /\ \E artifact \in worker[w].left :
       LET left == worker[w].left \ {artifact} IN
       Becomes(w, [worker[w] EXCEPT !.left = left, !.pc = IF left = {} THEN "stage" ELSE "describe"])
  /\ UNCHANGED <<lock, ledger, unread, trouble>>

(* After the last one the archives are opened and bound to their images and  *)
(* origin, the context normalised, and the same batch comes out of both.     *)
Stage(w) == Passes(w, "stage", "normalise")
Normalise(w) == Passes(w, "normalise", "deduplicate")

(* The artifact is missing, expired or another one, its source fails, or a   *)
(* later stage refuses the lot: nothing of it is kept.                       *)
Refused(w) ==
  /\ worker[w].pc \in {"describe", "read", "stage", "normalise", "deduplicate", "export", "commit"}
  /\ Trouble
  /\ Becomes(w, [worker[w] EXCEPT !.pc = "unlock"])
  /\ UNCHANGED <<lock, ledger, unread>>

Deduplicate(w) ==
  /\ Does(w, "deduplicate")
  /\ Becomes(w, [worker[w] EXCEPT !.pc =
       IF Conflicts(worker[w].task, worker[w].entries) THEN "unlock"
       ELSE IF worker[w].task.kind = "LOT" THEN "export" ELSE "commit"])
  /\ UNCHANGED <<lock, ledger, unread, trouble>>

(* The batch is written under a temporary name and read back from there.     *)
Export(w) == Passes(w, "export", "commit")

(* _retry: the committed lot of this name, read back in full, whatever the   *)
(* answer.                                                                   *)
Verify(w) == Passes(w, "verify", "unlock")

(* The plan is frozen and the staged directory renamed to its name, which    *)
(* must not exist: a lot is complete or absent.                              *)
Commit(w) ==
  /\ Does(w, "commit")
  /\ ledger' = IF Named(worker[w].task) = {} THEN ledger \cup {worker[w].task} ELSE ledger
  /\ Becomes(w, [worker[w] EXCEPT !.pc = "unlock"])
  /\ UNCHANGED <<lock, unread, trouble>>

(* finally: lock.unlink() *)
Unlock(w) ==
  /\ Does(w, "unlock")
  /\ lock' = FALSE /\ Becomes(w, Resting)
  /\ UNCHANGED <<ledger, unread, trouble>>

Kill(w) ==
  /\ ~Does(w, "idle") /\ Trouble
  /\ Becomes(w, Resting)
  /\ UNCHANGED <<lock, ledger, unread>>

(* "confirm none is running, then remove it explicitly"                      *)
RemoveLock ==
  /\ lock /\ \A w \in Workers : Does(w, "idle")
  /\ lock' = FALSE
  /\ UNCHANGED <<ledger, unread, worker, trouble>>

EntryLost(e) ==
  /\ e \in ledger \ unread /\ Trouble
  /\ unread' = unread \cup {e}
  /\ UNCHANGED <<lock, ledger, worker>>

IntakeInit ==
  /\ lock = FALSE /\ ledger = {} /\ unread = {} /\ trouble = 0
  /\ worker = [w \in Workers |-> Resting]

IntakeNext ==
  \/ \E w \in Workers : \/ Begin(w) \/ Lock(w) \/ Look(w) \/ Describe(w) \/ Acquire(w)
                        \/ Stage(w) \/ Normalise(w) \/ Deduplicate(w) \/ Export(w)
                        \/ Commit(w) \/ Verify(w) \/ Refused(w) \/ Unlock(w) \/ Kill(w)
  \/ RemoveLock
  \/ \E e \in ledger : EntryLost(e)
================================================================================
