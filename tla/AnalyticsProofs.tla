----------------------------- MODULE AnalyticsProofs ----------------------------
(***************************************************************************)
(* Proofs about AnalyticsLanding, for every number of processes, artifacts,*)
(* objects and statements.                                                 *)
(***************************************************************************)
EXTENDS AnalyticsLanding, TLAPS

(***************************************************************************)
(* The intake.  The lock makes the runs between Look and Unlock exclusive, *)
(* so the entries a run read are still the ledger when it commits.         *)
(***************************************************************************)
Artifacts == UNION {task.artifacts : task \in Tasks}
Reading == {"describe", "read", "stage", "normalise", "deduplicate", "export", "commit"}
Inside == Reading \cup {"look", "verify", "unlock"}

WorkerStates ==
  [pc : {"idle", "lock"} \cup Inside, task : Tasks \cup {{}},
   entries : SUBSET Tasks, left : SUBSET Artifacts]

IntakeTypeOK == lock \in BOOLEAN /\ ledger \subseteq Tasks /\ worker \in [Workers -> WorkerStates]

HoldsLock ==
  /\ \A w \in Workers : worker[w].pc \in Inside => lock = TRUE
  /\ \A v, w \in Workers : worker[v].pc \in Inside /\ worker[w].pc \in Inside => v = w

EntriesAreLedger ==
  \A w \in Workers :
    /\ worker[w].pc # "idle" => worker[w].task \in Tasks
    /\ worker[w].pc \in Reading => worker[w].entries = ledger
    /\ worker[w].pc \in {"export", "commit"} => ~Conflicts(worker[w].task, ledger)

IntakeInv == IntakeTypeOK /\ HoldsLock /\ EntriesAreLedger /\ ArtifactIngestedOnce

(* A run that moves without committing keeps the invariant, when it enters   *)
(* the exclusive part only from inside it or with the lock just taken.       *)
LEMMA WorkerMoves ==
  ASSUME IntakeInv, NEW w \in Workers, NEW r \in WorkerStates,
         worker' = [worker EXCEPT ![w] = r], ledger' = ledger,
         r.pc # "idle" => r.task \in Tasks,
         r.pc \in Reading => r.entries = ledger,
         r.pc \in {"export", "commit"} => ~Conflicts(r.task, ledger),
         r.pc \in Inside => lock' = TRUE /\ (worker[w].pc \in Inside \/ lock = FALSE),
         lock' = lock \/ lock' = TRUE \/ (lock' = FALSE /\ worker[w].pc \in Inside /\ r.pc \notin Inside)
  PROVE  IntakeInv'
<1>1. worker'[w] = r /\ \A v \in Workers : v # w => worker'[v] = worker[v]
  BY DEF IntakeInv, IntakeTypeOK
<1>2. IntakeTypeOK'
  BY DEF IntakeInv, IntakeTypeOK
<1>3. HoldsLock'
  BY <1>1 DEF IntakeInv, HoldsLock
<1>4. EntriesAreLedger'
  BY <1>1 DEF IntakeInv, EntriesAreLedger, Conflicts
<1>5. ArtifactIngestedOnce'
  BY DEF IntakeInv, ArtifactIngestedOnce
<1> QED BY <1>2, <1>3, <1>4, <1>5 DEF IntakeInv

(* A commit adds one entry that shares nothing with the ledger.              *)
LEMMA CommitKeeps ==
  ASSUME IntakeInv, NEW w \in Workers, Commit(w)
  PROVE  IntakeInv'
<1> DEFINE task == worker[w].task
           r == [worker[w] EXCEPT !.pc = "unlock"]
<1>1. worker[w] \in WorkerStates /\ worker[w].pc = "commit" /\ task \in Tasks /\ ~Conflicts(task, ledger)
  BY DEF IntakeInv, Commit, Does, IntakeTypeOK, EntriesAreLedger
<1>2. /\ worker' = [worker EXCEPT ![w] = r] /\ lock' = lock
      /\ ledger' = (IF Named(task) = {} THEN ledger \cup {task} ELSE ledger)
  BY DEF Commit, Becomes
<1>3. r \in WorkerStates /\ r.pc = "unlock" /\ r.task = task
  BY <1>1 DEF WorkerStates, Inside, Reading
<1> HIDE DEF r
<1>4. /\ worker'[w] = r
      /\ \A v \in Workers : v # w => (worker'[v] = worker[v] /\ worker[v].pc \notin Inside)
  BY <1>1, <1>2 DEF IntakeInv, IntakeTypeOK, HoldsLock, Inside, Reading
<1>5. IntakeTypeOK'
  BY <1>1, <1>2, <1>3 DEF IntakeInv, IntakeTypeOK
<1>6. HoldsLock'
  BY <1>1, <1>2, <1>3, <1>4 DEF IntakeInv, HoldsLock, Inside, Reading
<1>7. EntriesAreLedger'
  BY <1>1, <1>3, <1>4 DEF IntakeInv, EntriesAreLedger, Inside, Reading
<1>8. ArtifactIngestedOnce'
  BY <1>1, <1>2 DEF IntakeInv, ArtifactIngestedOnce, Conflicts, Named
<1> QED BY <1>5, <1>6, <1>7, <1>8 DEF IntakeInv

(* Every step of a run or of its surroundings keeps the invariant.           *)
LEMMA IntakeStep ==
  ASSUME IntakeInv, IntakeNext
  PROVE  IntakeInv'
<1>0. \A w \in Workers :
        /\ worker[w] \in WorkerStates
        /\ worker[w].pc # "idle" => worker[w].task \in Tasks
        /\ worker[w].pc \in Inside => lock = TRUE
        /\ worker[w].pc \in Reading => worker[w].entries = ledger
        /\ worker[w].pc \in {"export", "commit"} => ~Conflicts(worker[w].task, ledger)
        /\ ledger \in SUBSET Tasks /\ lock \in BOOLEAN
  BY DEF IntakeInv, IntakeTypeOK, EntriesAreLedger, HoldsLock
<1> USE DEF Does, Becomes, Inside, Reading
<1>1. ASSUME NEW w \in Workers, Begin(w) PROVE IntakeInv'
  <2>1. PICK task \in Tasks : worker' = [worker EXCEPT ![w] = [Resting EXCEPT !.pc = "lock", !.task = task]]
    BY <1>1 DEF Begin
  <2>2. [Resting EXCEPT !.pc = "lock", !.task = task] \in WorkerStates
    BY DEF Resting, WorkerStates
  <2> QED BY <1>1, <2>1, <2>2, WorkerMoves DEF Begin, Resting
<1>2. ASSUME NEW w \in Workers, Lock(w) PROVE IntakeInv'
  <2> DEFINE r == IF lock THEN Resting ELSE [worker[w] EXCEPT !.pc = "look"]
  <2>1. worker' = [worker EXCEPT ![w] = r] /\ lock' = TRUE /\ ledger' = ledger /\ worker[w].pc = "lock"
    BY <1>2 DEF Lock
  <2>2. r \in WorkerStates /\ (r.pc = "idle" \/ (r.pc = "look" /\ lock = FALSE /\ r.task = worker[w].task))
    BY <1>0 DEF Resting, WorkerStates
  <2> HIDE DEF r
  <2> QED BY <1>0, <2>1, <2>2, WorkerMoves
<1>3. ASSUME NEW w \in Workers, Look(w) PROVE IntakeInv'
  <2> DEFINE task == worker[w].task
             lot == task.kind = "LOT"
             read == [worker[w] EXCEPT !.entries = ledger,
                        !.left = IF lot THEN task.artifacts ELSE {},
                        !.pc = IF lot THEN "describe" ELSE "deduplicate"]
             r == IF Named(task) # {} THEN [worker[w] EXCEPT !.pc = IF lot THEN "verify" ELSE "unlock"]
                  ELSE IF unread # {} THEN [worker[w] EXCEPT !.pc = "unlock"] ELSE read
  <2>1. worker' = [worker EXCEPT ![w] = r] /\ lock' = lock /\ ledger' = ledger /\ worker[w].pc = "look"
    BY <1>3 DEF Look
  <2>2. r \in WorkerStates
    <3>1. task \in Tasks /\ task.artifacts \in SUBSET Artifacts
      BY <1>0, <2>1 DEF Artifacts
    <3>2. worker[w] \in WorkerStates /\ ledger \in SUBSET Tasks
      BY <1>0
    <3> HIDE DEF task
    <3>3. read \in WorkerStates
      BY <3>1, <3>2 DEF WorkerStates
    <3>4. /\ [worker[w] EXCEPT !.pc = "unlock"] \in WorkerStates
          /\ [worker[w] EXCEPT !.pc = IF lot THEN "verify" ELSE "unlock"] \in WorkerStates
      BY <3>2 DEF WorkerStates
    <3> QED BY <3>3, <3>4
  <2>3. r.task = task /\ (r.pc \in {"verify", "unlock"}
                          \/ (r.pc \in {"describe", "deduplicate"} /\ r.entries = ledger))
    BY <1>0, <2>1 DEF WorkerStates
  <2> HIDE DEF r
  <2> QED BY <1>0, <2>1, <2>2, <2>3, WorkerMoves
<1>4. ASSUME NEW w \in Workers, Acquire(w) PROVE IntakeInv'
  <2>1. PICK artifact \in worker[w].left :
          LET left == worker[w].left \ {artifact} IN
          worker' = [worker EXCEPT ![w] =
            [worker[w] EXCEPT !.left = left, !.pc = IF left = {} THEN "stage" ELSE "describe"]]
    BY <1>4 DEF Acquire
  <2> DEFINE left == worker[w].left \ {artifact}
             r == [worker[w] EXCEPT !.left = left, !.pc = IF left = {} THEN "stage" ELSE "describe"]
  <2>2. worker' = [worker EXCEPT ![w] = r] /\ lock' = lock /\ ledger' = ledger /\ worker[w].pc = "read"
    BY <1>4, <2>1 DEF Acquire
  <2>3. r \in WorkerStates /\ r.pc \in {"stage", "describe"}
        /\ r.task = worker[w].task /\ r.entries = worker[w].entries
    BY <1>0 DEF WorkerStates
  <2> HIDE DEF r
  <2> QED BY <1>0, <2>2, <2>3, WorkerMoves
<1>5. ASSUME NEW w \in Workers, Refused(w) PROVE IntakeInv'
  <2> DEFINE r == [worker[w] EXCEPT !.pc = "unlock"]
  <2>1. worker' = [worker EXCEPT ![w] = r] /\ lock' = lock /\ ledger' = ledger /\ worker[w].pc \in Reading
    BY <1>5 DEF Refused
  <2>2. r \in WorkerStates /\ r.pc = "unlock" /\ r.task = worker[w].task
    BY <1>0 DEF WorkerStates
  <2> HIDE DEF r
  <2> QED BY <1>0, <2>1, <2>2, WorkerMoves
<1>6. ASSUME NEW w \in Workers, Deduplicate(w) PROVE IntakeInv'
  <2> DEFINE conflict == Conflicts(worker[w].task, worker[w].entries)
             r == [worker[w] EXCEPT !.pc = IF conflict THEN "unlock"
                     ELSE IF worker[w].task.kind = "LOT" THEN "export" ELSE "commit"]
  <2>1. worker' = [worker EXCEPT ![w] = r] /\ lock' = lock /\ ledger' = ledger /\ worker[w].pc = "deduplicate"
    BY <1>6 DEF Deduplicate
  <2>2. /\ r \in WorkerStates /\ r.task = worker[w].task /\ r.entries = worker[w].entries
        /\ r.pc \in {"unlock", "export", "commit"} /\ (conflict => r.pc = "unlock")
    BY <1>0 DEF WorkerStates
  <2>3. ~conflict => ~Conflicts(r.task, ledger)
    BY <1>0, <2>1, <2>2
  <2> HIDE DEF r, conflict
  <2> QED BY <1>0, <2>1, <2>2, <2>3, WorkerMoves
<1>12. ASSUME NEW w \in Workers, NEW from \in Inside, NEW to \in Inside, Passes(w, from, to),
              to \in Reading => from \in Reading,
              to \in {"export", "commit"} => from \in {"export", "commit"}
       PROVE  IntakeInv'
  <2> DEFINE r == [worker[w] EXCEPT !.pc = to]
  <2>1. worker' = [worker EXCEPT ![w] = r] /\ lock' = lock /\ ledger' = ledger /\ worker[w].pc = from
    BY <1>12 DEF Passes
  <2>2. r \in WorkerStates /\ r.pc = to /\ r.task = worker[w].task /\ r.entries = worker[w].entries
    BY <1>0, <1>12 DEF WorkerStates
  <2> HIDE DEF r
  <2> QED BY <1>0, <1>12, <2>1, <2>2, WorkerMoves
<1>13. ASSUME NEW w \in Workers,
              Describe(w) \/ Stage(w) \/ Normalise(w) \/ Export(w) \/ Verify(w)
       PROVE  IntakeInv'
  BY <1>12, <1>13 DEF Describe, Stage, Normalise, Export, Verify
<1>7. ASSUME NEW w \in Workers, Commit(w) PROVE IntakeInv'
  BY <1>7, CommitKeeps
<1>8. ASSUME NEW w \in Workers, Unlock(w) PROVE IntakeInv'
  <2>1. worker' = [worker EXCEPT ![w] = Resting] /\ ledger' = ledger /\ lock' = FALSE /\ worker[w].pc = "unlock"
    BY <1>8 DEF Unlock
  <2>2. Resting \in WorkerStates /\ Resting.pc = "idle"
    BY DEF Resting, WorkerStates
  <2> QED BY <1>0, <2>1, <2>2, WorkerMoves
<1>9. ASSUME NEW w \in Workers, Kill(w) PROVE IntakeInv'
  <2>1. Resting \in WorkerStates /\ Resting.pc = "idle"
    BY DEF Resting, WorkerStates
  <2> QED BY <1>0, <1>9, <2>1, WorkerMoves DEF Kill
<1>10. CASE RemoveLock
  BY <1>10 DEF RemoveLock, IntakeInv, IntakeTypeOK, HoldsLock, EntriesAreLedger,
               ArtifactIngestedOnce, Conflicts
<1>11. ASSUME NEW e \in ledger, EntryLost(e) PROVE IntakeInv'
  BY <1>11 DEF EntryLost, IntakeInv, IntakeTypeOK, HoldsLock, EntriesAreLedger,
               ArtifactIngestedOnce, Conflicts
<1> QED
  BY <1>1, <1>2, <1>3, <1>4, <1>5, <1>6, <1>7, <1>8, <1>9, <1>10, <1>11, <1>13 DEF IntakeNext

(* The invariant of the intake holds in every behaviour.                      *)
LEMMA IntakeAlways == Spec => []IntakeInv
<1>1. Init => IntakeInv
  <2> SUFFICES ASSUME Init PROVE IntakeInv
    OBVIOUS
  <2>1. Resting \in WorkerStates
    BY DEF Resting, WorkerStates
  <2> QED
    BY <2>1 DEF Init, IntakeInit, IntakeInv, IntakeTypeOK, HoldsLock, EntriesAreLedger,
                ArtifactIngestedOnce, Resting, Inside, Reading
<1>2. IntakeInv /\ [Next]_vars => IntakeInv'
  <2> SUFFICES ASSUME IntakeInv, [Next]_vars PROVE IntakeInv'
    OBVIOUS
  <2>1. CASE IntakeNext
    BY <2>1, IntakeStep
  <2>2. CASE UNCHANGED intakeVars
    BY <2>2 DEF intakeVars, IntakeInv, IntakeTypeOK, HoldsLock, EntriesAreLedger,
                ArtifactIngestedOnce, Conflicts
  <2> QED BY <2>1, <2>2 DEF Next, vars
<1> QED BY <1>1, <1>2, PTL DEF Spec

(* ArtifactIngestedOnce holds in every behaviour: whichever processes race,  *)
(* are killed or have their lock removed, on any tasks, the ledger covers no *)
(* artifact twice (intake.py, _locked and _deduplicate).                     *)
THEOREM IngestedOnce == Spec => []ArtifactIngestedOnce
<1>1. IntakeInv => ArtifactIngestedOnce
  BY DEF IntakeInv
<1> QED BY <1>1, IntakeAlways, PTL

(***************************************************************************)
(* The round.  A VERIFIED entry is about an execution that succeeded in    *)
(* time; a run has verified every statement before the one it is at; while *)
(* it cannot be resumed from its own journal, that one has the entries of  *)
(* the newest accepted upload; and a run with no journal will find a table,*)
(* or there is no execution to be found.                                   *)
(***************************************************************************)
Entries ==
  [state : {"PREPARED", "SUBMITTED", "SUCCEEDED", "VERIFIED", "FAILED", "TIMED_OUT"}, made : Nat]
Executions == [state : {"none", "running", "succeeded", "failed"}, by : Nat, late : Nat]
Uploads ==
  [journal : Seq(Entries), conclusion : {"failure", "success", "cancelled"},
   authentication : {"failure", "success"}]
Calling == {"start", "answer", "poll", "stop", "compare"}
Dispatches ==
  [pc : {"idle", "credentials", "catalog", "entry", "final", "success"} \cup Calling,
   journal : Seq(Entries), at : Statements, then : {"catalog", "poll"}]

RoundTypeOK ==
  /\ remote \in [Statements -> Executions]
  /\ made \in [Statements -> Nat] /\ late \in [Statements -> Nat]
  /\ archive \in Seq(Uploads) /\ run \in Dispatches
  /\ changed \in BOOLEAN /\ strayed \in BOOLEAN

Truthful(journal) ==
  /\ Len(journal) <= S
  /\ \A s \in 1..Len(journal) :
       /\ journal[s].made <= made[s]
       /\ journal[s].state = "VERIFIED" =>
            /\ remote[s].state = "succeeded"
            /\ remote[s].late < journal[s].made /\ journal[s].made <= remote[s].by

AllTruthful == Truthful(run.journal) /\ \A i \in 1..Len(archive) : Truthful(archive[i].journal)

InPlace ==
  /\ run.pc = "idle" => run.journal = << >>
  /\ run.pc \in {"credentials", "catalog"} => Valid(run.journal) /\ run.then = "catalog"
  /\ run.pc \in {"entry", "poll", "stop", "compare", "final", "success"} => run.then = "poll"
  /\ run.pc = "entry" => run.at <= Len(run.journal) + 1
  /\ run.pc \in Calling => run.at <= Len(run.journal)
  /\ run.pc \in Calling \cup {"entry"} =>
       \A s \in 1..run.at - 1 : run.journal[s].state = "VERIFIED"
  /\ run.pc \in {"start", "answer"} /\ run.then = "catalog" => run.at = Len(run.journal)
  /\ run.pc = "compare" => Counts(run.at)
  /\ run.pc \in {"final", "success"} =>
       Len(run.journal) = S /\ \A s \in 1..S : run.journal[s].state = "VERIFIED"

InOrder ==
  \A s, t \in Statements : s < t /\ remote[t].state # "none" => remote[s].state = "succeeded"

HasNewest == ValidSources = {} \/ \E i \in ValidSources : \A j \in ValidSources : j <= i
Knows(journal, s) == s <= Len(journal) /\ journal[s].made <= remote[s].by
AsKept ==
  Len(run.journal) = Len(Kept) /\ \A s \in 1..Len(Kept) : Kept[s].made = run.journal[s].made

(* What remains to be verified again is in the newest accepted upload too.    *)
Behind ==
  /\ run.journal # << >>
  /\ \/ run.then = "catalog"
     \/ run.pc \in Calling \cup {"entry"} /\ run.at < Len(run.journal)
Untouched == \A s \in Statements : remote[s].state = "none"
Blank == run.pc # "idle" /\ run.journal = << >>

Known ==
  ~strayed =>
    /\ ~changed
    /\ \A s \in Statements : remote[s].state # "none" =>
         Knows(IF run.journal = << >> THEN Kept ELSE run.journal, s)
    /\ Behind => AsKept
    /\ Blank => Untouched \/ (run.pc \in {"credentials", "catalog"} /\ Tables # {})

RoundInv == RoundTypeOK /\ AllTruthful /\ InPlace /\ InOrder /\ HasNewest /\ Known

(* What an entry promises survives everything the service and the runs do.   *)
LEMMA TruthLasts ==
  ASSUME RoundTypeOK, remote' \in [Statements -> Executions], made' \in [Statements -> Nat],
         \A s \in Statements : made[s] <= made'[s],
         \A s \in Statements : remote[s].state = "succeeded" => remote'[s] = remote[s]
  PROVE  \A journal \in Seq(Entries) : Truthful(journal) => Truthful(journal)'
<1> TAKE journal \in Seq(Entries)
<1> SUFFICES ASSUME Truthful(journal) PROVE Truthful(journal)'
  OBVIOUS
<1>1. Len(journal) \in Nat /\ \A s \in 1..Len(journal) : journal[s].made \in Nat
  <2>1. Len(journal) \in Nat /\ \A s \in 1..Len(journal) : journal[s] \in Entries
    OBVIOUS
  <2> QED BY <2>1 DEF Entries
<1>2. ASSUME NEW s \in 1..Len(journal)
      PROVE  s \in Statements /\ made[s] \in Nat /\ made'[s] \in Nat
  BY <1>1, RoundConstants DEF Truthful, Statements, RoundTypeOK
<1> QED
  BY <1>1, <1>2 DEF Truthful

(* An upload keeps the newest accepted journal, or becomes it.               *)
LEMMA UploadKeeps ==
  ASSUME RoundTypeOK, HasNewest, NEW artifact \in Uploads,
         Upload(artifact.journal, artifact.conclusion, artifact.authentication)
  PROVE  /\ archive' \in Seq(Uploads) /\ HasNewest'
         /\ \A i \in 1..Len(archive') : archive'[i] = artifact \/ (i \in 1..Len(archive) /\ archive'[i] = archive[i])
         /\ Kept' = IF Accepted(artifact) THEN artifact.journal ELSE Kept
<1>0. /\ archive \in Seq(Uploads) /\ Len(archive) \in Nat
      /\ artifact = [journal |-> artifact.journal, conclusion |-> artifact.conclusion,
                     authentication |-> artifact.authentication]
  BY DEF RoundTypeOK, Uploads
<1>a. archive' = IF artifact.journal = << >> \/ (archive # << >> /\ archive[Len(archive)] = artifact)
                 THEN archive ELSE Append(archive, artifact)
  BY <1>0 DEF Upload
<1>1. CASE artifact.journal = << >>
  <2>1. archive' = archive /\ ~Accepted(artifact)
    BY <1>a, <1>1 DEF Accepted
  <2>2. HasNewest' /\ Kept' = Kept
    BY <2>1 DEF HasNewest, Kept, ValidSources, Newest, Accepted, Valid
  <2> QED BY <1>0, <2>1, <2>2
<1>2. CASE artifact.journal # << >> /\ archive # << >> /\ archive[Len(archive)] = artifact
  <2>1. archive' = archive /\ Len(archive) \in DOMAIN archive
    BY <1>0, <1>a, <1>2
  <2>2. HasNewest' /\ Kept' = Kept
    BY <2>1 DEF HasNewest, Kept, ValidSources, Newest, Accepted, Valid
  <2>3. ASSUME Accepted(artifact) PROVE Kept = artifact.journal
    <3>1. Len(archive) \in ValidSources /\ \A j \in ValidSources : j \in Nat /\ j <= Len(archive)
      BY <1>0, <1>2, <2>1, <2>3 DEF ValidSources
    <3>2. Newest \in ValidSources /\ \A j \in ValidSources : j <= Newest
      BY <3>1 DEF Newest
    <3>3. Newest = Len(archive)
      BY <1>0, <3>1, <3>2
    <3> QED BY <1>2, <3>1, <3>3 DEF Kept
  <2> QED BY <1>0, <2>1, <2>2, <2>3
<1>3. CASE artifact.journal # << >> /\ ~(archive # << >> /\ archive[Len(archive)] = artifact)
  <2>1. archive' = Append(archive, artifact)
    BY <1>a, <1>3
  <2>2. /\ archive' \in Seq(Uploads) /\ Len(archive') = Len(archive) + 1
        /\ archive'[Len(archive) + 1] = artifact
        /\ \A i \in 1..Len(archive) : archive'[i] = archive[i]
    BY <1>0, <2>1
  <2>3. ValidSources' = ValidSources \cup (IF Accepted(artifact) THEN {Len(archive) + 1} ELSE {})
    <3>1. \A i \in DOMAIN archive' : i \in 1..Len(archive) \/ i = Len(archive) + 1
      BY <1>0, <2>2
    <3>2. DOMAIN archive = 1..Len(archive) /\ DOMAIN archive' = 1..Len(archive) + 1
      BY <1>0, <2>2
    <3>3. \A i \in DOMAIN archive : Accepted(archive[i])' <=> Accepted(archive[i])
      BY <2>2, <3>2 DEF Accepted, Valid
    <3>4. \A n : n = Len(archive) + 1 => (Accepted(archive[n])' <=> Accepted(artifact))
      BY <2>2 DEF Accepted, Valid
    <3> QED BY <1>0, <2>2, <3>1, <3>2, <3>3, <3>4 DEF ValidSources
  <2>4. \A j \in ValidSources : j \in 1..Len(archive)
    BY <1>0 DEF ValidSources
  <2>5. CASE Accepted(artifact)
    <3>1. /\ Len(archive) + 1 \in ValidSources'
          /\ \A j \in ValidSources' : j \in Nat /\ j <= Len(archive) + 1
      BY <1>0, <2>3, <2>4, <2>5
    <3>2. Newest' \in ValidSources' /\ \A j \in ValidSources' : j <= Newest'
      BY <3>1 DEF Newest
    <3>3. Newest' = Len(archive) + 1
      BY <1>0, <3>1, <3>2
    <3>4. HasNewest'
      BY <3>1 DEF HasNewest
    <3> QED BY <2>2, <2>5, <3>1, <3>3, <3>4 DEF Kept
  <2>6. CASE ~Accepted(artifact)
    <3>1. ValidSources' = ValidSources
      BY <2>3, <2>6
    <3>2. HasNewest' /\ Newest' = Newest
      BY <3>1 DEF HasNewest, Newest
    <3>3. ValidSources # {} => Newest \in ValidSources
      BY DEF HasNewest, Newest
    <3>4. Kept' = Kept
      BY <2>2, <2>4, <3>1, <3>2, <3>3 DEF Kept
    <3> QED BY <2>2, <2>6, <3>2, <3>4
  <2> QED BY <2>5, <2>6
<1> QED BY <1>1, <1>2, <1>3

(* A round in which the archive stays as it is: what a step must show.       *)
LEMMA Goes ==
  ASSUME RoundInv, archive' = archive, RoundTypeOK', Truthful(run.journal)', InPlace', InOrder',
         \A s \in Statements : made[s] <= made'[s],
         \A s \in Statements : remote[s].state = "succeeded" => remote'[s] = remote[s],
         Kept' = Kept => Known'
  PROVE  RoundInv'
<1>1. Kept' = Kept /\ HasNewest'
  BY DEF RoundInv, HasNewest, Kept, ValidSources, Newest, Accepted, Valid
<1>2. ASSUME NEW i \in 1..Len(archive') PROVE Truthful(archive[i].journal)'
  <2>0. i \in 1..Len(archive) /\ archive'[i] = archive[i] /\ archive[i] \in Uploads
    BY <1>2 DEF RoundInv, RoundTypeOK
  <2>1. archive[i].journal \in Seq(Entries) /\ Truthful(archive[i].journal)
    BY <2>0 DEF RoundInv, AllTruthful, Uploads
  <2>2. \A journal \in Seq(Entries) : Truthful(journal) => Truthful(journal)'
    BY TruthLasts DEF RoundInv, RoundTypeOK
  <2>3. \A journal : journal = archive'[i].journal /\ Truthful(journal)' => Truthful(archive[i].journal)'
    BY <2>0, <2>1 DEF Truthful
  <2> QED BY <2>0, <2>1, <2>2, <2>3
<1> QED BY <1>1, <1>2 DEF RoundInv, AllTruthful

(* While a dispatch goes on its journal can be resumed from, or it is as long*)
(* as the one it was resumed from.                                           *)
LEMMA Resumable ==
  ASSUME RoundInv, run.pc # "idle", run.pc \notin Calling \cup {"entry"} \/ run.at >= Len(run.journal)
  PROVE  Valid(run.journal)
<1>1. Len(run.journal) \in Nat /\ run.at \in Nat /\ run.pc \in {"credentials", "catalog", "entry", "final", "success"} \cup Calling
  BY RoundConstants DEF RoundInv, RoundTypeOK, Dispatches, Statements
<1> QED
  BY <1>1, RoundConstants DEF RoundInv, InPlace, Valid

(* The end of a job, whatever it writes last in its journal and however it   *)
(* ends: what is known stays known if the upload is accepted, or has nothing *)
(* that the newest accepted one does not have.                               *)
LEMMA EndKeeps ==
  ASSUME RoundInv, run.pc # "idle", NEW artifact \in Uploads,
         Upload(artifact.journal, artifact.conclusion, artifact.authentication), run' = NoRun,
         Truthful(artifact.journal), Len(artifact.journal) = Len(run.journal),
         \A s \in 1..Len(artifact.journal) : artifact.journal[s].made = run.journal[s].made,
         strayed' \/ strayed \/ run.journal = << >> \/ AsKept \/ Accepted(artifact),
         UNCHANGED <<made, late, changed>>, strayed' \in BOOLEAN, strayed => strayed',
         remote' \in [Statements -> Executions], InOrder',
         \A s \in Statements : remote[s].state = "succeeded" => remote'[s] = remote[s],
         \A s \in Statements : remote'[s].by = remote[s].by,
         \A s \in Statements : remote'[s].state # "none" => remote[s].state # "none"
  PROVE  RoundInv'
<1> DEFINE journal == artifact.journal
<1>1. RoundTypeOK /\ HasNewest /\ Known /\ run.journal \in Seq(Entries) /\ journal \in Seq(Entries)
  BY DEF RoundInv, RoundTypeOK, Dispatches, Uploads
<1>2. /\ archive' \in Seq(Uploads) /\ HasNewest'
      /\ \A i \in 1..Len(archive') :
           archive'[i] = artifact \/ (i \in 1..Len(archive) /\ archive'[i] = archive[i])
      /\ Kept' = IF Accepted(artifact) THEN journal ELSE Kept
  BY <1>1, UploadKeeps
<1>3. RoundTypeOK'
  BY <1>1, <1>2, RoundConstants DEF RoundTypeOK, NoRun, Dispatches, Statements
<1>4. AllTruthful'
  <2>1. \A other \in Seq(Entries) : Truthful(other) => Truthful(other)'
    BY <1>1, TruthLasts DEF RoundTypeOK
  <2>2. ASSUME NEW i \in 1..Len(archive') PROVE Truthful(archive[i].journal)'
    <3>1. PICK other \in Seq(Entries) : other = archive'[i].journal /\ Truthful(other)
      <4>1. CASE archive'[i] = artifact
        BY <1>1, <4>1
      <4>2. CASE i \in 1..Len(archive) /\ archive'[i] = archive[i]
        <5>0. archive[i] \in Uploads
          BY <1>1, <4>2 DEF RoundTypeOK
        <5>1. archive[i].journal \in Seq(Entries) /\ Truthful(archive[i].journal)
          BY <4>2, <5>0 DEF RoundInv, AllTruthful, Uploads
        <5> QED BY <4>2, <5>1
      <4> QED BY <1>2, <4>1, <4>2
    <3>2. Truthful(other)'
      BY <2>1, <3>1
    <3> QED BY <3>1, <3>2 DEF Truthful
  <2>3. Truthful(run.journal)'
    BY <1>1, RoundConstants DEF NoRun, Truthful
  <2> QED BY <2>2, <2>3 DEF AllTruthful
<1>5. InPlace'
  BY <1>1 DEF NoRun, InPlace, Calling
<1>6. Known'
  <2>0. run'.journal = << >> /\ run'.pc = "idle"
    BY DEF NoRun
  <2> SUFFICES ASSUME ~strayed', NEW s \in Statements, remote'[s].state # "none"
               PROVE  Knows(Kept, s)'
    BY <1>1, <2>0 DEF Known, Behind, Blank
  <2>1. ~strayed /\ remote[s].state # "none" /\ remote'[s].by = remote[s].by
    BY <1>1, <1>3 DEF RoundTypeOK
  <2>2. CASE run.journal = << >>
    <3>1. Knows(Kept, s) /\ ~Accepted(artifact)
      BY <1>1, <2>1, <2>2 DEF Known, Accepted
    <3> QED BY <1>2, <2>1, <3>1 DEF Knows
  <2>3. CASE run.journal # << >>
    <3>1. Knows(run.journal, s)
      BY <1>1, <2>1, <2>3 DEF Known
    <3>2. s \in 1..Len(journal) /\ s \in 1..Len(run.journal)
      BY <1>1, <3>1, RoundConstants DEF Knows, Statements
    <3>3. CASE Accepted(artifact)
      <4>1. Kept' = journal /\ journal[s].made = run.journal[s].made
        BY <1>2, <3>2, <3>3
      <4> QED BY <2>1, <3>1, <3>2, <4>1 DEF Knows
    <3>4. CASE ~Accepted(artifact)
      <4>1. Kept' = Kept /\ Len(Kept) = Len(run.journal) /\ Kept[s].made = run.journal[s].made
        BY <1>2, <2>1, <2>3, <3>2, <3>4 DEF AsKept
      <4> QED BY <2>1, <3>1, <3>2, <4>1 DEF Knows
    <3> QED BY <3>3, <3>4
  <2> QED BY <2>2, <2>3
<1> QED BY <1>2, <1>3, <1>4, <1>5, <1>6 DEF RoundInv

(* The end of a job that was not cancelled.                                  *)
LEMMA JobEndKeeps ==
  ASSUME RoundInv, run.pc # "idle", NEW journal \in Seq(Entries),
         NEW conclusion \in {"failure", "success"}, Upload(journal, conclusion, "success"), run' = NoRun,
         Truthful(journal), Len(journal) = Len(run.journal),
         \A s \in 1..Len(journal) : journal[s].made = run.journal[s].made,
         Valid(journal) \/ (run.pc \in Calling \cup {"entry"} /\ run.at < Len(run.journal)),
         UNCHANGED <<made, late, changed, strayed>>, remote' \in [Statements -> Executions], InOrder',
         \A s \in Statements : remote[s].state = "succeeded" => remote'[s] = remote[s],
         \A s \in Statements : remote'[s].by = remote[s].by,
         \A s \in Statements : remote'[s].state # "none" => remote[s].state # "none"
  PROVE  RoundInv'
<1> DEFINE artifact == [journal |-> journal, conclusion |-> conclusion, authentication |-> "success"]
<1>1. /\ artifact \in Uploads /\ artifact.journal = journal
      /\ artifact.conclusion = conclusion /\ artifact.authentication = "success"
  BY DEF Uploads
<1> HIDE DEF artifact
<1>2. strayed \in BOOLEAN /\ Known /\ run.journal \in Seq(Entries)
  BY DEF RoundInv, RoundTypeOK, Dispatches
<1>3. strayed \/ run.journal = << >> \/ AsKept \/ Accepted(artifact)
  <2>1. CASE Valid(journal) /\ run.journal # << >>
    <3>1. journal # << >>
      BY <1>2, <2>1
    <3> QED BY <1>1, <2>1, <3>1 DEF Accepted
  <2>2. CASE ~Valid(journal) /\ run.journal # << >>
    BY <1>2, <2>2 DEF Known, Behind
  <2> QED BY <2>1, <2>2
<1> QED BY <1>1, <1>2, <1>3, EndKeeps

EntryStates == {"PREPARED", "SUBMITTED", "SUCCEEDED", "VERIFIED", "FAILED", "TIMED_OUT"}

(* What journaling a state changes, and what it leaves.                      *)
LEMMA JournaledFacts ==
  ASSUME run.journal \in Seq(Entries), NEW s \in 1..Len(run.journal), NEW state \in EntryStates
  PROVE  /\ Journaled(s, state) \in Seq(Entries) /\ Len(Journaled(s, state)) = Len(run.journal)
         /\ \A t \in 1..Len(run.journal) : Journaled(s, state)[t].made = run.journal[t].made
         /\ \A t \in 1..Len(run.journal) : t # s => Journaled(s, state)[t] = run.journal[t]
         /\ Journaled(s, state)[s].state = state
<1> DEFINE journal == run.journal
           entry == [journal[s] EXCEPT !.state = state]
<1>1. journal \in Seq(Entries) /\ journal[s] \in Entries
  OBVIOUS
<1>2. entry \in Entries /\ entry.made = journal[s].made /\ entry.state = state
  BY <1>1 DEF Entries, EntryStates
<1> HIDE DEF entry
<1>3. /\ [journal EXCEPT ![s] = entry] \in Seq(Entries)
      /\ Len([journal EXCEPT ![s] = entry]) = Len(journal)
      /\ \A t \in 1..Len(journal) : t # s => [journal EXCEPT ![s] = entry][t] = journal[t]
      /\ [journal EXCEPT ![s] = entry][s] = entry
  BY <1>1, <1>2
<1>4. Journaled(s, state) = [journal EXCEPT ![s] = entry]
  BY DEF Journaled, entry
<1> QED BY <1>2, <1>3, <1>4

(* Every step of a round keeps the invariant.                                *)
LEMMA RoundStep ==
  ASSUME RoundInv, RoundNext
  PROVE  RoundInv'
<1> USE RoundConstants DEF Step, Running
<1>0. /\ RoundTypeOK /\ AllTruthful /\ InPlace /\ InOrder /\ HasNewest /\ Known
      /\ run \in Dispatches /\ run.journal \in Seq(Entries) /\ run.at \in Statements
      /\ Len(run.journal) \in Nat /\ S \in Nat /\ Statements = 1..S
  BY DEF RoundInv, RoundTypeOK, Dispatches, Statements
<1>1. CASE FreshRound \/ FreshAgain
  <2>1. /\ run' = [NoRun EXCEPT !.pc = "credentials"] /\ run.pc = "idle" /\ ~changed
        /\ strayed' = (strayed \/ Unseen) /\ UNCHANGED <<remote, made, late, archive, changed>>
    BY <1>1 DEF FreshRound, FreshAgain, Fresh
  <2>2. RoundTypeOK'
    <3>1. run' = [pc |-> "credentials", journal |-> << >>, at |-> 1, then |-> "catalog"]
      BY <2>1 DEF NoRun
    <3>2. run' \in Dispatches
      BY <3>1 DEF Dispatches, Statements
    <3>3. strayed' \in BOOLEAN
      BY <2>1
    <3> QED BY <1>0, <2>1, <3>2, <3>3 DEF RoundTypeOK
  <2>3. Truthful(run.journal)'
    BY <2>1 DEF Truthful, NoRun
  <2>4. InPlace'
    BY <2>1 DEF InPlace, NoRun, Calling, Valid
  <2>5. InOrder'
    BY <1>0, <2>1 DEF InOrder
  <2>6. ASSUME Kept' = Kept PROVE Known'
    <3>1. run.journal = << >> /\ run'.journal = << >> /\ run'.pc = "credentials"
      BY <1>0, <2>1 DEF InPlace, NoRun
    <3> SUFFICES ASSUME ~strayed' PROVE Known'
      BY DEF Known
    <3>2. ~strayed /\ ~Unseen
      BY <2>1
    <3>3. Untouched' \/ Tables' # {}
      BY <2>1, <3>2 DEF Unseen, Untouched, Tables
    <3>4. \A t \in Statements : remote'[t].state # "none" => Knows(Kept, t)'
      BY <1>0, <2>1, <2>6, <3>1, <3>2 DEF Known, Knows
    <3>5. ~changed' /\ ~Behind'
      BY <2>1, <3>1 DEF Behind
    <3> QED BY <3>1, <3>3, <3>4, <3>5 DEF Known, Blank
  <2> QED BY <1>0, <2>1, <2>2, <2>3, <2>4, <2>5, <2>6, Goes DEF RoundTypeOK
<1>2. CASE Resume \/ ResumeStale
  <2>1. PICK i \in ValidSources : Restore(i) /\ (i = Newest \/ strayed' = TRUE)
    BY <1>0, <1>2 DEF Resume, ResumeStale, HasNewest, Newest
  <2> DEFINE journal == archive[i].journal
  <2>2. /\ run' = [NoRun EXCEPT !.pc = "credentials", !.journal = journal]
        /\ journal \in Seq(Entries) /\ Valid(journal) /\ Truthful(journal) /\ journal # << >>
        /\ i \in 1..Len(archive)
        /\ run.pc = "idle" /\ ~changed /\ UNCHANGED <<remote, made, late, archive, changed>>
        /\ strayed' \in {strayed, TRUE}
    <3>1. i \in 1..Len(archive) /\ Valid(journal) /\ journal # << >>
      BY <1>0, <2>1 DEF ValidSources, Accepted, RoundTypeOK
    <3>0. archive[i] \in Uploads
      BY <1>0, <3>1 DEF RoundTypeOK
    <3>2. journal \in Seq(Entries) /\ Truthful(journal)
      BY <1>0, <3>0, <3>1 DEF AllTruthful, Uploads
    <3> QED BY <1>2, <2>1, <3>1, <3>2 DEF Resume, ResumeStale, Restore
  <2>3. RoundTypeOK'
    <3>1. run' = [pc |-> "credentials", journal |-> journal, at |-> 1, then |-> "catalog"]
      BY <2>2 DEF NoRun
    <3>2. journal \in Seq(Entries) /\ 1 \in Statements
      BY <2>2 DEF Statements
    <3>3. run' \in Dispatches
      BY <3>1, <3>2 DEF Dispatches
    <3> QED BY <1>0, <2>2, <3>3 DEF RoundTypeOK
  <2>4. Truthful(run.journal)'
    BY <2>2 DEF Truthful, NoRun
  <2>5. InPlace'
    BY <2>2 DEF InPlace, NoRun, Calling, Valid
  <2>6. InOrder'
    BY <1>0, <2>2 DEF InOrder
  <2>7. ASSUME Kept' = Kept PROVE Known'
    <3> SUFFICES ASSUME strayed' = FALSE PROVE Known'
      BY <2>3 DEF Known, RoundTypeOK
    <3>1. i = Newest /\ strayed = FALSE /\ Kept = journal
      BY <2>1, <2>2 DEF Kept
    <3>2. run'.journal = journal /\ run'.pc = "credentials" /\ run.journal = << >>
      BY <1>0, <2>2 DEF NoRun, InPlace
    <3> HIDE DEF journal
    <3>3. AsKept'
      BY <2>7, <3>1, <3>2 DEF AsKept
    <3> QED BY <1>0, <2>2, <2>7, <3>1, <3>2, <3>3 DEF Known, Knows, Blank
  <2> QED BY <1>0, <2>2, <2>3, <2>4, <2>5, <2>6, <2>7, Goes DEF RoundTypeOK
<1>16. CASE Authenticate
  <2>0. /\ run.pc = "credentials" /\ Valid(run.journal) /\ run.then = "catalog" /\ Truthful(run.journal)
        /\ UNCHANGED <<remote, made, late, archive, changed, strayed>> /\ run' = [run EXCEPT !.pc = "catalog"]
    BY <1>0, <1>16 DEF Authenticate, InPlace, AllTruthful
  <2>1. /\ run' \in Dispatches /\ run'.pc = "catalog" /\ run'.at = run.at
        /\ run'.journal = run.journal /\ run'.then = "catalog"
    BY <1>0, <2>0 DEF Dispatches, Calling
  <2>2. RoundTypeOK' /\ Truthful(run.journal)' /\ InOrder'
    BY <1>0, <2>0, <2>1 DEF RoundTypeOK, Truthful, InOrder
  <2>3. InPlace'
    BY <1>0, <2>0, <2>1 DEF InPlace, Valid, Calling
  <2>4. ASSUME Kept' = Kept PROVE Known'
    BY <1>0, <2>0, <2>1, <2>4 DEF Known, Knows, Behind, AsKept, Blank, Untouched, Tables, Calling
  <2> QED BY <1>0, <2>0, <2>2, <2>3, <2>4, Goes DEF RoundTypeOK
<1>3. CASE Catalog
  <2> DEFINE journal == run.journal
  <2>0. /\ run.pc = "catalog" /\ Valid(journal) /\ run.then = "catalog" /\ Truthful(journal)
        /\ UNCHANGED <<remote, made, late, changed, strayed>>
    BY <1>0, <1>3 DEF Catalog, InPlace, AllTruthful
  <2>1. CASE JobEnds(journal)
    BY <1>0, <2>0, <2>1, JobEndKeeps DEF RoundTypeOK, InOrder, JobEnds
  <2>2. CASE /\ run' = [run EXCEPT !.pc = "start", !.at = Len(journal)]
             /\ journal # << >> /\ UNCHANGED archive
    <3>1. Len(journal) \in Statements /\ Len(journal) >= 1
      BY <1>0, <2>0, <2>2 DEF Truthful
    <3>2. /\ run' \in Dispatches /\ run'.pc = "start" /\ run'.at = Len(journal)
          /\ run'.journal = journal /\ run'.then = "catalog"
      BY <1>0, <2>0, <2>2, <3>1 DEF Dispatches, Calling
    <3>3. RoundTypeOK' /\ Truthful(run.journal)' /\ InOrder'
      BY <1>0, <2>0, <2>2, <3>2 DEF RoundTypeOK, Truthful, InOrder
    <3>4. InPlace'
      BY <1>0, <2>0, <3>2 DEF InPlace, Valid, Calling
    <3>5. ASSUME Kept' = Kept PROVE Known'
      BY <1>0, <2>0, <2>2, <3>2, <3>5 DEF Known, Knows, Behind, AsKept, Blank
    <3> QED BY <1>0, <2>0, <2>2, <3>3, <3>4, <3>5, Goes DEF RoundTypeOK
  <2>3. CASE /\ run' = [run EXCEPT !.pc = "entry", !.at = 1, !.then = "poll"] /\ UNCHANGED archive
             /\ \A s \in Tables : ~(s > Len(journal))
    <3>1. /\ run' \in Dispatches /\ run'.pc = "entry" /\ run'.at = 1
          /\ run'.journal = journal /\ run'.then = "poll"
      <4>1. 1 \in Statements
        BY <1>0
      <4> QED BY <1>0, <2>0, <2>3, <4>1 DEF Dispatches, Calling
    <3>2. RoundTypeOK' /\ Truthful(run.journal)' /\ InOrder'
      BY <1>0, <2>0, <2>3, <3>1 DEF RoundTypeOK, Truthful, InOrder
    <3>3. InPlace'
      BY <1>0, <2>0, <3>1 DEF InPlace, Calling
    <3>4. ASSUME Kept' = Kept PROVE Known'
      <4>1. journal = << >> => Tables = {}
        BY <1>0, <2>3, RoundConstants DEF Tables, Statements
      <4>2. Behind' => Behind
        BY <1>0, <2>0, <3>1 DEF Behind, Calling
      <4>3. (AsKept => AsKept') /\ (Blank' => Blank) /\ (Untouched => Untouched')
        BY <2>0, <3>1, <3>4 DEF AsKept, Blank, Untouched
      <4>4. ~strayed /\ Blank => Untouched
        BY <1>0, <4>1 DEF Known, Blank
      <4>5. ~strayed => /\ ~changed
                        /\ \A t \in Statements : remote[t].state # "none" =>
                             Knows(IF journal = << >> THEN Kept ELSE journal, t)
                        /\ Behind => AsKept
        BY <1>0 DEF Known
      <4>6. \A t \in Statements : \A other : Knows(other, t)' <=> Knows(other, t)
        BY <2>0 DEF Knows
      <4> QED BY <2>0, <3>1, <3>4, <4>2, <4>3, <4>4, <4>5, <4>6 DEF Known
    <3> QED BY <1>0, <2>0, <2>3, <3>2, <3>3, <3>4, Goes DEF RoundTypeOK
  <2> QED BY <1>3, <2>1, <2>2, <2>3 DEF Catalog
<1>4. CASE NextEntry
  <2> DEFINE s == run.at
             journal == run.journal
             entry == [state |-> "PREPARED", made |-> made[s] + 1]
  <2>0. /\ run.pc = "entry" /\ run.then = "poll" /\ s <= Len(journal) + 1 /\ s \in Nat
        /\ \A t \in 1..s - 1 : journal[t].state = "VERIFIED"
        /\ Truthful(journal) /\ UNCHANGED <<remote, late, changed, strayed>>
    BY <1>0, <1>4 DEF NextEntry, InPlace, AllTruthful
  <2>1. CASE JobEnds(journal) /\ s <= Len(journal) /\ UNCHANGED made
    <3>1. Valid(journal) \/ s < Len(journal)
      BY <1>0, <2>0, <2>1 DEF Valid
    <3> QED BY <1>0, <2>0, <2>1, <3>1, JobEndKeeps DEF RoundTypeOK, InOrder, JobEnds
  <2>2. CASE run' = [run EXCEPT !.pc = "poll"] /\ s <= Len(journal) /\ UNCHANGED <<archive, made>>
    <3>1. /\ run' \in Dispatches /\ run'.pc = "poll" /\ run'.at = s
          /\ run'.journal = journal /\ run'.then = "poll"
      BY <1>0, <2>0, <2>2 DEF Dispatches, Calling
    <3>2. RoundTypeOK' /\ Truthful(run.journal)' /\ InOrder'
      BY <1>0, <2>0, <2>2, <3>1 DEF RoundTypeOK, Truthful, InOrder
    <3>3. InPlace'
      BY <1>0, <2>0, <2>2, <3>1 DEF InPlace, Calling
    <3>4. ASSUME Kept' = Kept PROVE Known'
      BY <1>0, <2>0, <2>2, <3>1, <3>4 DEF Known, Knows, Behind, AsKept, Blank, Untouched, Calling
    <3> QED BY <1>0, <2>0, <2>2, <3>2, <3>3, <3>4, Goes DEF RoundTypeOK
  <2>3. CASE /\ run' = [run EXCEPT !.pc = "start", !.journal = Append(journal, entry)]
             /\ s > Len(journal) /\ made' = [made EXCEPT ![s] = @ + 1] /\ UNCHANGED archive
    <3>1. s = Len(journal) + 1 /\ made[s] \in Nat /\ entry \in Entries
      BY <1>0, <2>0, <2>3 DEF RoundTypeOK, Entries
    <3>2. /\ Append(journal, entry) \in Seq(Entries) /\ Len(Append(journal, entry)) = s
          /\ Append(journal, entry)[s] = entry
          /\ \A t \in 1..Len(journal) : Append(journal, entry)[t] = journal[t]
      BY <1>0, <3>1
    <3>3. entry.state = "PREPARED" /\ entry.made = made[s] + 1
      OBVIOUS
    <3>4. /\ run' \in Dispatches /\ run'.pc = "start" /\ run'.at = s
          /\ run'.journal = Append(journal, entry) /\ run'.then = "poll"
      BY <1>0, <2>0, <2>3, <3>2 DEF Dispatches, Calling
    <3> HIDE DEF entry
    <3>5. /\ made' \in [Statements -> Nat] /\ made'[s] = made[s] + 1
          /\ \A t \in Statements : made[t] <= made'[t]
      BY <1>0, <2>3, <3>1 DEF RoundTypeOK
    <3>6. RoundTypeOK' /\ InOrder'
      BY <1>0, <2>0, <2>3, <3>4, <3>5 DEF RoundTypeOK, InOrder
    <3>7. Truthful(journal)'
      <4>1. \A t \in 1..Len(journal) :
              /\ journal[t].made \in Nat /\ journal[t].made <= made[t] /\ t # s /\ t \in Statements
              /\ made[t] \in Nat /\ made'[t] \in Nat
        <5>1. \A t \in 1..Len(journal) : journal[t] \in Entries
          BY <1>0
        <5>2. \A t \in 1..Len(journal) : journal[t].made \in Nat
          BY <5>1 DEF Entries
        <5>3. \A t \in 1..Len(journal) : t # s /\ t \in Statements
          BY <1>0, <2>0, <3>1 DEF Truthful
        <5>4. \A t \in Statements : made[t] \in Nat /\ made'[t] \in Nat
          BY <1>0, <3>5 DEF RoundTypeOK
        <5> QED BY <2>0, <5>2, <5>3, <5>4 DEF Truthful
      <4>2. \A t \in 1..Len(journal) : journal[t].made <= made'[t]
        BY <3>5, <4>1
      <4>3. \A t \in 1..s : t = s \/ t \in 1..Len(journal)
        BY <1>0, <3>1
      <4> QED BY <1>0, <2>0, <3>1, <3>2, <3>3, <3>4, <3>5, <4>1, <4>2, <4>3 DEF Truthful
    <3>8. InPlace'
      BY <1>0, <2>0, <3>1, <3>2, <3>4 DEF InPlace, Calling
    <3>9. ASSUME Kept' = Kept PROVE Known'
      <4>1. ASSUME ~strayed, NEW t \in Statements, remote[t].state # "none"
            PROVE  Knows(journal, t) /\ t \in 1..Len(journal)
        <5>1. journal # << >>
          BY <1>0, <2>0, <4>1 DEF Known, Blank, Untouched
        <5> QED BY <1>0, <4>1, <5>1 DEF Known, Knows
      <4>2. Append(journal, entry) # << >>
        BY <1>0, <2>0, <3>1, <3>2
      <4>3. ASSUME ~strayed, NEW t \in Statements, remote[t].state # "none"
            PROVE  Knows(Append(journal, entry), t)
        BY <1>0, <3>1, <3>2, <4>1, <4>3 DEF Knows
      <4>4. ~Behind' /\ ~Blank'
        BY <1>0, <2>0, <3>2, <3>4, <4>2 DEF Behind, Blank
      <4> QED BY <1>0, <2>0, <3>4, <4>2, <4>3, <4>4 DEF Known, Knows
    <3> QED BY <1>0, <2>0, <2>3, <3>4, <3>5, <3>6, <3>7, <3>8, <3>9, Goes
  <2> QED BY <1>0, <1>4, <2>0, <2>1, <2>2, <2>3 DEF NextEntry, Entry
<1>5. CASE Start
  <2> DEFINE s == run.at
             execution == IF remote[s].state = "none"
                          THEN [state |-> "running", by |-> made[s], late |-> 0] ELSE remote[s]
  <2>0. /\ run.pc = "start" /\ s \in Statements /\ s \in 1..Len(run.journal)
        /\ \A t \in 1..s - 1 : run.journal[t].state = "VERIFIED"
        /\ Truthful(run.journal) /\ UNCHANGED <<made, late, archive, changed, strayed>>
        /\ remote' = [remote EXCEPT ![s] = execution] /\ run' = [run EXCEPT !.pc = "answer"]
    BY <1>0, <1>5 DEF Start, InPlace, AllTruthful, Calling
  <2>1. /\ remote[s] \in Executions /\ execution \in Executions /\ execution.state # "none"
        /\ remote[s].state # "none" => execution = remote[s]
        /\ remote[s].state = "none" => execution.by = made[s] /\ execution.state = "running"
    BY <1>0, <2>0 DEF RoundTypeOK, Executions
  <2>2. /\ run' \in Dispatches /\ run'.pc = "answer" /\ run'.at = s
        /\ run'.journal = run.journal /\ run'.then = run.then
    BY <1>0, <2>0 DEF Dispatches, Calling
  <2> HIDE DEF execution
  <2>3. /\ remote' \in [Statements -> Executions] /\ remote'[s] = execution
        /\ \A t \in Statements : t # s => remote'[t] = remote[t]
        /\ \A t \in Statements : remote[t].state = "succeeded" => remote'[t] = remote[t]
    BY <1>0, <2>0, <2>1 DEF RoundTypeOK
  <2>4. RoundTypeOK'
    BY <1>0, <2>0, <2>2, <2>3 DEF RoundTypeOK
  <2>5. Truthful(run.journal)'
    BY <1>0, <2>0, <2>2, <2>3 DEF Truthful
  <2>6. InPlace'
    BY <1>0, <2>0, <2>2 DEF InPlace, Calling
  <2>7. InOrder'
    <3>1. \A t \in 1..s - 1 : remote[t].state = "succeeded"
      BY <1>0, <2>0 DEF Truthful
    <3> QED BY <1>0, <2>0, <2>1, <2>3, <3>1 DEF InOrder
  <2>8. ASSUME Kept' = Kept PROVE Known'
    <3>1. run.journal[s].made <= made[s]
      BY <2>0 DEF Truthful
    <3>3. run.journal # << >>
      BY <1>0, <2>0
    <3>2. \A t \in Statements : remote'[t].state # "none" /\ ~strayed => Knows(run.journal, t)'
      BY <1>0, <2>0, <2>1, <2>2, <2>3, <3>1, <3>3 DEF Known, Knows
    <3> QED BY <1>0, <2>0, <2>2, <2>8, <3>2, <3>3 DEF Known, Behind, AsKept, Blank, Calling
  <2> QED BY <1>0, <2>0, <2>3, <2>4, <2>5, <2>6, <2>7, <2>8, Goes DEF RoundTypeOK
<1>6. CASE Answer
  <2> DEFINE s == run.at
             journal == Journaled(s, "SUBMITTED")
  <2>0. /\ run.pc = "answer" /\ s \in Statements /\ s \in 1..Len(run.journal)
        /\ \A t \in 1..s - 1 : run.journal[t].state = "VERIFIED"
        /\ run.then = "catalog" => s = Len(run.journal)
        /\ run.then \in {"catalog", "poll"} /\ Truthful(run.journal)
        /\ UNCHANGED <<remote, made, late, archive, changed, strayed>>
        /\ run' = [run EXCEPT !.pc = run.then, !.journal = journal]
    BY <1>0, <1>6 DEF Answer, InPlace, AllTruthful, Calling, Dispatches
  <2>1. /\ journal \in Seq(Entries) /\ Len(journal) = Len(run.journal)
        /\ \A t \in 1..Len(journal) : /\ journal[t].made = run.journal[t].made
                                      /\ t # s => journal[t] = run.journal[t]
        /\ journal[s].state = "SUBMITTED"
    BY <1>0, <2>0, JournaledFacts DEF EntryStates
  <2> HIDE DEF journal
  <2>2. /\ run' \in Dispatches /\ run'.pc = run.then /\ run'.at = s
        /\ run'.journal = journal /\ run'.then = run.then
    BY <1>0, <2>0, <2>1 DEF Dispatches, Calling
  <2>3. RoundTypeOK'
    BY <1>0, <2>0, <2>2 DEF RoundTypeOK
  <2>4. Truthful(run.journal)'
    BY <1>0, <2>0, <2>1, <2>2 DEF Truthful
  <2>5. InPlace'
    <3>1. \A t \in 1..s - 1 : journal[t].state = "VERIFIED"
      BY <1>0, <2>0, <2>1
    <3> QED BY <1>0, <2>0, <2>1, <2>2, <3>1 DEF InPlace, Valid, Calling
  <2>6. InOrder'
    BY <1>0, <2>0 DEF InOrder
  <2>7. ASSUME Kept' = Kept PROVE Known'
    <3>1. journal # << >> /\ run.journal # << >>
      BY <1>0, <2>0, <2>1
    <3>2. \A t \in Statements : Knows(run.journal, t) => Knows(journal, t)
      BY <1>0, <2>1 DEF Knows
    <3>3. Behind' => Behind
      BY <1>0, <2>0, <2>1, <2>2, <3>1 DEF Behind, Calling
    <3>4. AsKept => AsKept'
      BY <1>0, <2>1, <2>2, <2>7 DEF AsKept
    <3> QED BY <1>0, <2>0, <2>2, <2>7, <3>1, <3>2, <3>3, <3>4 DEF Known, Knows, Blank
  <2> QED BY <1>0, <2>0, <2>3, <2>4, <2>5, <2>6, <2>7, Goes DEF RoundTypeOK
<1>7. CASE Observe
  <2> DEFINE s == run.at
             execution == remote[s]
             outcome == IF execution.state = "failed" THEN "FAILED"
                        ELSE IF Entry(s).made <= execution.by /\ Entry(s).made <= execution.late
                             THEN "TIMED_OUT" ELSE "SUCCEEDED"
  <2>0. /\ run.pc = "poll" /\ run.then = "poll" /\ s \in Statements /\ s \in 1..Len(run.journal)
        /\ \A t \in 1..s - 1 : run.journal[t].state = "VERIFIED"
        /\ Truthful(run.journal) /\ UNCHANGED <<remote, made, late, changed, strayed>>
    BY <1>0, <1>7 DEF Observe, InPlace, AllTruthful, Calling
  <2>1. ASSUME NEW state \in {"FAILED", "TIMED_OUT", "SUCCEEDED"}
        PROVE  /\ Journaled(s, state) \in Seq(Entries) /\ Len(Journaled(s, state)) = Len(run.journal)
               /\ \A t \in 1..Len(run.journal) : Journaled(s, state)[t].made = run.journal[t].made
               /\ \A t \in 1..Len(run.journal) : t # s => Journaled(s, state)[t] = run.journal[t]
               /\ Journaled(s, state)[s].state = state /\ Truthful(Journaled(s, state))
    <3>1. state \in EntryStates /\ state # "VERIFIED"
      BY DEF EntryStates
    <3> DEFINE journal == Journaled(s, state)
    <3>2. /\ journal \in Seq(Entries) /\ Len(journal) = Len(run.journal)
          /\ \A t \in 1..Len(run.journal) : journal[t].made = run.journal[t].made
          /\ \A t \in 1..Len(run.journal) : t # s => journal[t] = run.journal[t]
          /\ journal[s].state = state
      BY <1>0, <2>0, <3>1, JournaledFacts
    <3> HIDE DEF journal
    <3>3. Truthful(journal)
      BY <1>0, <2>0, <3>1, <3>2 DEF Truthful
    <3> QED BY <3>2, <3>3 DEF journal
  <2>2. ASSUME NEW state \in {"FAILED", "TIMED_OUT", "SUCCEEDED"}, JobEnds(Journaled(s, state))
        PROVE  RoundInv'
    <3> DEFINE journal == Journaled(s, state)
    <3>3. /\ Len(journal) = Len(run.journal)
          /\ \A t \in 1..Len(run.journal) : t # s => journal[t] = run.journal[t]
      BY <2>1
    <3> HIDE DEF journal
    <3>1. Valid(journal) \/ s < Len(run.journal)
      BY <1>0, <2>0, <3>3 DEF Valid
    <3>2. /\ journal \in Seq(Entries) /\ Truthful(journal) /\ JobEnds(journal)
          /\ Len(journal) = Len(run.journal)
          /\ \A t \in 1..Len(journal) : journal[t].made = run.journal[t].made
      BY <2>1, <2>2 DEF journal
    <3> QED BY <1>0, <2>0, <3>1, <3>2, JobEndKeeps DEF RoundTypeOK, InOrder, Calling, JobEnds
  <2>3. ASSUME NEW pc \in {"stop", "compare"}, NEW state \in {"FAILED", "TIMED_OUT", "SUCCEEDED"},
               run' = [run EXCEPT !.pc = pc, !.journal = Journaled(s, state)], UNCHANGED archive,
               pc = "compare" => Counts(s)
        PROVE  RoundInv'
    <3> DEFINE journal == Journaled(s, state)
    <3>1. /\ run' \in Dispatches /\ run'.pc = pc /\ run'.at = s
          /\ run'.journal = journal /\ run'.then = "poll"
      BY <1>0, <2>0, <2>1, <2>3 DEF Dispatches, Calling
    <3>2. RoundTypeOK' /\ InOrder' /\ Truthful(run.journal)'
      BY <1>0, <2>0, <2>1, <2>3, <3>1 DEF RoundTypeOK, InOrder, Truthful
    <3>3. pc = "compare" => Counts(run.at)'
      BY <1>0, <2>0, <2>1, <2>3, <3>1 DEF Counts, Timely, Entry
    <3>4. \A t \in 1..s - 1 : journal[t].state = "VERIFIED"
      BY <1>0, <2>0, <2>1
    <3> HIDE DEF journal
    <3>5. Len(journal) = Len(run.journal) /\ \A t \in 1..Len(journal) : journal[t].made = run.journal[t].made
      BY <2>1 DEF journal
    <3>6. InPlace'
      BY <1>0, <2>0, <3>1, <3>3, <3>4, <3>5 DEF InPlace, Calling
    <3>7. ASSUME Kept' = Kept PROVE Known'
      <4>1. journal # << >> /\ run.journal # << >>
        BY <1>0, <2>0, <3>1, <3>5
      <4>2. \A t \in Statements : Knows(run.journal, t) => Knows(journal, t)
        BY <1>0, <3>5 DEF Knows
      <4>3. Behind' => Behind
        BY <1>0, <2>0, <3>1, <3>5, <4>1 DEF Behind, Calling
      <4>4. AsKept => AsKept'
        BY <1>0, <3>1, <3>5, <3>7 DEF AsKept
      <4> QED BY <1>0, <2>0, <3>1, <3>7, <4>1, <4>2, <4>3, <4>4 DEF Known, Knows, Blank
    <3> QED BY <1>0, <2>0, <2>3, <3>2, <3>6, <3>7, Goes DEF RoundTypeOK
  <2>4. outcome \in {"FAILED", "TIMED_OUT", "SUCCEEDED"}
    OBVIOUS
  <2> QED BY <1>7, <2>2, <2>3, <2>4 DEF Observe
<1>8. CASE Stop
  <2> DEFINE s == run.at
             journal == run.journal
             execution == [remote[s] EXCEPT !.state = IF @ = "running" THEN "failed" ELSE @]
  <2>0. /\ run.pc = "stop" /\ s \in Statements /\ s \in 1..Len(journal)
        /\ \A t \in 1..s - 1 : journal[t].state = "VERIFIED"
        /\ Truthful(journal) /\ UNCHANGED <<made, late, changed, strayed>> /\ JobEnds(journal)
    BY <1>0, <1>8 DEF Stop, InPlace, AllTruthful, Calling
  <2>1. remote[s] \in Executions /\ remote' = [remote EXCEPT ![s] = execution]
    BY <1>0, <1>8, <2>0 DEF Stop, RoundTypeOK
  <2>2. /\ execution \in Executions /\ execution.by = remote[s].by
        /\ remote[s].state = "succeeded" => execution = remote[s]
        /\ execution.state # "none" => remote[s].state # "none"
    BY <2>1 DEF Executions
  <2> HIDE DEF execution
  <2>3. /\ remote' \in [Statements -> Executions] /\ remote'[s] = execution
        /\ \A t \in Statements : t # s => remote'[t] = remote[t]
    BY <1>0, <2>0, <2>1, <2>2 DEF RoundTypeOK
  <2>4. InOrder'
    BY <1>0, <2>2, <2>3 DEF InOrder
  <2>5. Valid(journal) \/ s < Len(journal)
    BY <1>0, <2>0 DEF Valid
  <2> QED BY <1>0, <2>0, <2>2, <2>3, <2>4, <2>5, JobEndKeeps DEF Calling, JobEnds
<1>9. CASE Compare
  <2> DEFINE s == run.at
             journal == Journaled(s, "VERIFIED")
  <2>0. /\ run.pc = "compare" /\ run.then = "poll" /\ s \in Statements /\ s \in 1..Len(run.journal)
        /\ \A t \in 1..s - 1 : run.journal[t].state = "VERIFIED"
        /\ Counts(s) /\ Truthful(run.journal)
        /\ UNCHANGED <<remote, made, late, archive, changed, strayed>>
        /\ run' = [run EXCEPT !.journal = journal, !.at = IF s = S THEN s ELSE s + 1,
                              !.pc = IF s = S THEN "final" ELSE "entry"]
    BY <1>0, <1>9 DEF Compare, InPlace, AllTruthful, Calling
  <2>1. /\ journal \in Seq(Entries) /\ Len(journal) = Len(run.journal)
        /\ \A t \in 1..Len(journal) : journal[t].made = run.journal[t].made
        /\ \A t \in 1..Len(journal) : t # s => journal[t] = run.journal[t]
        /\ journal[s].state = "VERIFIED"
    BY <1>0, <2>0, JournaledFacts DEF EntryStates
  <2> HIDE DEF journal
  <2>2. /\ run' \in Dispatches /\ run'.pc = (IF s = S THEN "final" ELSE "entry")
        /\ run'.at = (IF s = S THEN s ELSE s + 1)
        /\ run'.journal = journal /\ run'.then = "poll"
    <3>1. (IF s = S THEN s ELSE s + 1) \in Statements
      BY <1>0, <2>0
    <3> QED BY <1>0, <2>0, <2>1, <3>1 DEF Dispatches, Calling
  <2>3. RoundTypeOK' /\ InOrder'
    BY <1>0, <2>0, <2>2 DEF RoundTypeOK, InOrder
  <2>4. Truthful(run.journal)'
    <3>1. /\ remote[s].state = "succeeded" /\ remote[s].late < run.journal[s].made
          /\ run.journal[s].made <= remote[s].by
      <4>1. remote[s] \in Executions /\ run.journal[s] \in Entries
        BY <1>0, <2>0 DEF RoundTypeOK
      <4> QED BY <2>0, <4>1 DEF Counts, Timely, Entry, Executions, Entries
    <3> QED BY <1>0, <2>0, <2>1, <2>2, <3>1 DEF Truthful
  <2>5. \A t \in 1..s : journal[t].state = "VERIFIED"
    BY <1>0, <2>0, <2>1
  <2>6. s = S => Len(journal) = S
    BY <1>0, <2>0, <2>1 DEF Truthful
  <2>7. InPlace'
    BY <1>0, <2>0, <2>1, <2>2, <2>5, <2>6 DEF InPlace, Calling
  <2>8. ASSUME Kept' = Kept PROVE Known'
    <3>1. journal # << >> /\ run.journal # << >>
      BY <1>0, <2>0, <2>1
    <3>2. \A t \in Statements : Knows(run.journal, t) => Knows(journal, t)
      BY <1>0, <2>1 DEF Knows
    <3>3. Behind' => Behind
      BY <1>0, <2>0, <2>1, <2>2, <3>1 DEF Behind, Calling
    <3>4. AsKept => AsKept'
      BY <1>0, <2>1, <2>2, <2>8 DEF AsKept
    <3> QED BY <1>0, <2>0, <2>2, <2>8, <3>1, <3>2, <3>3, <3>4 DEF Known, Knows, Blank
  <2> QED BY <1>0, <2>0, <2>3, <2>4, <2>7, <2>8, Goes DEF RoundTypeOK
<1>10. CASE Final
  <2> DEFINE journal == run.journal
  <2>0. /\ run.pc = "final" /\ run.then = "poll" /\ Len(journal) = S
        /\ \A t \in 1..S : journal[t].state = "VERIFIED"
        /\ Truthful(journal) /\ UNCHANGED <<remote, made, late, changed, strayed>>
        /\ Upload(journal, IF changed THEN "failure" ELSE "success", "success")
        /\ run' = IF changed THEN NoRun ELSE [run EXCEPT !.pc = "success"]
    BY <1>0, <1>10 DEF Final, InPlace, AllTruthful
  <2>1. Valid(journal) /\ journal # << >>
    BY <1>0, <2>0 DEF Valid
  <2>2. CASE changed
    <3>1. Upload(journal, "failure", "success") /\ run' = NoRun
      BY <2>0, <2>2
    <3> QED BY <1>0, <2>0, <2>1, <3>1, JobEndKeeps DEF RoundTypeOK, InOrder
  <2>3. CASE ~changed
    <3> DEFINE artifact == [journal |-> journal, conclusion |-> "success", authentication |-> "success"]
    <3>0. /\ artifact \in Uploads /\ artifact.journal = journal /\ Accepted(artifact)
          /\ Upload(artifact.journal, artifact.conclusion, artifact.authentication)
      BY <1>0, <2>0, <2>1, <2>3 DEF Uploads, Accepted
    <3> HIDE DEF artifact
    <3>1. /\ run' \in Dispatches /\ run'.pc = "success" /\ run'.journal = journal /\ run'.then = "poll"
      BY <1>0, <2>0, <2>3 DEF Dispatches
    <3>2. /\ archive' \in Seq(Uploads) /\ HasNewest'
          /\ \A i \in 1..Len(archive') :
               archive'[i] = artifact \/ (i \in 1..Len(archive) /\ archive'[i] = archive[i])
          /\ Kept' = journal
      BY <1>0, <3>0, UploadKeeps
    <3>3. RoundTypeOK' /\ InOrder' /\ Truthful(run.journal)'
      BY <1>0, <2>0, <3>1, <3>2 DEF RoundTypeOK, InOrder, Truthful
    <3>4. AllTruthful'
      <4>1. ASSUME NEW i \in 1..Len(archive') PROVE Truthful(archive[i].journal)'
        <5>1. Truthful(archive'[i].journal)
          BY <1>0, <2>0, <3>0, <3>2, <4>1 DEF AllTruthful
        <5> QED BY <2>0, <5>1 DEF Truthful
      <4> QED BY <3>3, <4>1 DEF AllTruthful
    <3>5. InPlace'
      BY <2>0, <3>1 DEF InPlace, Calling
    <3>6. Known'
      BY <1>0, <2>0, <2>1, <3>1, <3>2 DEF Known, Knows, Behind, Blank, Calling
    <3> QED BY <3>2, <3>3, <3>4, <3>5, <3>6 DEF RoundInv
  <2> QED BY <2>2, <2>3
<1>11. CASE CallFails \/ Cancelled
  <2>1. /\ run.pc # "idle" /\ run' = NoRun /\ UNCHANGED <<remote, made, late, changed>>
        /\ strayed' \in BOOLEAN /\ (strayed => strayed')
    BY <1>0, <1>11 DEF CallFails, Cancelled, Going, RoundTypeOK
  <2>2. PICK artifact \in Uploads :
          /\ artifact.journal = run.journal
          /\ Upload(artifact.journal, artifact.conclusion, artifact.authentication)
          /\ strayed' \/ strayed \/ run.journal = << >> \/ AsKept \/ Accepted(artifact)
    <3>1. CASE CallFails /\ run.pc # "credentials"
      <4> DEFINE artifact == [journal |-> run.journal, conclusion |-> "failure", authentication |-> "success"]
      <4>1. /\ artifact \in Uploads /\ artifact.journal = run.journal
            /\ Upload(artifact.journal, artifact.conclusion, artifact.authentication)
        BY <1>0, <3>1 DEF CallFails, Uploads
      <4>2. Valid(run.journal) => Accepted(artifact) \/ run.journal = << >>
        BY DEF Accepted
      <4>3. ~Valid(run.journal) => run.pc \in Calling \cup {"entry"} /\ run.at < Len(run.journal)
        BY <1>0, <2>1, Resumable, RoundConstants DEF Statements
      <4>4. ~Valid(run.journal) => strayed \/ AsKept \/ run.journal = << >>
        BY <1>0, <4>3 DEF Known, Behind
      <4> QED BY <4>1, <4>2, <4>4
    <3>2. CASE CallFails /\ run.pc = "credentials"
      <4> DEFINE artifact == [journal |-> run.journal, conclusion |-> "failure", authentication |-> "failure"]
      <4>1. /\ artifact \in Uploads /\ artifact.journal = run.journal
            /\ Upload(artifact.journal, artifact.conclusion, artifact.authentication)
        BY <1>0, <3>2 DEF CallFails, Uploads
      <4>2. strayed \/ AsKept \/ run.journal = << >>
        <5>1. run.then = "catalog"
          BY <1>0, <3>2 DEF InPlace
        <5> QED BY <1>0, <5>1 DEF Known, Behind
      <4> QED BY <4>1, <4>2
    <3>3. CASE Cancelled
      <4> DEFINE outcome == IF run.pc = "credentials" THEN "failure" ELSE "success"
                 artifact == [journal |-> run.journal, conclusion |-> "cancelled", authentication |-> outcome]
      <4>1. /\ artifact \in Uploads /\ artifact.journal = run.journal
            /\ Upload(artifact.journal, artifact.conclusion, artifact.authentication)
        BY <1>0, <3>3 DEF Cancelled, Uploads
      <4>2. strayed' \/ strayed \/ run.journal = << >> \/ AsKept
        BY <3>3 DEF Cancelled, AsKept
      <4> QED BY <4>1, <4>2
    <3> QED BY <1>11, <3>1, <3>2, <3>3
  <2>3. InOrder' /\ remote' \in [Statements -> Executions] /\ Truthful(run.journal)
    BY <1>0, <2>1 DEF RoundTypeOK, InOrder, AllTruthful
  <2> QED BY <1>0, <2>1, <2>2, <2>3, EndKeeps
<1>12. CASE RunnerLost
  <2>1. /\ run' = NoRun /\ strayed' = (strayed \/ run.journal \notin {<< >>, Kept})
        /\ UNCHANGED <<remote, made, late, archive, changed>>
    BY <1>12 DEF RunnerLost
  <2>2. NoRun \in Dispatches /\ NoRun.journal = << >> /\ NoRun.pc = "idle"
    BY <1>0 DEF NoRun, Dispatches
  <2>3. RoundTypeOK' /\ InOrder' /\ Truthful(run.journal)' /\ InPlace'
    <3>1. strayed' \in BOOLEAN
      BY <2>1
    <3>2. RoundTypeOK' /\ InOrder'
      BY <1>0, <2>1, <2>2, <3>1 DEF RoundTypeOK, InOrder
    <3> QED BY <1>0, <2>1, <2>2, <3>2 DEF Truthful, InPlace, Calling
  <2>4. ASSUME Kept' = Kept PROVE Known'
    <3> SUFFICES ASSUME ~strayed' PROVE Known'
      BY DEF Known
    <3>1. ~strayed /\ run.journal \in {<< >>, Kept}
      BY <2>1
    <3> QED BY <1>0, <2>1, <2>2, <2>4, <3>1 DEF Known, Knows, Behind, Blank
  <2> QED BY <1>0, <2>1, <2>3, <2>4, Goes DEF RoundTypeOK
<1>13. ASSUME NEW s \in Statements, Completes(s) PROVE RoundInv'
  <2>1. PICK state \in {"succeeded", "failed"} :
          remote' = [remote EXCEPT ![s] = [@ EXCEPT !.state = state, !.late = late[s]]]
    BY <1>13 DEF Completes
  <2> DEFINE execution == [remote[s] EXCEPT !.state = state, !.late = late[s]]
  <2>2. remote[s] \in Executions /\ late[s] \in Nat /\ remote[s].state = "running"
        /\ UNCHANGED <<made, late, archive, run, changed, strayed>>
    BY <1>0, <1>13 DEF Completes, RoundTypeOK
  <2>3. execution \in Executions /\ execution.by = remote[s].by /\ execution.state # "none"
    BY <2>2 DEF Executions
  <2>4. remote' = [remote EXCEPT ![s] = execution]
    BY <2>1
  <2> HIDE DEF execution
  <2>5. /\ remote' \in [Statements -> Executions] /\ remote'[s] = execution
        /\ \A t \in Statements : t # s => remote'[t] = remote[t]
    BY <1>0, <2>3, <2>4 DEF RoundTypeOK
  <2>6. RoundTypeOK' /\ InOrder'
    BY <1>0, <2>2, <2>5 DEF RoundTypeOK, InOrder
  <2>7. Truthful(run.journal)'
    BY <1>0, <2>2, <2>5 DEF Truthful, AllTruthful
  <2>8. InPlace'
    BY <1>0, <2>2, <2>5 DEF InPlace, Counts, Timely, Entry, Valid, Calling
  <2>9. ASSUME Kept' = Kept PROVE Known'
    <3>1. \A t \in Statements : remote'[t].by = remote[t].by /\ (remote'[t].state # "none" => remote[t].state # "none")
      BY <1>0, <2>2, <2>3, <2>5
    <3>2. ~Untouched /\ (Tables # {} => Tables' # {})
      BY <1>0, <2>2, <2>5 DEF Untouched, Tables
    <3>3. (Behind' => Behind) /\ (AsKept => AsKept') /\ (Blank' => Blank)
      BY <2>2, <2>9 DEF Behind, AsKept, Blank
    <3> QED BY <1>0, <2>2, <2>9, <3>1, <3>2, <3>3 DEF Known, Knows
  <2> QED BY <1>0, <2>2, <2>5, <2>6, <2>7, <2>8, <2>9, Goes DEF RoundTypeOK
<1>14. ASSUME NEW s \in Statements, DeadlinePasses(s) PROVE RoundInv'
  <2>1. late' = [late EXCEPT ![s] = @ + 1] /\ UNCHANGED <<remote, made, archive, run, changed, strayed>>
    BY <1>14 DEF DeadlinePasses
  <2>2. RoundTypeOK' /\ InOrder' /\ Truthful(run.journal)'
    <3>1. RoundTypeOK'
      <4>1. late \in [Statements -> Nat] /\ late[s] + 1 \in Nat
        BY <1>0 DEF RoundTypeOK
      <4>2. late' \in [Statements -> Nat]
        BY <2>1, <4>1
      <4> QED BY <1>0, <2>1, <4>2 DEF RoundTypeOK
    <3> QED BY <1>0, <2>1, <3>1 DEF InOrder, AllTruthful, Truthful
  <2>3. InPlace'
    BY <1>0, <2>1 DEF InPlace, Counts, Timely, Entry, Valid
  <2>4. ASSUME Kept' = Kept PROVE Known'
    BY <1>0, <2>1, <2>4 DEF Known, Knows, Behind, AsKept, Blank, Untouched, Tables
  <2> QED BY <1>0, <2>1, <2>2, <2>3, <2>4, Goes DEF RoundTypeOK
<1>15. CASE SnapshotChanges
  <2>1. changed' = TRUE /\ strayed' = TRUE /\ UNCHANGED <<remote, made, late, archive, run>>
    BY <1>15 DEF SnapshotChanges
  <2>2. RoundTypeOK' /\ InOrder' /\ Truthful(run.journal)' /\ Known'
    <3>1. RoundTypeOK'
      BY <1>0, <2>1 DEF RoundTypeOK
    <3>2. InOrder' /\ Known'
      BY <1>0, <2>1 DEF InOrder, Known
    <3> QED BY <1>0, <2>1, <3>1, <3>2 DEF AllTruthful, Truthful
  <2>3. InPlace'
    BY <1>0, <2>1 DEF InPlace, Counts, Timely, Entry, Valid
  <2> QED BY <1>0, <2>1, <2>2, <2>3, Goes DEF RoundTypeOK
<1> QED
  BY <1>1, <1>2, <1>3, <1>4, <1>5, <1>6, <1>7, <1>8, <1>9, <1>10, <1>11, <1>12, <1>13, <1>14, <1>15, <1>16
     DEF RoundNext, Proceed

(* The invariant holds in every behaviour of the composition.                *)
LEMMA RoundAlways == Spec => []RoundInv
<1>1. Init => RoundInv
  <2> SUFFICES ASSUME RoundInit PROVE RoundInv
    BY DEF Init
  <2>1. NoRun \in Dispatches /\ NotStarted \in Executions
    BY RoundConstants DEF NoRun, NotStarted, Dispatches, Executions, Statements
  <2>2. RoundTypeOK
    <3>1. archive \in Seq(Uploads)
      BY DEF RoundInit
    <3>2. remote \in [Statements -> Executions] /\ made \in [Statements -> Nat] /\ late \in [Statements -> Nat]
      BY <2>1 DEF RoundInit
    <3> QED BY <2>1, <3>1, <3>2 DEF RoundInit, RoundTypeOK
  <2>3. AllTruthful /\ InPlace /\ InOrder
    BY RoundConstants DEF RoundInit, AllTruthful, Truthful, InPlace, InOrder, NoRun, NotStarted, Calling
  <2>4. HasNewest /\ Known
    BY DEF RoundInit, HasNewest, Known, Knows, Behind, Blank, ValidSources, NoRun, NotStarted
  <2> QED BY <2>2, <2>3, <2>4 DEF RoundInv
<1>2. RoundInv /\ [Next]_vars => RoundInv'
  <2> SUFFICES ASSUME RoundInv, [Next]_vars PROVE RoundInv'
    OBVIOUS
  <2>1. CASE RoundNext
    BY <2>1, RoundStep
  <2>2. CASE UNCHANGED roundVars
    <3>1. UNCHANGED <<remote, made, late, archive, run, changed, strayed>>
      BY <2>2 DEF roundVars
    <3>2. RoundTypeOK' /\ InOrder'
      BY <3>1 DEF RoundInv, RoundTypeOK, InOrder
    <3>3. Truthful(run.journal)'
      BY <3>1 DEF RoundInv, AllTruthful, Truthful
    <3>4. InPlace'
      BY <3>1 DEF RoundInv, InPlace, Valid, Counts, Timely, Entry
    <3>5. ASSUME Kept' = Kept PROVE Known'
      BY <3>1, <3>5 DEF RoundInv, Known, Knows, Behind, AsKept, Blank, Untouched, Tables
    <3>6. \A s \in Statements : made[s] <= made'[s]
      BY <3>1 DEF RoundInv, RoundTypeOK
    <3> QED BY <3>1, <3>2, <3>3, <3>4, <3>5, <3>6, Goes
  <2> QED BY <2>1, <2>2 DEF Next, vars
<1> QED BY <1>1, <1>2, PTL DEF Spec

(* What the invariant says of the order of the executions and of a success.  *)
LEMMA RoundMeansSequential == RoundInv => RoundIsSequential
<1> SUFFICES ASSUME RoundInv PROVE RoundIsSequential
  OBVIOUS
<1>1. ASSUME run.pc = "success", NEW s \in Statements
      PROVE  /\ remote[s].state = "succeeded"
             /\ remote[s].late < run.journal[s].made /\ run.journal[s].made <= remote[s].by
  BY <1>1, RoundConstants DEF RoundInv, InPlace, AllTruthful, Truthful, Statements
<1> QED BY <1>1 DEF RoundInv, InOrder, RoundIsSequential

(* RoundIsSequential holds in every behaviour, for every plan: across kills, *)
(* resumptions and journals of the wrong age a statement is submitted only   *)
(* after all earlier ones, and success means all succeeded in time           *)
(* (athena_run.py, execute_plan).                                            *)
THEOREM Sequential == Spec => []RoundIsSequential
BY RoundAlways, RoundMeansSequential, PTL

(* JournalKnows holds in every behaviour, for every plan: no execution that  *)
(* the journal in use, or the newest one a restore accepts, does not hold,   *)
(* also when a fresh round is dispatched over one that has left a table      *)
(* (athena_run.py, written before every submission; resource_readback).      *)
THEOREM JournalIsComplete == Spec => []JournalKnows
<1>1. RoundInv => JournalKnows
  BY DEF RoundInv, Known, Knows, JournalKnows
<1> QED BY <1>1, RoundAlways, PTL

(***************************************************************************)
(* The publication.  A manifest, in the bucket or on its way to it, names  *)
(* versions that hold the frozen objects, because each was read before the *)
(* manifest was written; and a verification of a snapshot that was not     *)
(* whole has a stray key, or an object it has yet to read, in its way.     *)
(***************************************************************************)
Items == [kind : {"frozen", "other", "gone"}, of : [Payload -> Nat]]
Writing == {"put", "reconcile"}
Reviewing == {"recheck", "latest", "relist"}
Jobs ==
  [pc : {"idle", "success", "marker", "open", "files", "inventory"} \cup Writing \cup Reviewing,
   pass : Nat, at : Keys, attempt : Nat, versions : [Payload -> Nat],
   seen : Nat, before : Nat, wrote : BOOLEAN]

PubTypeOK ==
  /\ store \in [Keys -> Seq(Items)] /\ stray \in BOOLEAN /\ changes \in Nat
  /\ inflight \subseteq [key : Keys, item : Items]
  /\ job \in [Runs -> Jobs] /\ intact \in [Runs -> BOOLEAN]

Names(k, version) == version \in 1..Len(store[k]) /\ store[k][version] = Frozen(NoVersions)

StoreOK ==
  /\ \A i \in 1..Len(store[Manifest]) : store[Manifest][i].kind = "frozen" =>
       \A k \in Payload : Names(k, store[Manifest][i].of[k])
  /\ \A sent \in inflight :
       /\ sent.item.kind = "frozen"
       /\ sent.key = Manifest => \A k \in Payload : Names(k, sent.item.of[k])
  /\ changes = 0 =>
       /\ stray = FALSE
       /\ \A k \in Keys : Len(store[k]) <= 1 /\ (Len(store[k]) = 1 => store[k][1].kind = "frozen")

JobFine(j, whole) ==
  /\ j.pc \in Writing => \A k \in Payload : k < j.at => Names(k, j.versions[k])
  /\ j.pc \in {"files", "inventory", "recheck"} => \A k \in Payload : Names(k, j.versions[k])
  /\ j.pc \in Reviewing =>
       \/ whole \/ stray
       \/ j.pc = "recheck" /\ \E k \in Payload : k >= j.at /\ Len(store[k]) > j.versions[k]
  /\ j.pc = "success" => whole

PubInv == PubTypeOK /\ StoreOK /\ \A p \in Runs : JobFine(job[p], intact[p])

Grows ==
  /\ \A k \in Keys : /\ Len(store[k]) <= Len(store'[k])
                     /\ \A i \in 1..Len(store[k]) : store'[k][i] = store[k][i]
  /\ stray = TRUE => stray' = TRUE

(* Nothing a run has read is taken back: the bucket keeps its versions.      *)
LEMMA GrowthKeeps ==
  ASSUME PubTypeOK, Grows, store' \in [Keys -> Seq(Items)]
  PROVE  /\ \A k \in Payload, version \in Nat : Names(k, version) => Names(k, version)'
         /\ \A j \in Jobs, whole \in BOOLEAN : JobFine(j, whole) => JobFine(j, whole)'
<1>0. Payload \subseteq Keys /\ Payload \subseteq Nat /\ Manifest \in Keys /\ Keys \subseteq Nat
  BY PublicationConstants DEF Payload, Keys, Manifest
<1>1. \A k \in Keys : Len(store[k]) \in Nat /\ Len(store'[k]) \in Nat
  BY DEF PubTypeOK
<1>2. ASSUME NEW k \in Payload, NEW version \in Nat, Names(k, version) PROVE Names(k, version)'
  BY <1>0, <1>1, <1>2 DEF Names, Grows, Frozen, NoVersions
<1>3. ASSUME NEW j \in Jobs, NEW whole \in BOOLEAN, JobFine(j, whole) PROVE JobFine(j, whole)'
  <2>1. j.versions \in [Payload -> Nat]
    BY DEF Jobs
  <2>2. \A k \in Payload : Names(k, j.versions[k]) => Names(k, j.versions[k])'
    BY <1>2, <2>1
  <2>3. \A k \in Payload : Len(store[k]) > j.versions[k] => Len(store'[k]) > j.versions[k]
    BY <1>0, <1>1, <2>1 DEF Grows
  <2> QED BY <1>3, <2>2, <2>3 DEF JobFine, Grows, PubTypeOK
<1> QED BY <1>2, <1>3

(* A version more: what was named stays named.                               *)
LEMMA PutKeeps ==
  ASSUME PubTypeOK, StoreOK, NEW k \in Keys, NEW item \in Items, store' = Put(k, item),
         inflight' \subseteq inflight, stray' = stray, changes' \in Nat,
         k = Manifest /\ item.kind = "frozen" => \A n \in Payload : Names(n, item.of[n]),
         changes' = 0 => changes = 0 /\ ~Present(k) /\ item.kind = "frozen"
  PROVE  Grows /\ StoreOK' /\ store' \in [Keys -> Seq(Items)]
<1>0. Payload \subseteq Keys /\ Payload \subseteq Nat /\ Manifest \in Keys /\ Keys \subseteq Nat /\ Manifest \notin Payload
  BY PublicationConstants DEF Payload, Keys, Manifest
<1>1. /\ store[k] \in Seq(Items) /\ Append(store[k], item) \in Seq(Items)
      /\ Len(Append(store[k], item)) = Len(store[k]) + 1 /\ Append(store[k], item)[Len(store[k]) + 1] = item
      /\ \A i \in 1..Len(store[k]) : Append(store[k], item)[i] = store[k][i]
  BY DEF PubTypeOK
<1>2. /\ store' \in [Keys -> Seq(Items)] /\ store'[k] = Append(store[k], item)
      /\ \A n \in Keys : n # k => store'[n] = store[n]
      /\ \A n \in Keys : Len(store[n]) \in Nat
  BY <1>1 DEF PubTypeOK, Put
<1>3. Grows
  BY <1>1, <1>2 DEF Grows
<1>4. \A n \in Payload, version \in Nat : Names(n, version) => Names(n, version)'
  BY <1>2, <1>3, GrowthKeeps
<1>5. ASSUME NEW i \in 1..Len(store'[Manifest]), store'[Manifest][i].kind = "frozen", NEW n \in Payload
      PROVE  Names(n, store[Manifest][i].of[n])'
  <2>1. PICK other \in Items : other = store'[Manifest][i] /\ Names(n, other.of[n])
    <3>1. CASE k = Manifest /\ i = Len(store[k]) + 1
      BY <1>1, <1>2, <1>5, <3>1
    <3>2. CASE ~(k = Manifest /\ i = Len(store[k]) + 1)
      <4>1. i \in 1..Len(store[Manifest]) /\ store'[Manifest][i] = store[Manifest][i]
        <5>1. CASE k = Manifest
          BY <1>1, <1>2, <1>5, <3>2, <5>1
        <5>2. CASE k # Manifest
          <6>1. store'[Manifest] = store[Manifest]
            BY <1>0, <1>2, <5>2
          <6> QED BY <1>5, <6>1
        <5> QED BY <5>1, <5>2
      <4>2. store[Manifest][i] \in Items
        <5>1. store[Manifest] \in Seq(Items)
          BY <1>0 DEF PubTypeOK
        <5> QED BY <4>1, <5>1
      <4> QED BY <1>5, <4>1, <4>2 DEF StoreOK
    <3> QED BY <3>1, <3>2
  <2>2. other.of[n] \in Nat
    BY <2>1 DEF Items
  <2>3. Names(n, other.of[n])'
    BY <1>4, <2>1, <2>2
  <2> QED BY <2>1, <2>3
<1>6. ASSUME NEW sent \in inflight'
      PROVE  /\ sent.item.kind = "frozen"
             /\ sent.key = Manifest => \A n \in Payload : Names(n, sent.item.of[n])'
  <2>1. \A n \in Payload : sent.item.of[n] \in Nat
    BY <1>6 DEF PubTypeOK, Items
  <2> QED BY <1>4, <1>6, <2>1 DEF StoreOK
<1>7. ASSUME changes' = 0
      PROVE  /\ stray' = FALSE
             /\ \A n \in Keys : Len(store'[n]) <= 1 /\ (Len(store'[n]) = 1 => store'[n][1].kind = "frozen")
  <2>1. changes = 0 /\ stray = FALSE /\ ~Present(k) /\ item.kind = "frozen"
    BY <1>7 DEF StoreOK
  <2>5. \A n \in Keys : Len(store[n]) <= 1 /\ (Len(store[n]) = 1 => store[n][1].kind = "frozen")
    BY <2>1 DEF StoreOK
  <2>2. Len(store[k]) = 0
    <3> SUFFICES ASSUME Len(store[k]) # 0 PROVE FALSE
      OBVIOUS
    <3>4. Len(store[k]) \in Nat
      BY <1>2
    <3>5. Len(store[k]) <= 1 /\ (Len(store[k]) = 1 => store[k][1].kind = "frozen")
      BY <2>5
    <3>6. \A n \in Nat : n <= 1 /\ n # 0 => n = 1
      OBVIOUS
    <3>1. Len(store[k]) = 1 /\ store[k][1].kind = "frozen"
      BY <3>4, <3>5, <3>6, Zenon
    <3>2. store[k] # << >>
      BY <3>1
    <3>3. store[k][1] # Gone
      BY <3>1 DEF Gone
    <3> QED BY <2>1, <3>1, <3>2, <3>3 DEF Present, Latest
  <2>3. store'[k][1] = item /\ Len(store'[k]) = 1
    BY <1>1, <1>2, <2>2
  <2>4. \A n \in Keys : n # k => Len(store'[n]) <= 1 /\ (Len(store'[n]) = 1 => store'[n][1].kind = "frozen")
    BY <1>2, <2>5
  <2>6. ASSUME NEW n \in Keys
        PROVE  Len(store'[n]) <= 1 /\ (Len(store'[n]) = 1 => store'[n][1].kind = "frozen")
    <3>1. CASE n = k
      <4>1. Len(store'[k]) <= 1 /\ store'[k][1].kind = "frozen"
        BY <2>1, <2>3
      <4> QED BY <3>1, <4>1, Zenon
    <3>2. CASE n # k
      BY <2>4, <3>2, Zenon
    <3> QED BY <3>1, <3>2
  <2> QED BY <2>1, <2>6
<1> QED BY <1>2, <1>3, <1>5, <1>6, <1>7 DEF StoreOK

(* One run moves: what it must show about itself and the bucket.             *)
LEMMA RunMoves ==
  ASSUME PubInv, NEW p \in Runs, NEW j \in Jobs, NEW whole \in BOOLEAN,
         job' = [job EXCEPT ![p] = j], intact' = [intact EXCEPT ![p] = whole],
         store' \in [Keys -> Seq(Items)], inflight' \subseteq [key : Keys, item : Items],
         stray' \in BOOLEAN, changes' \in Nat, Grows, StoreOK', JobFine(j, whole)'
  PROVE  PubInv'
<1>1. PubTypeOK'
  BY DEF PubInv, PubTypeOK
<1>2. ASSUME NEW q \in Runs PROVE JobFine(job[q], intact[q])'
  <2>1. CASE q = p
    <3>1. job'[q] = j /\ intact'[q] = whole
      BY <2>1 DEF PubInv, PubTypeOK
    <3> QED BY <3>1 DEF JobFine, Names
  <2>2. CASE q # p
    <3>1. job'[q] = job[q] /\ intact'[q] = intact[q] /\ job[q] \in Jobs /\ intact[q] \in BOOLEAN
      BY <2>2 DEF PubInv, PubTypeOK
    <3>2. JobFine(job[q], intact[q])
      BY DEF PubInv
    <3>3. \A i \in Jobs, w \in BOOLEAN : JobFine(i, w) => JobFine(i, w)'
      BY GrowthKeeps DEF PubInv
    <3>4. \A i, w : i = job'[q] /\ w = intact'[q] /\ JobFine(i, w)' => JobFine(job[q], intact[q])'
      BY DEF JobFine, Names
    <3> QED BY <3>1, <3>2, <3>3, <3>4
  <2> QED BY <2>1, <2>2
<1> QED BY <1>1, <1>2 DEF PubInv

(* A step that leaves the bucket and the results alone keeps its invariant. *)
LEMMA BucketStays ==
  ASSUME PubTypeOK, StoreOK, UNCHANGED <<store, stray, inflight, changes>>
  PROVE  Grows /\ StoreOK' /\ store' \in [Keys -> Seq(Items)]
<1>1. Grows /\ store' \in [Keys -> Seq(Items)]
  BY DEF Grows, PubTypeOK
<1>2. StoreOK'
  BY DEF StoreOK, Names
<1> QED BY <1>1, <1>2

(* One run moves and the bucket does not.                                    *)
LEMMA QuietMove ==
  ASSUME PubInv, NEW p \in Runs, NEW j \in Jobs, NEW whole \in BOOLEAN,
         job' = [job EXCEPT ![p] = j], intact' = [intact EXCEPT ![p] = whole],
         UNCHANGED <<store, stray, inflight, changes>>, JobFine(j, whole)
  PROVE  PubInv'
<1>1. Grows /\ StoreOK' /\ store' \in [Keys -> Seq(Items)]
  BY BucketStays DEF PubInv
<1>3. JobFine(j, whole)'
  BY <1>1, GrowthKeeps DEF PubInv
<1> QED BY <1>1, <1>3, RunMoves DEF PubInv, PubTypeOK

(* Every step of a publication keeps the invariant.                          *)
LEMMA PubStep ==
  ASSUME PubInv, PublicationNext
  PROVE  PubInv'
<1> USE PublicationConstants DEF Goto, At
<1>0. /\ PubTypeOK /\ StoreOK /\ Manifest \in Keys /\ 1 \in Keys /\ Payload \subseteq Keys
      /\ Keys \subseteq Nat /\ N \in Nat /\ Payload = 1..N /\ Manifest = N + 1 /\ Keys = 1..N + 1
      /\ NoVersions \in [Payload -> Nat]
      /\ \A p \in Runs : /\ job[p] \in Jobs /\ JobFine(job[p], intact[p]) /\ intact[p] \in BOOLEAN
                         /\ intact = [intact EXCEPT ![p] = intact[p]]
      /\ \A k \in Keys : Len(store[k]) \in Nat /\ store[k] \in Seq(Items)
  BY DEF PubInv, PubTypeOK, Manifest, Keys, Payload, NoVersions
<1>1. ASSUME NEW p \in Runs, Publish(p) PROVE PubInv'
  <2> DEFINE j == [Idle EXCEPT !.pc = "marker", !.pass = 1]
  <2>1. j \in Jobs /\ JobFine(j, FALSE)
    BY <1>0 DEF Idle, Jobs, JobFine, Writing, Reviewing
  <2>2. job' = [job EXCEPT ![p] = j] /\ intact' = [intact EXCEPT ![p] = FALSE]
        /\ UNCHANGED <<store, stray, inflight, changes>>
    BY <1>1 DEF Publish
  <2> HIDE DEF j
  <2> QED BY <2>1, <2>2, QuietMove
<1>2. ASSUME NEW p \in Runs, Recover(p) PROVE PubInv'
  <2> DEFINE j == [Idle EXCEPT !.pc = "open", !.pass = 5]
  <2>1. j \in Jobs /\ JobFine(j, FALSE)
    BY <1>0 DEF Idle, Jobs, JobFine, Writing, Reviewing
  <2>2. job' = [job EXCEPT ![p] = j] /\ intact' = [intact EXCEPT ![p] = FALSE]
        /\ UNCHANGED <<store, stray, inflight, changes>>
    BY <1>2 DEF Recover
  <2> HIDE DEF j
  <2> QED BY <2>1, <2>2, QuietMove
<1>3. ASSUME NEW p \in Runs, NEW j \in Jobs, job' = [job EXCEPT ![p] = j],
             UNCHANGED <<store, stray, inflight, intact, changes>>, JobFine(j, intact[p])
      PROVE  PubInv'
  <2>1. PICK whole \in BOOLEAN : whole = intact[p] /\ intact = [intact EXCEPT ![p] = whole]
    BY <1>0
  <2>2. JobFine(j, whole) /\ intact' = [intact EXCEPT ![p] = whole]
    BY <1>3, <2>1
  <2>3. UNCHANGED <<store, stray, inflight, changes>>
    BY <1>3
  <2> QED BY <1>3, <2>2, <2>3, QuietMove
<1>4. ASSUME NEW p \in Runs, Ends(p, "idle"), UNCHANGED <<store, stray, inflight, intact, changes>>
      PROVE  PubInv'
  <2> DEFINE j == [Idle EXCEPT !.pc = "idle"]
  <2>1. j \in Jobs /\ JobFine(j, intact[p])
    BY <1>0 DEF Idle, Jobs, JobFine, Writing, Reviewing
  <2>2. job' = [job EXCEPT ![p] = j]
    BY <1>4 DEF Ends
  <2> HIDE DEF j
  <2> QED BY <1>3, <1>4, <2>1, <2>2
<1>5. ASSUME NEW p \in Runs, Fail(p) PROVE PubInv'
  BY <1>4, <1>5 DEF Fail
<1>6. ASSUME NEW p \in Runs, Marker(p) PROVE PubInv'
  <2> DEFINE j == [job[p] EXCEPT !.pc = IF Present(Manifest) THEN "open" ELSE "put", !.at = 1, !.attempt = 1]
  <2>1. j \in Jobs /\ j.pc \in {"open", "put"} /\ j.at = 1
    BY <1>0 DEF Jobs, Writing
  <2>2. job' = [job EXCEPT ![p] = j] /\ UNCHANGED <<store, stray, inflight, intact, changes>>
    BY <1>6 DEF Marker, Moves
  <2> HIDE DEF j
  <2>3. JobFine(j, intact[p])
    BY <1>0, <2>1 DEF JobFine, Writing, Reviewing
  <2> QED BY <1>3, <2>1, <2>2, <2>3
(* An object a run has seen in the bucket, or put there.                     *)
<1>7. ASSUME NEW p \in Runs, job[p].pc \in Writing, NEW version \in Nat, Took(p, version),
             \A k \in Payload : k = job[p].at => Names(k, version)',
             store' \in [Keys -> Seq(Items)], inflight' = inflight, stray' = stray, changes' = changes,
             intact' = intact, Grows, StoreOK'
      PROVE  PubInv'
  <2>1. PICK old \in Jobs, whole \in BOOLEAN : old = job[p] /\ whole = intact[p] /\ JobFine(old, whole)
                                            /\ intact = [intact EXCEPT ![p] = whole]
    BY <1>0
  <2> DEFINE k == old.at
             next == [old EXCEPT !.attempt = 1, !.wrote = old.pass = 3]
             j == IF k = Manifest THEN [next EXCEPT !.pc = "open", !.at = 1]
                  ELSE [next EXCEPT !.versions[k] = version, !.at = IF k = N THEN 1 ELSE k + 1,
                                    !.pc = IF k = N THEN "files" ELSE "put"]
  <2>2. job' = [job EXCEPT ![p] = j]
    BY <1>7, <2>1 DEF Took
  <2>3. k \in Keys /\ old.versions \in [Payload -> Nat] /\ next \in Jobs /\ next.versions = old.versions
    BY DEF Jobs
  <2>4. \A n \in Payload : n < k => Names(n, old.versions[n])'
    <3>1. \A n \in Payload : n < k => Names(n, old.versions[n])
      BY <1>7, <2>1 DEF JobFine
    <3>2. \A n \in Payload, v \in Nat : Names(n, v) => Names(n, v)'
      BY <1>0, <1>7, GrowthKeeps
    <3> QED BY <2>3, <3>1, <3>2
  <2>5. j \in Jobs /\ JobFine(j, whole)'
    <3>1. CASE k = Manifest
      <4>1. j = [next EXCEPT !.pc = "open", !.at = 1]
        BY <3>1
      <4>2. j \in Jobs /\ j.pc = "open"
        <5> HIDE DEF next, j
        <5> QED BY <1>0, <2>3, <4>1 DEF Jobs
      <4> HIDE DEF j
      <4> QED BY <4>2 DEF JobFine, Writing, Reviewing
    <3>2. CASE k # Manifest
      <4>1. k \in Payload /\ (IF k = N THEN 1 ELSE k + 1) \in Keys
        BY <1>0, <2>3, <3>2
      <4>2. [old.versions EXCEPT ![k] = version] \in [Payload -> Nat]
        BY <2>3
      <4>3. /\ j \in Jobs /\ j.versions = [old.versions EXCEPT ![k] = version]
            /\ j.at = (IF k = N THEN 1 ELSE k + 1) /\ j.pc = (IF k = N THEN "files" ELSE "put")
        BY <2>3, <3>2, <4>1, <4>2 DEF Jobs, Writing
      <4> HIDE DEF j
      <4>4. ASSUME NEW n \in Payload, n <= k PROVE Names(n, j.versions[n])'
        <5>1. CASE n = k
          <6>1. Names(n, version)'
            BY <1>7, <2>1, <4>1, <5>1
          <6> QED BY <2>3, <4>1, <4>3, <5>1, <6>1
        <5>2. CASE n # k
          <6>1. j.versions[n] = old.versions[n] /\ n < k
            BY <1>0, <2>3, <4>1, <4>3, <4>4, <5>2
          <6> QED BY <2>4, <6>1
        <5> QED BY <5>1, <5>2
      <4> QED BY <1>0, <2>3, <4>1, <4>3, <4>4 DEF JobFine, Writing, Reviewing
    <3> QED BY <3>1, <3>2
  <2> HIDE DEF j
  <2>6. /\ intact' = [intact EXCEPT ![p] = whole] /\ inflight' \subseteq [key : Keys, item : Items]
        /\ stray' \in BOOLEAN /\ changes' \in Nat
    BY <1>0, <1>7, <2>1 DEF PubTypeOK
  <2> QED BY <1>7, <2>2, <2>5, <2>6, RunMoves
<1>8. ASSUME NEW p \in Runs, job[p].pc \in Writing, Compared(p),
             UNCHANGED <<store, stray, inflight, intact, changes>>
      PROVE  PubInv'
  <2> DEFINE k == job[p].at
  <2>1. CASE Present(k) /\ Object(k) = Request(p, k)
    <3>1. k \in Keys /\ Latest(k) \in Nat /\ store[k] \in Seq(Items) /\ store[k] # << >> /\ Took(p, Latest(k))
      BY <1>0, <1>8, <2>1 DEF Jobs, Latest, Present, Compared
    <3>2. k \in Payload => Names(k, Latest(k))
      <4> SUFFICES ASSUME k \in Payload PROVE Names(k, Latest(k))
        OBVIOUS
      <4>1. Request(p, k) = Frozen(NoVersions)
        BY <1>0 DEF Request
      <4> QED BY <2>1, <3>1, <4>1 DEF Names, Latest, Object
    <3>3. PICK version \in Nat : version = Latest(k)
      BY <3>1
    <3>4. \A n \in Payload : n = job[p].at => Names(n, version)'
      BY <1>8, <3>2, <3>3 DEF Names
    <3>5. Grows /\ StoreOK' /\ store' \in [Keys -> Seq(Items)]
      BY <1>0, <1>8, BucketStays
    <3> QED BY <1>7, <1>8, <3>1, <3>3, <3>4, <3>5
  <2>2. CASE ~(Present(k) /\ Object(k) = Request(p, k))
    BY <1>4, <1>8, <2>2 DEF Compared
  <2> QED BY <2>1, <2>2
(* What a run puts is frozen, and a manifest names what the run has read.    *)
<1>9. ASSUME NEW p \in Runs, job[p].pc \in Writing
      PROVE  /\ job[p].at \in Keys /\ Request(p, job[p].at) \in Items /\ Request(p, job[p].at).kind = "frozen"
             /\ job[p].at \in Payload => Request(p, job[p].at) = Frozen(NoVersions)
             /\ job[p].at = Manifest => \A n \in Payload : Names(n, Request(p, job[p].at).of[n])
  <2>1. job[p].at \in Keys /\ job[p].versions \in [Payload -> Nat] /\ JobFine(job[p], intact[p])
    BY <1>0 DEF Jobs
  <2>2. job[p].at = Manifest => \A n \in Payload : Names(n, job[p].versions[n])
    BY <1>0, <1>9, <2>1 DEF JobFine
  <2> QED BY <1>0, <2>1, <2>2 DEF Request, Frozen, Items
<1>10. ASSUME NEW p \in Runs, PutLands(p) PROVE PubInv'
  <2>1. PICK item \in Items, k \in Keys : k = job[p].at /\ item = Request(p, k)
    BY <1>9, <1>10 DEF PutLands, Putting, Writing
  <2>2. /\ job[p].pc \in Writing /\ item.kind = "frozen" /\ ~Present(k)
        /\ k \in Payload => item = Frozen(NoVersions)
        /\ k = Manifest => \A n \in Payload : Names(n, item.of[n])
        /\ store' = Put(k, item) /\ Took(p, Latest(k) + 1) /\ UNCHANGED <<stray, inflight, intact, changes>>
    BY <1>9, <1>10, <2>1 DEF PutLands, Putting, Writing
  <2>3. Grows /\ StoreOK' /\ store' \in [Keys -> Seq(Items)]
    BY <1>0, <2>1, <2>2, PutKeeps DEF PubTypeOK
  <2>4. PICK version \in Nat : version = Latest(k) + 1
    BY <1>0, <2>2 DEF Latest
  <2>5. k \in Payload => Names(k, version)'
    <3>1. /\ store[k] \in Seq(Items) /\ store'[k] = Append(store[k], item) /\ version = Len(store[k]) + 1
      BY <1>0, <2>2, <2>4 DEF Put, Latest, PubTypeOK
    <3>2. Len(store'[k]) = version /\ store'[k][version] = item /\ version \in 1..version
      BY <2>1, <3>1
    <3> QED BY <2>2, <3>2 DEF Names, Frozen, NoVersions
  <2> QED BY <1>7, <2>1, <2>2, <2>3, <2>4, <2>5
<1>11. ASSUME NEW p \in Runs, PutRefused(p) \/ Reconcile(p) PROVE PubInv'
  BY <1>8, <1>11 DEF PutRefused, Reconcile, Putting, Writing
<1>12. ASSUME NEW p \in Runs, job[p].pc = "put", NEW j \in Jobs,
              j.pc \in Writing, j.at = job[p].at, j.versions = job[p].versions
       PROVE  JobFine(j, intact[p])
  <2>1. JobFine(job[p], intact[p])
    BY <1>0
  <2> QED BY <1>12, <2>1 DEF JobFine, Writing, Reviewing
<1>13. ASSUME NEW p \in Runs, PutConflicts(p) PROVE PubInv'
  <2>1. job[p].pc = "put" /\ UNCHANGED <<store, stray, inflight, intact, changes>>
    BY <1>13 DEF PutConflicts, Putting
  <2> DEFINE j == [job[p] EXCEPT !.attempt = @ + 1, !.wrote = job[p].pass = 3]
  <2>2. CASE job' = [job EXCEPT ![p] = j]
    <3>1. j \in Jobs /\ j.pc = "put" /\ j.at = job[p].at /\ j.versions = job[p].versions
      <4>1. job[p] \in Jobs /\ job[p].attempt + 1 \in Nat /\ (job[p].pass = 3) \in BOOLEAN
        BY <1>0 DEF Jobs
      <4> QED BY <2>1, <4>1 DEF Jobs
    <3> HIDE DEF j
    <3>2. JobFine(j, intact[p])
      BY <1>12, <2>1, <3>1 DEF Writing
    <3> QED BY <1>3, <2>1, <2>2, <3>1, <3>2
  <2>3. CASE Ends(p, "idle")
    BY <1>4, <2>1, <2>3
  <2> QED BY <1>13, <2>2, <2>3 DEF PutConflicts
<1>14. ASSUME NEW p \in Runs, PutUnknown(p) PROVE PubInv'
  <2>1. PICK item \in Items, k \in Keys :
          /\ k = job[p].at /\ item = Request(p, k) /\ item.kind = "frozen"
          /\ k = Manifest => \A n \in Payload : Names(n, item.of[n])
    BY <1>9, <1>14 DEF PutUnknown, Putting, Writing
  <2>2. /\ job[p].pc = "put" /\ UNCHANGED <<stray, intact, changes>>
        /\ job' = [job EXCEPT ![p] = [job[p] EXCEPT !.pc = "reconcile", !.wrote = job[p].pass = 3]]
        /\ \/ UNCHANGED <<store, inflight>>
           \/ ~Present(k) /\ store' = Put(k, item) /\ UNCHANGED inflight
           \/ inflight' = inflight \cup {[key |-> k, item |-> item]} /\ UNCHANGED store
    BY <1>14, <2>1 DEF PutUnknown, Putting
  <2>3. PICK j \in Jobs : /\ job' = [job EXCEPT ![p] = j] /\ j.pc = "reconcile"
                          /\ j.at = job[p].at /\ j.versions = job[p].versions
    <3> DEFINE j == [job[p] EXCEPT !.pc = "reconcile", !.wrote = job[p].pass = 3]
    <3>1. j \in Jobs /\ j.pc = "reconcile" /\ j.at = job[p].at /\ j.versions = job[p].versions
      BY <1>0 DEF Jobs, Writing
    <3> HIDE DEF j
    <3> QED BY <2>2, <3>1 DEF j
  <2>4. Grows /\ StoreOK' /\ store' \in [Keys -> Seq(Items)]
    <3>1. CASE UNCHANGED <<store, inflight>>
      BY <1>0, <2>2, <3>1, BucketStays
    <3>2. CASE ~Present(k) /\ store' = Put(k, item) /\ UNCHANGED inflight
      BY <1>0, <2>1, <2>2, <3>2, PutKeeps DEF PubTypeOK
    <3>3. CASE inflight' = inflight \cup {[key |-> k, item |-> item]} /\ UNCHANGED store
      <4>1. Grows /\ store' \in [Keys -> Seq(Items)]
        BY <1>0, <2>2, <3>3 DEF Grows, PubTypeOK
      <4> QED BY <1>0, <2>1, <2>2, <3>3, <4>1 DEF StoreOK, Names
    <3> QED BY <2>2, <3>1, <3>2, <3>3
  <2>5. PICK whole \in BOOLEAN : whole = intact[p] /\ intact = [intact EXCEPT ![p] = whole]
    BY <1>0
  <2>6. JobFine(j, whole)'
    <3>1. JobFine(j, whole)
      BY <1>12, <2>2, <2>3, <2>5 DEF Writing
    <3> QED BY <1>0, <2>4, <3>1, GrowthKeeps
  <2>7. inflight' \subseteq [key : Keys, item : Items] /\ stray' \in BOOLEAN /\ changes' \in Nat
    BY <1>0, <2>1, <2>2 DEF PubTypeOK
  <2>8. intact' = [intact EXCEPT ![p] = whole]
    BY <2>2, <2>5
  <2> QED BY <2>3, <2>4, <2>6, <2>7, <2>8, RunMoves
<1>15. CASE LateLanding
  <2>1. PICK sent \in inflight :
          /\ inflight' = inflight \ {sent} /\ UNCHANGED <<stray, job, intact, changes>>
          /\ store' = IF Present(sent.key) THEN store ELSE Put(sent.key, sent.item)
    BY <1>15 DEF LateLanding
  <2>2. PICK item \in Items, k \in Keys :
          /\ k = sent.key /\ item = sent.item /\ item.kind = "frozen"
          /\ k = Manifest => \A n \in Payload : Names(n, item.of[n])
    BY <1>0 DEF PubTypeOK, StoreOK
  <2>3. Grows /\ StoreOK' /\ store' \in [Keys -> Seq(Items)]
    <3>1. CASE Present(k)
      <4>1. Grows /\ store' \in [Keys -> Seq(Items)]
        BY <1>0, <2>1, <2>2, <3>1 DEF Grows, PubTypeOK
      <4> QED BY <1>0, <2>1, <2>2, <3>1, <4>1 DEF StoreOK, Names
    <3>2. CASE ~Present(k)
      BY <1>0, <2>1, <2>2, <3>2, PutKeeps DEF PubTypeOK
    <3> QED BY <3>1, <3>2
  <2>4. ASSUME NEW p \in Runs PROVE JobFine(job[p], intact[p])'
    <3>1. PICK j \in Jobs, whole \in BOOLEAN : j = job[p] /\ whole = intact[p] /\ JobFine(j, whole)
      BY <1>0
    <3>2. JobFine(j, whole)'
      BY <1>0, <2>3, <3>1, GrowthKeeps
    <3> QED BY <2>1, <3>1, <3>2
  <2>5. PubTypeOK'
    BY <1>0, <2>1, <2>3 DEF PubTypeOK
  <2> QED BY <2>3, <2>4, <2>5 DEF PubInv
<1>16. CASE Change
  <2>1. changes' = changes + 1 /\ changes' \in Nat /\ changes' # 0 /\ UNCHANGED <<inflight, job, intact>>
    BY <1>0, <1>16 DEF Change, PubTypeOK
  <2>2. Grows /\ StoreOK' /\ store' \in [Keys -> Seq(Items)] /\ stray' \in BOOLEAN
    <3>1. CASE stray' = TRUE /\ UNCHANGED store
      <4>1. Grows /\ store' \in [Keys -> Seq(Items)]
        BY <1>0, <3>1 DEF Grows, PubTypeOK
      <4> QED BY <1>0, <2>1, <3>1, <4>1 DEF StoreOK, Names
    <3>2. ASSUME NEW k \in Keys, NEW item \in {Other, Gone}, store' = Put(k, item), UNCHANGED stray
          PROVE  Grows /\ StoreOK' /\ store' \in [Keys -> Seq(Items)] /\ stray' \in BOOLEAN
      <4>1. item \in Items /\ item.kind # "frozen"
        BY <1>0 DEF Other, Gone, Items
      <4> QED BY <1>0, <2>1, <3>2, <4>1, PutKeeps DEF PubTypeOK
    <3> QED BY <1>16, <3>1, <3>2 DEF Change
  <2>3. ASSUME NEW p \in Runs PROVE JobFine(job[p], intact[p])'
    <3>1. PICK j \in Jobs, whole \in BOOLEAN : j = job[p] /\ whole = intact[p] /\ JobFine(j, whole)
      BY <1>0
    <3>2. JobFine(j, whole)'
      BY <1>0, <2>2, <3>1, GrowthKeeps
    <3> QED BY <2>1, <3>1, <3>2
  <2>4. PubTypeOK'
    BY <1>0, <2>1, <2>2 DEF PubTypeOK
  <2> QED BY <2>2, <2>3, <2>4 DEF PubInv
<1>17. ASSUME NEW p \in Runs, Open(p) PROVE PubInv'
  <2>1. UNCHANGED <<store, stray, inflight, changes>> /\ intact' = [intact EXCEPT ![p] = Whole]
    BY <1>17 DEF Open
  <2>2. CASE Present(Manifest) /\ Object(Manifest).kind = "frozen"
    <3> DEFINE of == Object(Manifest).of
               j == [job[p] EXCEPT !.pc = "recheck", !.at = 1, !.seen = Latest(Manifest), !.versions = of]
    <3>1. job' = [job EXCEPT ![p] = j]
      BY <1>17, <2>2 DEF Open
    <3>2. /\ Latest(Manifest) \in 1..Len(store[Manifest]) /\ Object(Manifest) \in Items
          /\ of \in [Payload -> Nat]
      <4>1. store[Manifest] \in Seq(Items) /\ store[Manifest] # << >>
        BY <1>0, <2>2 DEF Present
      <4>2. Len(store[Manifest]) \in 1..Len(store[Manifest])
        BY <4>1
      <4>3. Object(Manifest) \in Items
        BY <4>1, <4>2 DEF Object, Latest
      <4>4. Object(Manifest).of \in [Payload -> Nat]
        BY <4>3 DEF Items
      <4> QED BY <4>2, <4>3, <4>4 DEF Latest
    <3>3. \A k \in Payload : Names(k, of[k])
      BY <1>0, <2>2, <3>2 DEF StoreOK, Object
    <3> HIDE DEF of
    <3>4. j \in Jobs /\ j.pc = "recheck" /\ j.at = 1 /\ j.versions = of
      <4>1. job[p] \in Jobs /\ Latest(Manifest) \in Nat
        BY <1>0, <3>2 DEF Latest
      <4> QED BY <1>0, <3>2, <4>1 DEF Jobs, Reviewing
    <3> HIDE DEF j
    <3>5. Whole \in BOOLEAN
      BY DEF Whole
    <3>6. Whole \/ stray \/ \E k \in Payload : Len(store[k]) > of[k]
      <4> SUFFICES ASSUME ~stray, \A k \in Payload : ~(Len(store[k]) > of[k]) PROVE Whole
        OBVIOUS
      <4>1. ASSUME NEW k \in Payload
            PROVE  Latest(k) = of[k] /\ Present(k) /\ Object(k) = Frozen(NoVersions)
        <5>1. Len(store[k]) \in Nat /\ of[k] \in 1..Len(store[k]) /\ store[k][of[k]] = Frozen(NoVersions)
          BY <1>0, <3>3 DEF Names
        <5>2. of[k] = Len(store[k])
          BY <5>1
        <5>3. Frozen(NoVersions) # Gone /\ store[k] # << >>
          BY <5>1 DEF Frozen, Gone
        <5> QED BY <5>1, <5>2, <5>3 DEF Latest, Present, Object
      <4> QED BY <2>2, <4>1 DEF Whole, of
    <3>7. JobFine(j, Whole)
      BY <1>0, <3>3, <3>4, <3>6 DEF JobFine, Writing, Reviewing
    <3> QED BY <2>1, <3>1, <3>4, <3>5, <3>7, QuietMove
  <2>3. CASE ~(Present(Manifest) /\ Object(Manifest).kind = "frozen")
    <3> DEFINE j == [Idle EXCEPT !.pc = "idle"]
    <3>1. j \in Jobs /\ JobFine(j, Whole) /\ Whole \in BOOLEAN
      BY <1>0 DEF Idle, Jobs, JobFine, Writing, Reviewing, Whole
    <3>2. job' = [job EXCEPT ![p] = j]
      BY <1>17, <2>3 DEF Open, Ends
    <3> HIDE DEF j
    <3> QED BY <2>1, <3>1, <3>2, QuietMove
  <2> QED BY <2>2, <2>3
<1>18. ASSUME NEW p \in Runs, Files(p) PROVE PubInv'
  <2> DEFINE k == job[p].at
  <2>1. /\ job[p].pc \in {"files", "recheck"} /\ UNCHANGED <<store, stray, inflight, intact, changes>>
        /\ job[p] \in Jobs /\ k \in Keys /\ job[p].versions \in [Payload -> Nat]
        /\ JobFine(job[p], intact[p])
    BY <1>0, <1>18 DEF Files, Jobs
  <2>2. CASE ~(Present(k) /\ Latest(k) = job[p].versions[k])
    BY <1>4, <1>18, <2>1, <2>2 DEF Files
  <2>3. CASE Latest(k) = job[p].versions[k] /\ k < N /\ job' = [job EXCEPT ![p] = [job[p] EXCEPT !.at = k + 1]]
    <3> DEFINE j == [job[p] EXCEPT !.at = k + 1]
    <3>1. /\ j \in Jobs /\ j.pc = job[p].pc /\ j.at = k + 1 /\ j.versions = job[p].versions
      <4>1. k + 1 \in Keys
        BY <1>0, <2>1, <2>3
      <4> QED BY <2>1, <4>1 DEF Jobs
    <3> HIDE DEF j
    <3>2. \A n \in Payload : n >= k /\ Len(store[n]) > job[p].versions[n] => n >= k + 1
      <4>1. Len(store[k]) = job[p].versions[k] /\ k \in Nat /\ job[p].versions[k] \in Nat
        BY <1>0, <2>1, <2>3 DEF Latest
      <4>2. \A n \in Payload : n # k /\ n >= k => n >= k + 1
        BY <1>0, <4>1
      <4>3. ~(Len(store[k]) > job[p].versions[k])
        BY <4>1
      <4> HIDE DEF k
      <4> QED BY <4>2, <4>3
    <3>3. JobFine(j, intact[p])
      BY <1>0, <2>1, <3>1, <3>2 DEF JobFine, Writing, Reviewing
    <3> QED BY <1>3, <2>1, <2>3, <3>1, <3>3 DEF j
  <2>4. CASE job[p].pc = "files" /\ Moves(p, "inventory")
    <3> DEFINE j == [job[p] EXCEPT !.pc = "inventory", !.at = 1, !.attempt = 1]
    <3>1. j \in Jobs /\ j.pc = "inventory" /\ j.versions = job[p].versions
      BY <1>0, <2>1 DEF Jobs
    <3> HIDE DEF j
    <3>2. JobFine(j, intact[p])
      BY <2>1, <2>4, <3>1 DEF JobFine, Writing, Reviewing
    <3>3. job' = [job EXCEPT ![p] = j]
      BY <2>4 DEF Moves, j
    <3> QED BY <1>3, <2>1, <3>1, <3>2, <3>3
  <2>5. CASE /\ job[p].pc = "recheck" /\ Latest(k) = job[p].versions[k] /\ ~(k < N)
             /\ job' = [job EXCEPT ![p] = [job[p] EXCEPT !.pc = "latest", !.at = 1, !.versions = NoVersions]]
    <3> DEFINE j == [job[p] EXCEPT !.pc = "latest", !.at = 1, !.versions = NoVersions]
    <3>1. j \in Jobs /\ j.pc = "latest"
      BY <1>0, <2>1 DEF Jobs, Reviewing
    <3> HIDE DEF j
    <3>2. ~ \E n \in Payload : n >= k /\ Len(store[n]) > job[p].versions[n]
      <4>1. Len(store[k]) = job[p].versions[k] /\ k \in Nat /\ job[p].versions[k] \in Nat
        BY <1>0, <2>1, <2>5 DEF Latest
      <4>2. \A n \in Payload : n >= k => n = k
        BY <1>0, <2>1, <2>5
      <4>3. ~(Len(store[k]) > job[p].versions[k])
        BY <4>1
      <4> HIDE DEF k
      <4> QED BY <4>2, <4>3
    <3>3. JobFine(j, intact[p])
      BY <2>1, <2>5, <3>1, <3>2 DEF JobFine, Writing, Reviewing
    <3> QED BY <1>3, <2>1, <2>5, <3>1, <3>3 DEF j
  <2> QED BY <1>18, <2>1, <2>2, <2>3, <2>4, <2>5 DEF Files
<1>19. ASSUME NEW p \in Runs, Inventory(p) PROVE PubInv'
  <2>1. job[p].pc = "inventory" /\ UNCHANGED <<store, stray, inflight, intact, changes>>
        /\ job[p] \in Jobs /\ JobFine(job[p], intact[p])
    BY <1>0, <1>19 DEF Inventory
  <2>2. CASE job' = [job EXCEPT ![p] = [job[p] EXCEPT !.pc = "put", !.at = Manifest]]
    <3> DEFINE j == [job[p] EXCEPT !.pc = "put", !.at = Manifest]
    <3>1. j \in Jobs /\ j.pc = "put" /\ j.versions = job[p].versions
      BY <1>0, <2>1 DEF Jobs, Writing
    <3> HIDE DEF j
    <3>2. JobFine(j, intact[p])
      BY <2>1, <3>1 DEF JobFine, Writing, Reviewing
    <3> QED BY <1>3, <2>1, <2>2, <3>1, <3>2 DEF j
  <2>3. CASE Ends(p, "idle")
    BY <1>4, <2>1, <2>3
  <2> QED BY <1>19, <2>2, <2>3 DEF Inventory
<1>20. ASSUME NEW p \in Runs, LatestManifest(p) PROVE PubInv'
  <2>1. job[p].pc = "latest" /\ UNCHANGED <<store, stray, inflight, intact, changes>>
        /\ job[p] \in Jobs /\ JobFine(job[p], intact[p])
    BY <1>0, <1>20 DEF LatestManifest
  <2>2. CASE Moves(p, "relist")
    <3> DEFINE j == [job[p] EXCEPT !.pc = "relist", !.at = 1, !.attempt = 1]
    <3>1. j \in Jobs /\ j.pc = "relist"
      BY <1>0, <2>1 DEF Jobs, Reviewing
    <3> HIDE DEF j
    <3>2. JobFine(j, intact[p])
      BY <2>1, <3>1 DEF JobFine, Writing, Reviewing
    <3>3. job' = [job EXCEPT ![p] = j]
      BY <2>2 DEF Moves, j
    <3> QED BY <1>3, <2>1, <3>1, <3>2, <3>3
  <2>3. CASE Ends(p, "idle")
    BY <1>4, <2>1, <2>3
  <2> QED BY <1>20, <2>2, <2>3 DEF LatestManifest
<1>21. ASSUME NEW p \in Runs, PassEnds(p) PROVE PubInv'
  <2>1. job[p].pc = "relist" /\ UNCHANGED <<store, stray, inflight, intact, changes>>
        /\ job[p] \in Jobs /\ JobFine(job[p], intact[p])
    BY <1>0, <1>21 DEF PassEnds
  <2> DEFINE pass == job[p].pass
             j == [Idle EXCEPT !.pc = IF pass = 2 THEN "marker" ELSE "open", !.pass = pass + 1,
                               !.before = IF pass = 2 THEN job[p].seen ELSE job[p].before]
  <2>2. CASE Ends(p, "idle")
    BY <1>4, <2>1, <2>2
  <2>3. CASE Ends(p, "success") /\ ~stray
    <3> DEFINE i == [Idle EXCEPT !.pc = "success"]
    <3>1. i \in Jobs /\ i.pc = "success"
      BY <1>0 DEF Idle, Jobs
    <3> HIDE DEF i
    <3>2. JobFine(i, intact[p])
      BY <2>1, <2>3, <3>1 DEF JobFine, Writing, Reviewing
    <3> QED BY <1>3, <2>1, <2>3, <3>1, <3>2 DEF Ends, i
  <2>4. CASE job' = [job EXCEPT ![p] = j]
    <3>1. j \in Jobs /\ j.pc \in {"marker", "open"}
      <4>1. pass + 1 \in Nat /\ (IF pass = 2 THEN job[p].seen ELSE job[p].before) \in Nat
        BY <2>1 DEF Jobs
      <4> HIDE DEF pass
      <4> QED BY <1>0, <4>1 DEF Idle, Jobs
    <3> HIDE DEF j
    <3>2. JobFine(j, intact[p])
      BY <3>1 DEF JobFine, Writing, Reviewing
    <3> QED BY <1>3, <2>1, <2>4, <3>1, <3>2
  <2> QED BY <1>21, <2>2, <2>3, <2>4 DEF PassEnds
<1> QED
  BY <1>1, <1>2, <1>5, <1>6, <1>10, <1>11, <1>13, <1>14, <1>15, <1>16, <1>17, <1>18, <1>19, <1>20, <1>21
     DEF PublicationNext, Publishing

(* The invariant of the publication holds in every behaviour.                 *)
LEMMA PubAlways == Spec => []PubInv
<1>1. Init => PubInv
  <2> SUFFICES ASSUME PublicationInit PROVE PubInv
    BY DEF Init
  <2>0. 1 \in Keys /\ NoVersions \in [Payload -> Nat] /\ Manifest \in Keys /\ Payload \subseteq Keys
    BY PublicationConstants DEF Keys, Manifest, NoVersions, Payload
  <2>1. Idle \in Jobs
    BY <2>0 DEF Idle, Jobs
  <2>2. PubTypeOK
    <3>1. store \in [Keys -> Seq(Items)] /\ job \in [Runs -> Jobs] /\ intact \in [Runs -> BOOLEAN]
      BY <2>1 DEF PublicationInit
    <3> QED BY <3>1 DEF PublicationInit, PubTypeOK
  <2>3. StoreOK
    BY <2>0 DEF PublicationInit, StoreOK
  <2>4. \A p \in Runs : JobFine(job[p], intact[p])
    BY DEF PublicationInit, JobFine, Idle, Writing, Reviewing
  <2> QED BY <2>2, <2>3, <2>4 DEF PubInv
<1>2. PubInv /\ [Next]_vars => PubInv'
  <2> SUFFICES ASSUME PubInv, [Next]_vars PROVE PubInv'
    OBVIOUS
  <2>1. CASE PublicationNext
    BY <2>1, PubStep
  <2>2. CASE UNCHANGED publicationVars
    <3>1. UNCHANGED <<store, stray, inflight, job, intact, changes>>
      BY <2>2 DEF publicationVars
    <3>2. PubTypeOK' /\ StoreOK'
      BY <3>1, BucketStays DEF PubInv, PubTypeOK
    <3>3. \A p \in Runs : JobFine(job[p], intact[p])'
      BY <3>1 DEF PubInv, JobFine, Names
    <3> QED BY <3>2, <3>3 DEF PubInv
  <2> QED BY <2>1, <2>2 DEF Next, vars
<1> QED BY <1>1, <1>2, PTL DEF Spec

(* What the invariant says of a manifest and of a success.                   *)
LEMMA PubMeansWhole == PubInv => CompleteMeansWhole
<1> SUFFICES ASSUME PubInv PROVE CompleteMeansWhole
  OBVIOUS
<1>0. Payload \subseteq Keys /\ Manifest \in Keys /\ \A k \in Keys : Len(store[k]) \in Nat
  BY PublicationConstants DEF Keys, Manifest, Payload, PubInv, PubTypeOK
<1>1. \A p \in Runs : job[p].pc = "success" => intact[p]
  BY DEF PubInv, JobFine
<1>2. ASSUME changes = 0, Present(Manifest) PROVE Whole
  <2>1. stray = FALSE /\ \A k \in Keys : Len(store[k]) <= 1 /\ (Len(store[k]) = 1 => store[k][1].kind = "frozen")
    BY <1>2 DEF PubInv, StoreOK
  <2>2. Len(store[Manifest]) # 0
    BY <1>0, <1>2 DEF Present, PubInv, PubTypeOK
  <2>5. \A n \in Nat : n <= 1 /\ n # 0 => n = 1
    OBVIOUS
  <2>6. Len(store[Manifest]) = 1 /\ store[Manifest][1].kind = "frozen"
    BY <1>0, <2>1, <2>2, <2>5, Zenon
  <2>3. Latest(Manifest) = 1 /\ Object(Manifest).kind = "frozen"
    BY <2>6 DEF Latest, Object
  <2>4. ASSUME NEW k \in Payload
        PROVE  Latest(k) = Object(Manifest).of[k] /\ Present(k) /\ Object(k) = Frozen(NoVersions)
    <3>1. Names(k, Object(Manifest).of[k])
      BY <2>3 DEF PubInv, StoreOK, Object, Latest
    <3>2. Len(store[k]) = 1 /\ Object(Manifest).of[k] = 1
      <4>1. Len(store[k]) <= 1 /\ Len(store[k]) \in Nat
        BY <1>0, <2>1
      <4>2. Object(Manifest).of[k] \in 1..Len(store[k])
        BY <3>1 DEF Names
      <4>3. \A a, b : b \in Nat /\ b <= 1 /\ a \in 1..b => b = 1 /\ a = 1
        OBVIOUS
      <4> QED BY <4>1, <4>2, <4>3, Zenon
    <3>3. store[k] # << >> /\ Frozen(NoVersions) # Gone
      <4>1. store[k] = << >> => Len(store[k]) = 0
        OBVIOUS
      <4> QED BY <3>2, <4>1 DEF Frozen, Gone
    <3> QED BY <3>1, <3>2, <3>3 DEF Names, Latest, Present, Object
  <2> QED BY <1>2, <2>1, <2>3, <2>4 DEF Whole
<1> QED BY <1>1, <1>2 DEF CompleteMeansWhole

(* CompleteMeansWhole holds in every behaviour, for every number of objects  *)
(* and publishers: the manifest comes last, and a success is the success of a*)
(* verification of a whole snapshot (snapshot.py, publish_snapshot and       *)
(* read_snapshot).                                                           *)
THEOREM SnapshotComplete == Spec => []CompleteMeansWhole
BY PubAlways, PubMeansWhole, PTL

(***************************************************************************)
(* The refinement: each step of a component is a step of what is promised, *)
(* or none.                                                                *)
(***************************************************************************)

(* A commit ingests one task that overlaps with nothing in the ledger.       *)
LEMMA IntakeRefines ==
  ASSUME IntakeInv, IntakeNext, UNCHANGED <<publicationVars, roundVars>>
  PROVE  Promise!Ingest \/ UNCHANGED ledger
<1>1. ASSUME NEW w \in Workers, Commit(w) PROVE Promise!Ingest \/ UNCHANGED ledger
  <2>. DEFINE task == worker[w].task
  <2>1. task \in Tasks /\ ~Conflicts(task, ledger)
    BY <1>1 DEF Commit, Does, IntakeInv, EntriesAreLedger, Reading
  <2>2. CASE Named(task) = {}
    <3>1. ledger' = ledger \cup {task}
      BY <1>1, <2>2 DEF Commit
    <3>2. \A e \in ledger : ~Promise!Overlap(e, task)
      BY <2>1, <2>2 DEF Conflicts, Named, Promise!Overlap
    <3>3. UNCHANGED <<Snapshot, Sighted, Confirmed, States, run.pc = "success">>
      BY DEF publicationVars, roundVars, Snapshot, Whole, Present, Object, Latest,
             Sighted, Confirmed, States
    <3>. QED BY <2>1, <3>1, <3>2, <3>3 DEF Promise!Ingest
  <2>3. CASE Named(task) # {}
    BY <1>1, <2>3 DEF Commit
  <2>. QED BY <2>2, <2>3
<1>2. ASSUME ~\E w \in Workers : Commit(w) PROVE UNCHANGED ledger
  BY <1>2 DEF IntakeNext, Begin, Lock, Look, Passes, Describe, Acquire, Stage, Normalise, Refused,
              Deduplicate, Export, Verify, Unlock, Kill, RemoveLock, EntryLost
<1>. QED BY <1>1, <1>2

(* What the bucket shows of the snapshot depends on its objects only.        *)
LEMMA SnapshotStays ==
  ASSUME UNCHANGED <<store, stray, changes>>
  PROVE  UNCHANGED Snapshot
BY DEF Snapshot, Whole, Present, Object, Latest

(* An object put where there was none may make the snapshot whole, all of it *)
(* at once, and changes nothing else about it.                               *)
LEMMA LandingAppears ==
  ASSUME PubInv, CompleteMeansWhole, CompleteMeansWhole', NEW k \in Keys, ~Present(k),
         UNCHANGED <<stray, changes>>
  PROVE  UNCHANGED Snapshot \/ (Snapshot # "whole" /\ Snapshot' = "whole")
<1>1. ~Whole
  BY PublicationConstants DEF Whole, Keys, Manifest, Payload
<1>2. CASE Whole'
  BY <1>1, <1>2 DEF Snapshot
<1>3. CASE ~Whole' /\ changes # 0
  BY <1>1, <1>3 DEF Snapshot
<1>4. CASE ~Whole' /\ changes = 0
  <2>1. ~Present(Manifest) /\ ~Present(Manifest)'
    BY <1>1, <1>4 DEF CompleteMeansWhole
  <2>. QED BY <1>1, <1>4, <2>1 DEF Snapshot
<1>. QED BY <1>2, <1>3, <1>4

(* A change from outside leaves no whole snapshot.                           *)
LEMMA ChangeBreaks ==
  ASSUME PubInv, Change
  PROVE  Snapshot' = "broken"
<1>1. changes' # 0
  BY DEF Change, PubInv, PubTypeOK
<1>2. ~Whole'
  <2>1. CASE stray' = TRUE
    BY <2>1 DEF Whole
  <2>2. ASSUME NEW k \in Keys, NEW item \in {Other, Gone}, store' = Put(k, item) PROVE ~Whole'
    <3>1. store[k] \in Seq(Items) /\ item \in Items
      <4>1. NoVersions \in [Payload -> Nat]
        BY DEF NoVersions
      <4>2. Other \in Items /\ Gone \in Items
        BY <4>1 DEF Other, Gone, Items
      <4>. QED BY <4>2 DEF PubInv, PubTypeOK
    <3>2. store'[k] = Append(store[k], item)
      BY <2>2, <3>1 DEF Put, PubInv, PubTypeOK
    <3>3. Len(store'[k]) = Len(store[k]) + 1 /\ store'[k][Len(store'[k])] = item
      BY <3>1, <3>2
    <3>4. Object(k)' = item
      BY <3>3 DEF Object, Latest
    <3>5. item.kind # "frozen" /\ item # Frozen(NoVersions)
      BY DEF Other, Gone, Frozen
    <3>6. k = Manifest \/ k \in Payload
      BY PublicationConstants DEF Keys, Manifest, Payload
    <3>. QED BY <3>4, <3>5, <3>6 DEF Whole
  <2>. QED BY <2>1, <2>2 DEF Change
<1>. QED BY <1>1, <1>2 DEF Snapshot

(* A run that goes on, or ends without success.                              *)
GoesOn(p) == \E j : j.pc # "success" /\ job' = [job EXCEPT ![p] = j]

LEMMA GoesOnConfirmsNothing ==
  ASSUME PubInv, NEW p \in Runs, GoesOn(p), job[p].pc # "success"
  PROVE  UNCHANGED Confirmed
<1>1. PICK j : j.pc # "success" /\ job' = [job EXCEPT ![p] = j]
  BY DEF GoesOn
<1>2. \A q \in Runs : job'[q].pc = "success" <=> job[q].pc = "success"
  BY <1>1 DEF PubInv, PubTypeOK
<1>. QED BY <1>2 DEF Confirmed

(* So does every way a request or a comparison ends.                         *)
LEMMA WaysOn ==
  ASSUME PubInv, NEW p \in Runs
  PROVE  /\ \A c : c # "success" => (Moves(p, c) => GoesOn(p)) /\ (Ends(p, c) => GoesOn(p))
         /\ Putting(p) \/ At(p, "reconcile") =>
              (\A v : Took(p, v) => GoesOn(p)) /\ (Compared(p) => GoesOn(p))
<1>1. job[p] \in Jobs
  BY DEF PubInv, PubTypeOK
<1>2. ASSUME NEW c, c # "success" PROVE (Moves(p, c) => GoesOn(p)) /\ (Ends(p, c) => GoesOn(p))
  BY <1>1, <1>2 DEF Moves, Ends, Goto, GoesOn, Jobs, Idle
<1>3. ASSUME Putting(p) \/ At(p, "reconcile"), NEW v, Took(p, v) PROVE GoesOn(p)
  <2>. DEFINE k == job[p].at
              next == [job[p] EXCEPT !.attempt = 1, !.wrote = job[p].pass = 3]
              opened == [next EXCEPT !.pc = "open", !.at = 1]
              taken == [next EXCEPT !.versions[k] = v, !.at = IF k = N THEN 1 ELSE k + 1,
                                    !.pc = IF k = N THEN "files" ELSE "put"]
  <2>1. opened.pc # "success" /\ taken.pc # "success"
    BY <1>1 DEF Jobs
  <2>2. job' = [job EXCEPT ![p] = opened] \/ job' = [job EXCEPT ![p] = taken]
    BY <1>3 DEF Took, Goto
  <2>. QED BY <2>1, <2>2 DEF GoesOn
<1>4. ASSUME Putting(p) \/ At(p, "reconcile"), Compared(p) PROVE GoesOn(p)
  BY <1>2, <1>3, <1>4 DEF Compared
<1>. QED BY <1>2, <1>3, <1>4

(* The step of a publication that leaves the rest of the landing alone.      *)
Elsewhere == UNCHANGED <<ledger, States, run.pc = "success">>

(* A run that looks at the manifest sees the snapshot whole or forgets it.   *)
LEMMA SightingRefines ==
  ASSUME PubInv, NEW p \in Runs, Publish(p) \/ Recover(p) \/ Open(p), Elsewhere
  PROVE  Promise!Sight(p) \/ Promise!Forget(p)
<1>1. UNCHANGED Snapshot /\ job[p].pc # "success" /\ p \notin Confirmed
  BY SnapshotStays DEF Publish, Recover, Open, At, Confirmed
<1>2. GoesOn(p)
  <2>1. CASE Publish(p)
    BY <2>1 DEF Publish, Goto, GoesOn, Idle
  <2>2. CASE Recover(p)
    BY <2>2 DEF Recover, Goto, GoesOn, Idle
  <2>3. CASE Open(p)
    <3>1. job[p] \in Jobs
      BY DEF PubInv, PubTypeOK
    <3>2. CASE Ends(p, "idle")
      BY <3>2, WaysOn
    <3>3. CASE Goto(p, [job[p] EXCEPT !.pc = "recheck", !.at = 1, !.seen = Latest(Manifest),
                                      !.versions = Object(Manifest).of])
      BY <3>1, <3>3 DEF Goto, GoesOn, Jobs
    <3>. QED BY <2>3, <3>2, <3>3 DEF Open
  <2>. QED BY <2>1, <2>2, <2>3
<1>3. UNCHANGED Confirmed
  BY <1>1, <1>2, GoesOnConfirmsNothing
<1>4. /\ intact' = [intact EXCEPT ![p] = TRUE] /\ Whole
      \/ intact' = [intact EXCEPT ![p] = FALSE]
  BY DEF Publish, Recover, Open, Whole
<1>5. CASE intact' = [intact EXCEPT ![p] = TRUE] /\ Whole
  <2>1. Snapshot = "whole" /\ Sighted' = Sighted \cup {p}
    BY <1>5 DEF Snapshot, Sighted, PubInv, PubTypeOK
  <2>. QED BY <1>1, <1>3, <2>1 DEF Promise!Sight, Elsewhere
<1>6. CASE intact' = [intact EXCEPT ![p] = FALSE]
  <2>1. Sighted' = Sighted \ {p}
    BY <1>6 DEF Sighted, PubInv, PubTypeOK
  <2>. QED BY <1>1, <1>3, <2>1 DEF Promise!Forget, Elsewhere
<1>. QED BY <1>4, <1>5, <1>6

(* A step that moves no run to success and leaves the sightings alone.       *)
LEMMA BucketRefines ==
  ASSUME UNCHANGED <<Confirmed, intact>>, Elsewhere,
         \/ UNCHANGED Snapshot
         \/ Snapshot # "whole" /\ Snapshot' = "whole"
         \/ Snapshot' = "broken"
  PROVE  [Promise!Next]_Promise!promiseVars
<1>1. UNCHANGED Sighted
  BY DEF Sighted
<1>. QED
  BY <1>1 DEF Promise!Next, Promise!Appear, Promise!Break, Promise!promiseVars, Elsewhere

(* The writes: each is to a key where there was no object.                   *)
LEMMA WriteRefines ==
  ASSUME PubInv, CompleteMeansWhole, CompleteMeansWhole', Elsewhere,
         LateLanding \/ \E p \in Runs : PutLands(p) \/ PutUnknown(p)
  PROVE  [Promise!Next]_Promise!promiseVars
<1>1. CASE LateLanding
  <2>1. UNCHANGED Snapshot \/ (Snapshot # "whole" /\ Snapshot' = "whole")
    <3>1. PICK put \in inflight :
             store' = IF Present(put.key) THEN store ELSE Put(put.key, put.item)
      BY <1>1 DEF LateLanding
    <3>2. put.key \in Keys
      BY DEF PubInv, PubTypeOK
    <3>. QED BY <1>1, <3>1, <3>2, SnapshotStays, LandingAppears DEF LateLanding
  <2>. QED BY <1>1, <2>1, BucketRefines DEF LateLanding, Confirmed
<1>2. ASSUME NEW p \in Runs, PutLands(p) \/ PutUnknown(p)
      PROVE  [Promise!Next]_Promise!promiseVars
  <2>1. job[p] \in Jobs /\ job[p].at \in Keys /\ Putting(p) /\ job[p].pc # "success"
    BY <1>2 DEF PubInv, PubTypeOK, Jobs, PutLands, PutUnknown, Putting, At
  <2>2. GoesOn(p)
    <3>1. CASE PutLands(p)
      BY <2>1, <3>1, WaysOn DEF PutLands
    <3>2. CASE PutUnknown(p)
      BY <2>1, <3>2 DEF PutUnknown, Goto, GoesOn, Jobs
    <3>. QED BY <1>2, <3>1, <3>2
  <2>3. UNCHANGED <<stray, changes, intact>> /\ (UNCHANGED store \/ ~Present(job[p].at))
    BY <1>2 DEF PutLands, PutUnknown
  <2>4. UNCHANGED Snapshot \/ (Snapshot # "whole" /\ Snapshot' = "whole")
    BY <2>1, <2>3, SnapshotStays, LandingAppears
  <2>. QED BY <2>1, <2>2, <2>3, <2>4, GoesOnConfirmsNothing, BucketRefines
<1>. QED BY <1>1, <1>2

(* The last inventory confirms a snapshot that this run has seen whole.      *)
LEMMA PassEndRefines ==
  ASSUME PubInv, PubInv', NEW p \in Runs, PassEnds(p), Elsewhere
  PROVE  [Promise!Next]_Promise!promiseVars
<1>1. job[p].pc # "success" /\ UNCHANGED <<Snapshot, intact, Sighted>>
  BY SnapshotStays DEF PassEnds, At, Sighted
<1>2. CASE Ends(p, "success")
  <2>1. /\ job'[p].pc = "success"
        /\ \A q \in Runs : q # p => job'[q] = job[q]
    BY <1>2 DEF Ends, Goto, Idle, PubInv, PubTypeOK
  <2>2. p \in Sighted
    BY <1>1, <2>1 DEF PubInv, JobFine, Sighted
  <2>3. Confirmed' = Confirmed \cup {p}
    BY <2>1 DEF Confirmed
  <2>4. Promise!Confirm(p)
    BY <1>1, <2>2, <2>3 DEF Promise!Confirm, Elsewhere
  <2>. QED BY <2>4 DEF Promise!Next
<1>3. CASE ~Ends(p, "success")
  <2>1. GoesOn(p)
    <3>. DEFINE pass == job[p].pass
                before == IF pass = 2 THEN job[p].seen ELSE job[p].before
                start == IF pass = 2 THEN "marker" ELSE "open"
                next == [Idle EXCEPT !.pc = start, !.pass = pass + 1, !.before = before]
    <3>1. Ends(p, "idle") \/ Goto(p, next)
      BY <1>3 DEF PassEnds
    <3>2. next.pc # "success"
      BY DEF Idle
    <3>. QED BY <3>1, <3>2, WaysOn DEF Goto, GoesOn
  <2>. QED BY <1>1, <2>1, GoesOnConfirmsNothing, BucketRefines
<1>. QED BY <1>2, <1>3

(* Everything else a run does is its own affair.                             *)
LEMMA RestRefines ==
  ASSUME PubInv, NEW p \in Runs, Elsewhere,
         \/ Marker(p) \/ PutRefused(p) \/ Reconcile(p) \/ Files(p) \/ Inventory(p)
         \/ LatestManifest(p) \/ Fail(p) \/ PutConflicts(p)
  PROVE  [Promise!Next]_Promise!promiseVars
<1>1. job[p] \in Jobs
  BY DEF PubInv, PubTypeOK
<1>2. UNCHANGED <<store, stray, changes, intact>> /\ job[p].pc # "success"
  BY DEF Marker, PutRefused, Reconcile, Files, Inventory, LatestManifest, Fail, PutConflicts,
         At, Putting, Finished
<1>3. GoesOn(p)
  <2>1. CASE Marker(p)
    BY <2>1, WaysOn DEF Marker
  <2>2. CASE PutRefused(p) \/ Reconcile(p)
    BY <2>2, WaysOn DEF PutRefused, Reconcile
  <2>3. CASE Files(p)
    <3>1. ASSUME NEW n, Goto(p, [job[p] EXCEPT !.at = n]), job[p].pc # "success" PROVE GoesOn(p)
      BY <1>1, <3>1 DEF Goto, GoesOn, Jobs
    <3>2. ASSUME Goto(p, [job[p] EXCEPT !.pc = "latest", !.at = 1, !.versions = NoVersions])
          PROVE  GoesOn(p)
      BY <1>1, <3>2 DEF Goto, GoesOn, Jobs
    <3>. QED BY <1>2, <2>3, <3>1, <3>2, WaysOn DEF Files
  <2>4. CASE Inventory(p)
    <3>1. ASSUME Goto(p, [job[p] EXCEPT !.pc = "put", !.at = Manifest]) PROVE GoesOn(p)
      BY <1>1, <3>1 DEF Goto, GoesOn, Jobs
    <3>. QED BY <2>4, <3>1, WaysOn DEF Inventory
  <2>5. CASE LatestManifest(p)
    BY <2>5, WaysOn DEF LatestManifest
  <2>6. CASE Fail(p)
    BY <2>6, WaysOn DEF Fail
  <2>7. CASE PutConflicts(p)
    <3>1. ASSUME NEW n, NEW b, Goto(p, [job[p] EXCEPT !.attempt = n, !.wrote = b]) PROVE GoesOn(p)
      BY <1>1, <1>2, <3>1 DEF Goto, GoesOn, Jobs
    <3>. QED BY <2>7, <3>1, WaysOn DEF PutConflicts
  <2>. QED BY <2>1, <2>2, <2>3, <2>4, <2>5, <2>6, <2>7
<1>. QED BY <1>2, <1>3, SnapshotStays, GoesOnConfirmsNothing, BucketRefines

(* Each step of a publication is one of the promise, or none.                *)
LEMMA PublicationRefines ==
  ASSUME PubInv, PubInv', CompleteMeansWhole, CompleteMeansWhole', PublicationNext, Elsewhere
  PROVE  [Promise!Next]_Promise!promiseVars
<1>1. ASSUME NEW p \in Runs, Publish(p) \/ Recover(p) \/ Open(p)
      PROVE  [Promise!Next]_Promise!promiseVars
  BY <1>1, SightingRefines DEF Promise!Next
<1>2. CASE Change
  <2>1. UNCHANGED <<Confirmed, intact>>
    BY <1>2 DEF Change, Confirmed
  <2>. QED BY <1>2, <2>1, ChangeBreaks, BucketRefines
<1>. QED
  BY <1>1, <1>2, WriteRefines, PassEndRefines, RestRefines DEF PublicationNext, Publishing

(* The steps of a round that leave the rest of the landing alone.            *)
Others == UNCHANGED <<ledger, Snapshot, Sighted, Confirmed>>

(* A statement is submitted when all before it succeeded, ends once, and the *)
(* round ends in success when all of them did.                               *)
LEMMA RoundRefines ==
  ASSUME RoundInv, RoundIsSequential', RoundNext, Others
  PROVE  [Promise!Next]_Promise!promiseVars
<1>1. remote \in [Statements -> Executions] /\ run.at \in Statements /\ Statements \subseteq Nat
  BY DEF RoundInv, RoundTypeOK, Dispatches, Statements
<1>2. CASE Start /\ remote[run.at].state = "none"
  <2>. DEFINE s == run.at
  <2>1. remote' = [remote EXCEPT ![s] = [state |-> "running", by |-> made[s], late |-> 0]]
    BY <1>2 DEF Start
  <2>2. \A t \in 1..s - 1 : t \in Statements /\ t < s /\ remote'[t] = remote[t]
    BY <1>1, <2>1, RoundConstants DEF Statements
  <2>3. remote'[s].state = "running" /\ States[s] = "none"
    BY <1>1, <1>2, <2>1 DEF States
  <2>4. \A t \in 1..s - 1 : States[t] = "succeeded"
    BY <1>1, <2>2, <2>3 DEF RoundIsSequential, States
  <2>5. States' = [States EXCEPT ![s] = "running"]
    BY <1>1, <2>1 DEF States
  <2>6. UNCHANGED (run.pc = "success")
    BY <1>2 DEF Start, Running, Step, RoundInv, RoundTypeOK, Dispatches
  <2>7. Promise!Submit(s)
    BY <2>3, <2>4, <2>5, <2>6 DEF Promise!Submit, Others
  <2>. QED BY <1>1, <2>7 DEF Promise!Next
<1>3. ASSUME NEW s \in Statements, remote[s].state = "running", UNCHANGED (run.pc = "success"),
             NEW e \in Executions, e.state \in {"succeeded", "failed"},
             remote' = [remote EXCEPT ![s] = e]
      PROVE  [Promise!Next]_Promise!promiseVars
  <2>1. States[s] = "running" /\ States' = [States EXCEPT ![s] = e.state]
    BY <1>1, <1>3 DEF States
  <2>2. Promise!End(s)
    BY <1>3, <2>1 DEF Promise!End, Others
  <2>. QED BY <2>2 DEF Promise!Next
<1>4. ASSUME UNCHANGED remote, run.pc # "success", run'.pc = "success"
      PROVE  [Promise!Next]_Promise!promiseVars
  <2>1. UNCHANGED States /\ \A s \in Statements : States[s] = "succeeded"
    BY <1>4 DEF RoundIsSequential, States
  <2>2. Promise!Report
    BY <1>4, <2>1 DEF Promise!Report, Others
  <2>. QED BY <2>2 DEF Promise!Next
<1>5. ASSUME UNCHANGED remote, UNCHANGED (run.pc = "success")
      PROVE  [Promise!Next]_Promise!promiseVars
  BY <1>5 DEF States, Promise!promiseVars, Others
<1>6. ASSUME UNCHANGED remote, run.pc # "success" PROVE [Promise!Next]_Promise!promiseVars
  BY <1>4, <1>5, <1>6
<1>7. CASE Stop
  <2>1. UNCHANGED (run.pc = "success")
    BY <1>7 DEF Stop, Running, JobEnds, Step, NoRun
  <2>2. CASE remote[run.at].state = "running"
    <3>. DEFINE e == [remote[run.at] EXCEPT !.state = "failed"]
    <3>1. e \in Executions /\ e.state = "failed"
      BY <1>1 DEF Executions
    <3>2. remote' = [remote EXCEPT ![run.at] = e]
      BY <1>1, <1>7, <2>2 DEF Stop
    <3>. HIDE DEF e
    <3>. QED BY <1>1, <1>3, <2>1, <2>2, <3>1, <3>2
  <2>3. CASE remote[run.at].state # "running"
    <3>1. UNCHANGED remote
      BY <1>1, <1>7, <2>3 DEF Stop, Executions
    <3>. QED BY <1>5, <2>1, <3>1
  <2>. QED BY <2>2, <2>3
<1>8. ASSUME NEW s \in Statements, Completes(s) PROVE [Promise!Next]_Promise!promiseVars
  <2>1. PICK state \in {"succeeded", "failed"} :
          remote' = [remote EXCEPT ![s] = [@ EXCEPT !.state = state, !.late = late[s]]]
    BY <1>8 DEF Completes
  <2>. DEFINE e == [remote[s] EXCEPT !.state = state, !.late = late[s]]
  <2>2. e \in Executions /\ e.state = state
    <3>1. remote[s] \in Executions /\ late[s] \in Nat
      BY DEF RoundInv, RoundTypeOK
    <3>. QED BY <3>1 DEF Executions
  <2>3. remote' = [remote EXCEPT ![s] = e] /\ remote[s].state = "running" /\ UNCHANGED run
    BY <1>8, <2>1 DEF Completes
  <2>. HIDE DEF e
  <2>. QED BY <1>3, <2>2, <2>3
<1>9. CASE Start /\ remote[run.at].state # "none"
  <2>1. UNCHANGED remote
    BY <1>1, <1>9 DEF Start, Executions
  <2>. QED BY <1>6, <1>9, <2>1 DEF Start, Running
<1>10. CASE FreshRound \/ Resume \/ Authenticate \/ Catalog \/ NextEntry \/ Answer \/ Observe \/ Compare \/ Final
            \/ FreshAgain \/ ResumeStale \/ CallFails \/ Cancelled \/ RunnerLost
  <2>1. UNCHANGED remote /\ run.pc # "success"
    BY <1>10 DEF FreshRound, FreshAgain, Fresh, Resume, Restore, Authenticate, Catalog, NextEntry, Answer,
                 Observe, Compare, Final, ResumeStale, CallFails, Cancelled, RunnerLost, Going, Running
  <2>. QED BY <1>6, <2>1
<1>11. CASE SnapshotChanges \/ \E s \in Statements : DeadlinePasses(s)
  BY <1>5, <1>11 DEF SnapshotChanges, DeadlinePasses
<1>. QED BY <1>2, <1>7, <1>8, <1>9, <1>10, <1>11 DEF RoundNext, Proceed

(* At first nothing is ingested, published or submitted.                     *)
LEMMA InitRefines == Init => Promise!Init
<1>. SUFFICES ASSUME Init PROVE Promise!Init
  OBVIOUS
<1>1. ledger = {} /\ run.pc # "success" /\ States = [s \in Statements |-> "none"]
  BY DEF Init, IntakeInit, RoundInit, NoRun, NotStarted, States
<1>2. Snapshot = "absent"
  BY PublicationConstants
     DEF Init, PublicationInit, Snapshot, Whole, Present, Keys, Manifest
<1>3. Sighted = {} /\ Confirmed = {}
  BY DEF Init, PublicationInit, Idle, Sighted, Confirmed
<1>. QED BY <1>1, <1>2, <1>3 DEF Promise!Init

(* ImplementsPromise: for any processes, tasks, objects, publishers and      *)
(* statements the landing implements the ledger that overlaps in nothing     *)
(* (intake.py), the snapshot that appears at once (snapshot.py) and the      *)
(* statements that run once and in order (athena_run.py).                    *)
THEOREM LandingImplementsPromise == Spec => ImplementsPromise
<1>1. ASSUME IntakeInv, PubInv, PubInv', RoundInv, CompleteMeansWhole, CompleteMeansWhole',
             RoundIsSequential', [Next]_vars
      PROVE  [Promise!Next]_Promise!promiseVars
  <2>1. CASE IntakeNext /\ UNCHANGED <<publicationVars, roundVars>>
    <3>1. UNCHANGED <<Snapshot, Sighted, Confirmed, States, run.pc = "success">>
      BY <2>1, SnapshotStays DEF publicationVars, roundVars, Sighted, Confirmed, States
    <3>. QED BY <1>1, <2>1, <3>1, IntakeRefines DEF Promise!Next, Promise!promiseVars
  <2>2. CASE PublicationNext /\ UNCHANGED <<intakeVars, roundVars>>
    <3>1. Elsewhere
      BY <2>2 DEF intakeVars, roundVars, Elsewhere, States
    <3>. QED BY <1>1, <2>2, <3>1, PublicationRefines
  <2>3. CASE RoundNext /\ UNCHANGED <<intakeVars, publicationVars>>
    <3>1. Others
      BY <2>3, SnapshotStays DEF intakeVars, publicationVars, Others, Sighted, Confirmed
    <3>. QED BY <1>1, <2>3, <3>1, RoundRefines
  <2>4. CASE UNCHANGED vars
    <3>1. Others /\ UNCHANGED <<States, run.pc = "success">>
      BY <2>4, SnapshotStays
         DEF vars, intakeVars, publicationVars, roundVars, Others, Sighted, Confirmed, States
    <3>. QED BY <3>1 DEF Promise!promiseVars, Others
  <2>. QED BY <1>1, <2>1, <2>2, <2>3, <2>4 DEF Next
<1>. QED
  BY <1>1, IntakeAlways, PubAlways, RoundAlways, SnapshotComplete, Sequential, InitRefines, PTL
     DEF Spec, ImplementsPromise, Promise!Spec
================================================================================
