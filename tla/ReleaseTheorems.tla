---------------------------- MODULE ReleaseTheorems -----------------------------
(***************************************************************************)
(* The third layer of the inductive invariant of ReleaseLifecycle, what    *)
(* HOM knows of the DEV approvals, and the theorems of the whole: each     *)
(* safety and action property of ReleaseProperties, for every value of the *)
(* constants that meets the assumptions, and that ReleaseLifecycle         *)
(* implements StableChannel: under the mapping of ReleaseProperties every  *)
(* step of a job, and every failure or kill, is a step of the channel or   *)
(* leaves it as it was.                                                    *)
(***************************************************************************)
EXTENDS ReleaseProofs

USE DEF Envs, Never, Times

-----------------------------------------------------------------------------
(* Records only accumulate.                                                *)

Growth ==
    /\ \A r \in Releases : /\ validatedAt[r] # Never => validatedAt'[r] = validatedAt[r]
                           /\ approvedAt[r] # Never => approvedAt'[r] = approvedAt[r]
                           /\ mirror[r] \subseteq mirror'[r]
    /\ imported \subseteq imported'
    /\ promoted \subseteq promoted'
    /\ clock' >= clock

\* Immutable records, mirrors and the clock only grow.
LEMMA StepGrows == TypeInv /\ [Next]_vars => Growth
<1>. SUFFICES ASSUME TypeInv, [Next]_vars PROVE Growth
  OBVIOUS
<1>1. clock \in Nat
  BY BoundAssumption DEF TypeInv, TypeOK
<1>2. ASSUME UNCHANGED <<validatedAt, approvedAt, mirror, imported, promoted, clock>> PROVE Growth
  BY <1>1, <1>2 DEF Growth
<1>3. ASSUME NEW r \in Releases, ApproveDev(r) PROVE Growth
  BY <1>1, <1>3 DEF Growth, ApproveDev, registryVars, TypeInv, TypeOK
<1>4. ASSUME NEW e \in Envs, JobStep(e) PROVE Growth
  <2>1. CASE PutApproval
    BY <1>1, <2>1 DEF Growth, PutApproval, registryVars, TypeInv, TypeOK
  <2>2. CASE PutTargetManifest
    BY <1>1, <2>2 DEF Growth, PutTargetManifest, registryVars
  <2>3. CASE PutPromoted
    BY <1>1, <2>3 DEF Growth, PutPromoted, registryVars
  <2>4. ASSUME NEW i \in Images, CopyImage(i) PROVE Growth
    BY <1>1, <2>4 DEF Growth, CopyImage, storeVars, TypeInv, TypeOK
  <2>5. ASSUME NEW i \in Images,
               PutHold(e, i) \/ WriteStable(e, i) \/ PutState(e, i) \/ ReHold(e, i)
        PROVE  Growth
    BY <1>2, <2>5 DEF PutHold, WriteStable, PutState, ReHold, storeVars, registryVars
  <2>6. CASE \/ DecideDev \/ Gates(e) \/ ObserveBefore(e) \/ PutStarted(e)
             \/ FinalReadBack(e) \/ PutCompleted(e)
    BY <1>2, <2>6 DEF DecideDev, Gates, ObserveBefore, PutStarted, FinalReadBack, PutCompleted,
                      storeVars, registryVars
  <2>. QED BY <1>4, <2>1, <2>2, <2>3, <2>4, <2>5, <2>6 DEF JobStep
<1>5. ASSUME NEW e \in Envs, Schedule(e) \/ Dispatch(e) \/ Kill(e) PROVE Growth
  BY <1>2, <1>5 DEF Schedule, Dispatch, Promote, Kill, storeVars, registryVars
<1>6. ASSUME NEW r \in Releases, RecoverHom(r) PROVE Growth
  BY <1>2, <1>6 DEF RecoverHom, storeVars, registryVars
<1>7. ASSUME NEW e \in Envs, NEW i \in Images, AdminWrite(e, i) PROVE Growth
  BY <1>2, <1>7 DEF AdminWrite, storeVars
<1>8. CASE Tick
  BY <1>1, <1>8 DEF Growth, Tick, storeVars, registryVars
<1>9. CASE UNCHANGED vars
  BY <1>2, <1>9 DEF vars
<1>. QED BY <1>3, <1>4, <1>5, <1>6, <1>7, <1>8, <1>9 DEF Next

\* A release that has arrived in HOM stays arrived.
LEMMA ArrivedStays ==
    ASSUME TypeInv, TypeInv', Growth, NEW r \in Releases
    PROVE  (Soaked(r) => Soaked(r)') /\ (Arrived(r) => Arrived(r)')
<1>1. clock \in Nat /\ clock' \in Nat /\ Soak["HOM"] \in Nat
  BY BoundAssumption, PolicyAssumption DEF TypeInv, TypeOK
<1>2. approvedAt[r] \in Nat
  BY BoundAssumption DEF TypeInv, TypeOK
<1>3. Soaked(r) => Soaked(r)'
  BY <1>1, <1>2 DEF Soaked, Growth
<1>. QED BY <1>3 DEF Arrived, Growth

-----------------------------------------------------------------------------
(* What HOM knows of the DEV approvals.                                    *)

Committed == {"observe", "hold", "start", "write", "final", "complete", "receipt", "commit", "rehold"}

\* HomJobArrived without its last conjunct, the receipts.
HomJob ==
    /\ ~At("HOM", "idle") => Soaked(job["HOM"].rel)
    /\ At("HOM", "copy") =>
          Members[job["HOM"].rel] \ job["HOM"].todo \subseteq mirror[job["HOM"].rel]
    /\ At("HOM", "import") => Members[job["HOM"].rel] \subseteq mirror[job["HOM"].rel]
    /\ job["HOM"].pc \in Committed \/ job["HOM"].recovery => Arrived(job["HOM"].rel)

HomInv == HomJob /\ (\A r \in promoted : Arrived(r)) /\ HomServesSoakedApprovals

\* HomInv is the two conjuncts of IInv that relate HOM to the approvals of DEV.
LEMMA HomMeaning == HomInv <=> HomJobArrived /\ HomServesSoakedApprovals
BY DEF HomInv, HomJob, HomJobArrived, Committed

\* A HOM job that does not move, or that ends.
LEMMA HomStill ==
    ASSUME TypeInv, TypeInv', Growth, HomJob, job'["HOM"] \in {job["HOM"], Idle}
    PROVE  HomJob'
<1>1. CASE job'["HOM"] = Idle
  BY <1>1 DEF HomJob, At, Idle, Committed
<1>2. CASE job'["HOM"] = job["HOM"] /\ ~At("HOM", "idle")
  <2>1. job["HOM"].rel \in Releases
    BY <1>2 DEF TypeInv, JobShape
  <2>2. mirror[job["HOM"].rel] \subseteq mirror'[job["HOM"].rel]
    BY <2>1 DEF Growth
  <2>. QED BY <1>2, <2>1, <2>2, ArrivedStays DEF HomJob, At
<1>3. CASE job'["HOM"] = job["HOM"] /\ At("HOM", "idle")
  <2>1. CASE job["HOM"].recovery
    <3>1. Arrived(job["HOM"].rel)
      BY <2>1 DEF HomJob
    <3>2. job["HOM"].rel \in Releases
      BY <3>1 DEF Arrived, TypeInv, TypeOK
    <3>. QED BY <1>3, <3>1, <3>2, ArrivedStays DEF HomJob, At, Committed
  <2>2. CASE ~job["HOM"].recovery
    BY <1>3, <2>2 DEF HomJob, At, Committed
  <2>. QED BY <2>1, <2>2
<1>. QED BY <1>1, <1>2, <1>3

\* A HOM job that keeps its release and goes to a stage its knowledge allows.
LEMMA HomMoves ==
    ASSUME TypeInv, TypeInv', Growth, HomJob, ~At("HOM", "idle"),
           job'["HOM"].rel = job["HOM"].rel, job'["HOM"].recovery = job["HOM"].recovery,
           \/ job["HOM"].pc \in Committed \/ job["HOM"].recovery
           \/ job'["HOM"].pc \in {"gates", "copy", "import"}
           \/ Members[job["HOM"].rel] \subseteq mirror[job["HOM"].rel] /\ job["HOM"].rel \in imported',
           job'["HOM"].pc = "copy" =>
               Members[job["HOM"].rel] \ job'["HOM"].todo \subseteq mirror'[job["HOM"].rel],
           job'["HOM"].pc = "import" => Members[job["HOM"].rel] \subseteq mirror'[job["HOM"].rel]
    PROVE  HomJob'
<1>. DEFINE r == job["HOM"].rel
<1>1. r \in Releases /\ Soaked(r)
  BY DEF TypeInv, JobShape, HomJob
<1>2. Soaked(r)' /\ (Arrived(r) => Arrived(r)') /\ mirror[r] \subseteq mirror'[r]
  BY <1>1, ArrivedStays DEF Growth
<1>3. job'["HOM"].pc \in Committed \/ job'["HOM"].recovery => Arrived(r)'
  <2>1. CASE job["HOM"].pc \in Committed \/ job["HOM"].recovery
    BY <1>2, <2>1 DEF HomJob
  <2>2. CASE Members[r] \subseteq mirror[r] /\ r \in imported'
    BY <1>2, <2>2 DEF Arrived
  <2>3. CASE job'["HOM"].pc \in {"gates", "copy", "import"} /\ ~job["HOM"].recovery
    BY <2>3 DEF Committed
  <2>. QED BY <2>1, <2>2, <2>3
<1>. QED BY <1>2, <1>3 DEF HomJob, At

\* A HOM job that begins.
LEMMA HomBegins ==
    ASSUME TypeInv, TypeInv', Growth, NEW r \in Releases, NEW recovery \in BOOLEAN,
           NEW resume \in BOOLEAN, Begin("HOM", r, recovery, resume),
           Soaked(r), recovery => Arrived(r)
    PROVE  HomJob'
<1>. DEFINE j == [pc |-> "gates", rel |-> r, recovery |-> recovery, resume |-> resume, todo |-> {},
                  before |-> [i \in Images |-> IF i \in Members[r] THEN state["HOM"][i] ELSE Absent]]
<1>1. job' = [job EXCEPT !["HOM"] = j]
  BY DEF Begin
<1>2. job'["HOM"] = j
  BY <1>1 DEF TypeInv, TypeOK
<1>3. job'["HOM"].pc = "gates" /\ job'["HOM"].rel = r /\ job'["HOM"].recovery = recovery
  BY <1>2
<1>. QED BY <1>3, ArrivedStays DEF HomJob, At, Committed

\* What a promotion of HOM chooses has soaked since its DEV approval.
LEMMA ChosenIsSoaked ==
    ASSUME TypeInv, NEW r, NEW requested, NEW hours \in Nat, NEW resume, hours >= Soak["HOM"],
           r \in Eligible("HOM", requested, hours, resume)
    PROVE  r \in Releases /\ Soaked(r)
<1>1. r \in Releases /\ approvedAt[r] # Never /\ approvedAt[r] + hours <= clock
  BY DEF Eligible, Offered, SoakStart
<1>2. approvedAt[r] \in Nat /\ clock \in Nat /\ Soak["HOM"] \in Nat
  BY <1>1, BoundAssumption, PolicyAssumption DEF TypeInv, TypeOK
<1>. QED BY <1>1, <1>2 DEF Soaked

\* Every step keeps what a HOM job knows of its release.
LEMMA HomJobStep ==
    ASSUME TypeInv, TypeInv', Growth, HomInv, Next
    PROVE  HomJob'
<1>1. HomJob
  BY DEF HomInv
<1>2. ASSUME job'["HOM"] \in {job["HOM"], Idle} PROVE HomJob'
  BY <1>1, <1>2, HomStill
<1>3. ASSUME NEW e \in Envs, NEW requested, NEW hours \in Nat, NEW resume \in BOOLEAN,
             hours >= Soak[e], Promote(e, requested, hours, resume)
      PROVE  HomJob'
  <2>1. PICK r \in Eligible(e, requested, hours, resume) : Begin(e, r, FALSE, resume)
    BY <1>3 DEF Promote
  <2>2. CASE e = "HOM"
    BY <1>1, <1>3, <2>1, <2>2, ChosenIsSoaked, HomBegins
  <2>3. CASE e = "DEV"
    BY <1>2, <2>1, <2>3 DEF Begin, TypeInv, TypeOK
  <2>. QED BY <2>2, <2>3
<1>4. ASSUME NEW e \in Envs, Schedule(e) \/ Dispatch(e) PROVE HomJob'
  <2>1. Soak[e] \in Nat /\ Soak[e] >= Soak[e] /\ MaxClock \in Nat
    BY PolicyAssumption, BoundAssumption
  <2>2. CASE Schedule(e)
    <3>1. Promote(e, 0, Soak[e], FALSE) /\ FALSE \in BOOLEAN
      BY <2>2 DEF Schedule
    <3>. QED BY <1>3, <2>1, <3>1
  <2>3. CASE Dispatch(e)
    <3>1. PICK requested \in Releases \cup {0}, resume \in BOOLEAN,
               hours \in IF e = "HOM" THEN Soak[e] .. MaxClock ELSE {Soak[e]} :
            Promote(e, requested, hours, resume)
      BY <2>3 DEF Dispatch
    <3>2. hours \in Nat /\ hours >= Soak[e]
      BY <2>1, <3>1
    <3>. QED BY <1>3, <3>1, <3>2
  <2>. QED BY <1>4, <2>2, <2>3
<1>5. ASSUME NEW r \in Releases, RecoverHom(r) PROVE HomJob'
  BY <1>1, <1>5, HomBegins DEF RecoverHom, HomInv, Arrived
<1>6. ASSUME NEW r \in Releases, ApproveDev(r) PROVE HomJob'
  BY <1>2, <1>6 DEF ApproveDev, TypeInv, TypeOK
<1>7. ASSUME NEW e \in Envs, Kill(e) PROVE HomJob'
  BY <1>2, <1>7 DEF Kill, End, TypeInv, TypeOK
<1>8. ASSUME Tick \/ \E e \in Envs, i \in Images : AdminWrite(e, i) PROVE HomJob'
  BY <1>2, <1>8 DEF Tick, AdminWrite
<1>9. ASSUME DecideDev \/ PutApproval PROVE HomJob'
  BY <1>2, <1>9 DEF DecideDev, PutApproval, Begin, End, TypeInv, TypeOK
<1>10. ASSUME NEW i \in Images, CopyImage(i) PROVE HomJob'
  <2>1. PICK outcome \in Outcomes :
          /\ mirror' = IF Landed(outcome)
                       THEN [mirror EXCEPT ![job["HOM"].rel] = @ \cup {i}] ELSE mirror
          /\ IF outcome = "ok" THEN Done("HOM", i, "import") ELSE End("HOM")
    BY <1>10 DEF CopyImage
  <2>2. CASE outcome # "ok"
    BY <1>2, <2>1, <2>2 DEF End, TypeInv, TypeOK
  <2>3. CASE outcome = "ok"
    <3>1. /\ job["HOM"].pc = "copy" /\ Reached("HOM", i) /\ job["HOM"].rel \in Releases
          /\ job["HOM"].todo \subseteq Target("HOM") /\ ~At("HOM", "idle")
      BY <1>10 DEF CopyImage, At, TypeInv, JobShape, Loops
    <3>2. /\ \/ job["HOM"].todo = {i} /\ job'["HOM"].pc = "import"
             \/ job'["HOM"].pc = "copy" /\ job'["HOM"].todo = job["HOM"].todo \ {i}
          /\ job'["HOM"].rel = job["HOM"].rel /\ job'["HOM"].recovery = job["HOM"].recovery
      BY <2>1, <2>3, <3>1, Rounds DEF Stages
    <3>3. mirror'[job["HOM"].rel] = mirror[job["HOM"].rel] \cup {i}
      BY <2>1, <2>3, <3>1 DEF Landed, TypeInv, TypeOK
    <3>4. Members[job["HOM"].rel] \ job["HOM"].todo \subseteq mirror[job["HOM"].rel]
      BY <1>1, <3>1 DEF HomJob, At
    <3>5. Members[job["HOM"].rel] \ (job["HOM"].todo \ {i}) \subseteq mirror'[job["HOM"].rel]
      BY <3>3, <3>4
    <3>6. /\ job'["HOM"].pc = "copy" =>
               Members[job["HOM"].rel] \ job'["HOM"].todo \subseteq mirror'[job["HOM"].rel]
          /\ job'["HOM"].pc = "import" => Members[job["HOM"].rel] \subseteq mirror'[job["HOM"].rel]
      BY <3>2, <3>5
    <3>. QED BY <1>1, <3>1, <3>2, <3>6, HomMoves
  <2>. QED BY <2>2, <2>3
<1>11. ASSUME PutTargetManifest PROVE HomJob'
  <2>1. PICK outcome \in Outcomes :
          /\ imported' = IF Landed(outcome) THEN imported \cup {job["HOM"].rel} ELSE imported
          /\ IF outcome = "ok" THEN Goto("HOM", "observe") ELSE End("HOM")
    BY <1>11 DEF PutTargetManifest
  <2>2. CASE outcome # "ok"
    BY <1>2, <2>1, <2>2 DEF End, TypeInv, TypeOK
  <2>3. CASE outcome = "ok"
    <3>1. /\ job["HOM"].pc = "import" /\ ~At("HOM", "idle")
          /\ Members[job["HOM"].rel] \subseteq mirror[job["HOM"].rel]
      BY <1>1, <1>11 DEF PutTargetManifest, At, HomJob
    <3>2. job["HOM"].rel \in imported'
      BY <2>1, <2>3 DEF Landed
    <3>3. /\ job'["HOM"].pc = "observe" /\ job'["HOM"].rel = job["HOM"].rel
          /\ job'["HOM"].recovery = job["HOM"].recovery
      BY <2>1, <2>3, Carries DEF Stages
    <3>. QED BY <1>1, <3>1, <3>2, <3>3, HomMoves
  <2>. QED BY <2>2, <2>3
<1>12. ASSUME NEW stage \in Stages, Goto("HOM", stage), ~At("HOM", "idle"),
              \/ job["HOM"].pc = "gates" /\ stage = "copy"
              \/ job["HOM"].pc = "gates" /\ stage = "observe" /\ job["HOM"].recovery
              \/ job["HOM"].pc \in Committed /\ stage \in Committed
       PROVE  HomJob'
  <2>1. /\ job'["HOM"].pc = stage /\ job'["HOM"].rel = job["HOM"].rel
        /\ job'["HOM"].recovery = job["HOM"].recovery /\ job'["HOM"].todo = Target("HOM")
    BY <1>12, Carries
  <2>2. /\ job'["HOM"].pc = "copy" =>
              Members[job["HOM"].rel] \ job'["HOM"].todo \subseteq mirror'[job["HOM"].rel]
        /\ job'["HOM"].pc # "import"
    BY <1>12, <2>1 DEF Committed, Target
  <2>. QED BY <1>1, <1>12, <2>1, <2>2, HomMoves
<1>13. ASSUME NEW i \in Images, NEW stage \in Stages, Done("HOM", i, stage), Reached("HOM", i),
              job["HOM"].pc \in Committed \cap Loops, stage \in Committed
       PROVE  HomJob'
  <2>1. job["HOM"].todo \subseteq Target("HOM") /\ ~At("HOM", "idle")
    BY <1>13 DEF TypeInv, JobShape, Committed, At
  <2>2. /\ job'["HOM"].pc \in {job["HOM"].pc, stage}
        /\ job'["HOM"].rel = job["HOM"].rel /\ job'["HOM"].recovery = job["HOM"].recovery
    BY <1>13, <2>1, Rounds
  <2>3. job'["HOM"].pc # "copy" /\ job'["HOM"].pc # "import"
    BY <1>13, <2>2 DEF Committed
  <2>. QED BY <1>1, <1>13, <2>1, <2>2, <2>3, HomMoves
<1>14. ASSUME End("HOM") PROVE HomJob'
  BY <1>2, <1>14 DEF End, TypeInv, TypeOK
<1>15. ASSUME PutPromoted PROVE HomJob'
  BY <1>12, <1>15 DEF PutPromoted, Committed, Stages, At
<1>16. ASSUME \/ Gates("HOM") \/ ObserveBefore("HOM") \/ PutStarted("HOM")
              \/ FinalReadBack("HOM") \/ PutCompleted("HOM")
       PROVE  HomJob'
  BY <1>12, <1>14, <1>16 DEF Gates, ObserveBefore, PutStarted, FinalReadBack, PutCompleted,
                             Committed, Stages, At
<1>17. ASSUME NEW i \in Images, \/ PutHold("HOM", i) \/ WriteStable("HOM", i)
                                \/ PutState("HOM", i) \/ ReHold("HOM", i)
       PROVE  HomJob'
  <2>1. job["HOM"].pc \in {"hold", "write", "commit", "rehold"} /\ Reached("HOM", i)
    BY <1>17 DEF PutHold, WriteStable, PutState, ReHold, At
  <2>2. \/ End("HOM") \/ Goto("HOM", "rehold")
        \/ \E stage \in {"start", "final", "commit", "rehold"} : Done("HOM", i, stage)
    BY <1>17 DEF PutHold, WriteStable, PutState, ReHold
  <2>. QED BY <1>12, <1>13, <1>14, <2>1, <2>2 DEF Committed, Loops, Stages, At
<1>18. ASSUME \/ Gates("DEV") \/ ObserveBefore("DEV") \/ PutStarted("DEV")
              \/ FinalReadBack("DEV") \/ PutCompleted("DEV")
              \/ \E i \in Images : \/ PutHold("DEV", i) \/ WriteStable("DEV", i)
                                   \/ PutState("DEV", i) \/ ReHold("DEV", i)
       PROVE  HomJob'
  <2>1. \/ End("DEV") \/ \E stage \in Stages : Goto("DEV", stage)
        \/ \E i \in Images, stage \in Stages : Done("DEV", i, stage)
    BY <1>18 DEF Gates, ObserveBefore, PutStarted, FinalReadBack, PutCompleted, PutHold,
                 WriteStable, PutState, ReHold, Stages
  <2>2. job'["HOM"] = job["HOM"]
    BY <2>1 DEF End, Goto, Done, TypeInv, TypeOK
  <2>. QED BY <1>2, <2>2
<1>19. ASSUME NEW e \in Envs, JobStep(e) PROVE HomJob'
  BY <1>9, <1>10, <1>11, <1>15, <1>16, <1>17, <1>18, <1>19 DEF JobStep
<1>. QED BY <1>4, <1>5, <1>6, <1>7, <1>8, <1>19 DEF Next

\* Only publish_states writes a receipt, only complete_dev an approval.
LEMMA PromotedBy ==
    ASSUME Next
    PROVE  promoted' = promoted \/ PutPromoted
<1>1. ASSUME NEW e \in Envs, JobStep(e) PROVE promoted' = promoted \/ PutPromoted
  <2>1. ASSUME NEW i \in Images, \/ CopyImage(i) \/ PutHold(e, i) \/ WriteStable(e, i)
                                 \/ PutState(e, i) \/ ReHold(e, i)
        PROVE  promoted' = promoted
    BY <2>1 DEF CopyImage, PutHold, WriteStable, PutState, ReHold, storeVars
  <2>. QED BY <1>1, <2>1 DEF JobStep, DecideDev, PutApproval, PutTargetManifest, Gates,
             ObserveBefore, PutStarted, FinalReadBack, PutCompleted, storeVars
<1>2. ASSUME NEW e \in Envs, Schedule(e) \/ Dispatch(e) \/ Kill(e) PROVE promoted' = promoted
  BY <1>2 DEF Schedule, Dispatch, Promote, Kill, storeVars
<1>3. ASSUME \/ Tick \/ \E r \in Releases : ApproveDev(r) \/ RecoverHom(r)
             \/ \E e \in Envs, i \in Images : AdminWrite(e, i)
      PROVE  promoted' = promoted
  BY <1>3 DEF Tick, ApproveDev, RecoverHom, AdminWrite, storeVars
<1>. QED BY <1>1, <1>2, <1>3 DEF Next

\* Only the last step of complete_dev writes an approval.
LEMMA ApprovedBy ==
    ASSUME Next
    PROVE  approvedAt' = approvedAt \/ PutApproval
<1>1. ASSUME NEW e \in Envs, JobStep(e) PROVE approvedAt' = approvedAt \/ PutApproval
  <2>1. ASSUME NEW i \in Images, \/ CopyImage(i) \/ PutHold(e, i) \/ WriteStable(e, i)
                                 \/ PutState(e, i) \/ ReHold(e, i)
        PROVE  approvedAt' = approvedAt
    BY <2>1 DEF CopyImage, PutHold, WriteStable, PutState, ReHold, storeVars
  <2>. QED BY <1>1, <2>1 DEF JobStep, DecideDev, PutPromoted, PutTargetManifest, Gates,
             ObserveBefore, PutStarted, FinalReadBack, PutCompleted, storeVars
<1>2. ASSUME NEW e \in Envs, Schedule(e) \/ Dispatch(e) \/ Kill(e) PROVE approvedAt' = approvedAt
  BY <1>2 DEF Schedule, Dispatch, Promote, Kill, storeVars
<1>3. ASSUME \/ Tick \/ \E r \in Releases : ApproveDev(r) \/ RecoverHom(r)
             \/ \E e \in Envs, i \in Images : AdminWrite(e, i)
      PROVE  approvedAt' = approvedAt
  BY <1>3 DEF Tick, ApproveDev, RecoverHom, AdminWrite, storeVars
<1>. QED BY <1>1, <1>2, <1>3 DEF Next

\* A receipt is only put for a release that has arrived, and stays sound.
LEMMA ReceiptStep ==
    ASSUME TypeInv, TypeInv', Growth, HomInv, Next
    PROVE  \A r \in promoted' : Arrived(r)'
<1>1. promoted' = promoted \/ PutPromoted
  BY PromotedBy
<1>2. \A r \in promoted : r \in Releases /\ Arrived(r)'
  BY ArrivedStays DEF HomInv, TypeInv, TypeOK
<1>3. CASE PutPromoted
  <2>1. promoted' \subseteq promoted \cup {job["HOM"].rel} /\ job["HOM"].pc = "receipt"
    BY <1>3 DEF PutPromoted, At
  <2>2. job["HOM"].rel \in Releases /\ Arrived(job["HOM"].rel)
    BY <2>1 DEF HomInv, HomJob, Committed, TypeInv, JobShape, At
  <2>. QED BY <1>2, <2>1, <2>2, ArrivedStays
<1>. QED BY <1>1, <1>2, <1>3

\* HOM stable moves only to a release that has arrived, and an arrived one stays so.
LEMMA HomServesStep ==
    ASSUME TypeInv, TypeInv', Growth, HomInv, Next
    PROVE  HomServesSoakedApprovals'
<1>1. \/ UNCHANGED <<stable, tampered>>
      \/ \E e \in Envs, i \in Images : WriteStable(e, i) \/ AdminWrite(e, i)
  <2>1. ASSUME NEW e \in Envs, JobStep(e)
        PROVE  UNCHANGED <<stable, tampered>> \/ \E i \in Images : WriteStable(e, i)
    <3>1. ASSUME NEW i \in Images,
                 CopyImage(i) \/ PutHold(e, i) \/ PutState(e, i) \/ ReHold(e, i)
          PROVE  UNCHANGED <<stable, tampered>>
      BY <3>1 DEF CopyImage, PutHold, PutState, ReHold, registryVars
    <3>. QED BY <2>1, <3>1 DEF JobStep, DecideDev, PutApproval, PutTargetManifest, PutPromoted,
               Gates, ObserveBefore, PutStarted, FinalReadBack, PutCompleted, registryVars
  <2>2. ASSUME NEW e \in Envs, Schedule(e) \/ Dispatch(e) \/ Kill(e)
        PROVE  UNCHANGED <<stable, tampered>>
    BY <2>2 DEF Schedule, Dispatch, Promote, Kill, registryVars
  <2>3. ASSUME Tick \/ \E r \in Releases : ApproveDev(r) \/ RecoverHom(r)
        PROVE  UNCHANGED <<stable, tampered>>
    BY <2>3 DEF Tick, ApproveDev, RecoverHom, registryVars
  <2>. QED BY <2>1, <2>2, <2>3 DEF Next
<1>2. HomServesSoakedApprovals
  BY DEF HomInv
<1>3. ASSUME NEW r \in imported PROVE r \in Releases /\ (Arrived(r) => Arrived(r)')
  BY ArrivedStays DEF TypeInv, TypeOK
<1>4. approvedAt \in [Releases -> Times \cup {Never}] /\ clock \in Times /\ Soak["HOM"] \in Nat
  BY PolicyAssumption DEF TypeInv, TypeOK
<1>5. ASSUME NEW i \in Images, i \notin tampered'["HOM"], stable'["HOM"][i] # NoDigest,
             stable'["HOM"][i] = stable["HOM"][i], i \notin tampered["HOM"]
      PROVE  \E r \in imported' : /\ i \in Members[r]
                                  /\ stable'["HOM"][i] = Digest[r][i]
                                  /\ Arrived(r)'
  <2>1. PICK r \in imported : /\ i \in Members[r]
                              /\ stable["HOM"][i] = Digest[r][i]
                              /\ approvedAt[r] + Soak["HOM"] <= clock
                              /\ Members[r] \subseteq mirror[r]
    BY <1>2, <1>5 DEF HomServesSoakedApprovals
  <2>2. approvedAt[r] # Never
    BY <1>3, <1>4, <2>1, BoundAssumption
  <2>3. Arrived(r)
    BY <2>1, <2>2 DEF Arrived, Soaked
  <2>. QED BY <1>3, <1>5, <2>1, <2>3 DEF Growth
<1>6. ASSUME NEW i \in Images, i \notin tampered'["HOM"], stable'["HOM"][i] # NoDigest
      PROVE  \E r \in imported' : /\ i \in Members[r]
                                  /\ stable'["HOM"][i] = Digest[r][i]
                                  /\ Arrived(r)'
  <2>1. CASE UNCHANGED <<stable, tampered>>
    BY <1>5, <1>6, <2>1
  <2>2. ASSUME NEW e \in Envs, NEW k \in Images, AdminWrite(e, k)
        PROVE  stable'["HOM"][i] = stable["HOM"][i] /\ i \notin tampered["HOM"]
    BY <1>6, <2>2 DEF AdminWrite, TypeInv, TypeOK
  <2>3. ASSUME NEW e \in Envs, NEW k \in Images, WriteStable(e, k), e # "HOM" \/ k # i
        PROVE  stable'["HOM"][i] = stable["HOM"][i] /\ i \notin tampered["HOM"]
    BY <1>6, <2>3 DEF WriteStable, TypeInv, TypeOK
  <2>4. ASSUME WriteStable("HOM", i)
        PROVE  \/ UNCHANGED <<stable, tampered>>
               \/ \E r \in imported' : /\ i \in Members[r]
                                       /\ stable'["HOM"][i] = Digest[r][i]
                                       /\ Arrived(r)'
    <3>1. /\ job["HOM"].pc = "write" /\ i \in Members[job["HOM"].rel]
          /\ job["HOM"].rel \in Releases
      BY <2>4 DEF WriteStable, At, Reached, TypeInv, JobShape, Loops, Target
    <3>2. CASE stable' = [stable EXCEPT !["HOM"][i] = Digest[job["HOM"].rel][i]]
      <4>1. stable'["HOM"][i] = Digest[job["HOM"].rel][i]
        BY <3>2 DEF TypeInv, TypeOK
      <4>2. Arrived(job["HOM"].rel)
        BY <3>1 DEF HomInv, HomJob, Committed
      <4>. QED BY <3>1, <4>1, <4>2, ArrivedStays DEF Arrived
    <3>. QED BY <2>4, <3>2 DEF WriteStable
  <2>. QED BY <1>1, <1>5, <1>6, <2>1, <2>2, <2>3, <2>4
<1>. QED BY <1>6 DEF HomServesSoakedApprovals, Arrived, Soaked

-----------------------------------------------------------------------------
(* The invariant, and what follows from it.                                *)

FullInv == LocalInv /\ HomInv

\* FullInv is IInv, the invariant the runs check.
LEMMA FullMeaning == FullInv <=> IInv
BY LocalMeaning, HomMeaning DEF FullInv, IInv

\* Initially the whole inductive invariant holds.
LEMMA FullInit == Init => FullInv
<1>. SUFFICES ASSUME Init PROVE FullInv
  OBVIOUS
<1>1. LocalInv
  BY LocalInit
<1>2. HomInv
  BY DEF Init, HomInv, HomJob, At, Idle, Committed, HomServesSoakedApprovals
<1>. QED BY <1>1, <1>2 DEF FullInv

\* Every step keeps the whole inductive invariant.
LEMMA FullStep == FullInv /\ [Next]_vars => FullInv'
<1>. SUFFICES ASSUME FullInv, [Next]_vars PROVE FullInv'
  OBVIOUS
<1>1. LocalInv'
  BY LocalStep DEF FullInv
<1>2. TypeInv /\ TypeInv' /\ Growth /\ HomInv
  BY <1>1, StepGrows DEF FullInv, LocalInv
<1>3. CASE Next
  BY <1>1, <1>2, <1>3, HomJobStep, ReceiptStep, HomServesStep DEF FullInv, HomInv
<1>4. CASE UNCHANGED vars
  <2>1. HomInv'
    BY <1>2, <1>4 DEF HomInv, HomJob, Arrived, Soaked, At, HomServesSoakedApprovals, vars
  <2>. QED BY <1>1, <2>1 DEF FullInv
<1>. QED BY <1>3, <1>4

\* The conjunction of everything a job knows is inductive: it holds in every
\* state of every behaviour.
THEOREM Inductive == Spec => []IInv
<1>1. Spec => []FullInv
  BY FullInit, FullStep, PTL DEF Spec
<1>. QED BY <1>1, FullMeaning, PTL

\* Whatever fails or is killed, an image that is not on hold serves the digest
\* its record names.
THEOREM TagsAreRecorded == Spec => []UnheldTagIsRecorded
<1>1. IInv => UnheldTagIsRecorded
  BY DEF IInv
<1>. QED BY <1>1, Inductive, PTL

\* The members of a unit that are not on hold are of one release.
THEOREM UnitsAreOneRelease == Spec => []UnheldUnitIsOneRelease
<1>1. IInv => UnheldUnitIsOneRelease
  BY DEF IInv
<1>. QED BY <1>1, Inductive, PTL

\* No failure or recovery takes a watermark below a release that was promoted.
THEOREM WatermarksAreKept == Spec => []PassedKeepsWatermark
<1>1. IInv => PassedKeepsWatermark
  BY DEF IInv
<1>. QED BY <1>1, Inductive, PTL

\* HOM serves only digests of DEV-approved releases that soaked and arrived.
THEOREM HomIsSoaked == Spec => []HomServesSoakedApprovals
<1>1. IInv => HomServesSoakedApprovals
  BY DEF IInv
<1>. QED BY <1>1, Inductive, PTL

\* A promotion receipt always names a release recover_hom can bring back.
THEOREM ReceiptsAreRecoverable == Spec => []ReceiptIsRecoverable
<1>1. IInv => ReceiptIsRecoverable
  BY DEF IInv, HomJobArrived, Arrived, Soaked, ReceiptIsRecoverable
<1>. QED BY <1>1, Inductive, PTL

\* Every member is on hold from before the first tag write to the moment its
\* own record is rewritten.
THEOREM HoldsCoverWrites == Spec => []EveryMemberHeldWhileWriting
<1>1. FullInv => EveryMemberHeldWhileWriting
  <2>. SUFFICES ASSUME FullInv, NEW e \in Envs
                PROVE  /\ job[e].pc \in {"start", "write", "final", "complete", "receipt"} =>
                             \A i \in Target(e) : state[e][i].hold
                       /\ job[e].pc = "commit" => \A i \in job[e].todo : state[e][i].hold
    BY DEF EveryMemberHeldWhileWriting
  <2>1. TypeInv /\ JobInv(e)
    BY DEF FullInv, LocalInv
  <2>2. ~At(e, "idle") => Target(e) \subseteq Images
    BY <2>1, ContentAssumption DEF Target, TypeInv, JobShape
  <2>3. \A i \in Images : Held(e, i).hold = TRUE
    BY <2>1, RecordFields
  <2>4. job[e].pc = "commit" => job[e].todo \subseteq Target(e)
    BY <2>1 DEF TypeInv, JobShape, Loops
  <2>5. CASE job[e].pc \in {"start", "write", "final", "complete", "receipt"}
    BY <2>1, <2>2, <2>3, <2>5 DEF JobInv, At
  <2>6. CASE job[e].pc = "commit"
    BY <2>1, <2>2, <2>3, <2>4, <2>6 DEF JobInv, At
  <2>. QED BY <2>5, <2>6
<1>. QED BY <1>1, FullMeaning, Inductive, PTL

\* A receipt is written only when every member of the release is in place.
THEOREM ReceiptsAreWhole == Spec => ReceiptOnlyWhenWhole
<1>1. FullInv /\ [Next]_vars => [\A r \in promoted' \ promoted : Serves("HOM", r)]_vars
  <2>. SUFFICES ASSUME FullInv, Next PROVE \A r \in promoted' \ promoted : Serves("HOM", r)
    OBVIOUS
  <2>1. promoted' = promoted \/ PutPromoted
    BY PromotedBy
  <2>2. CASE PutPromoted
    <3>1. promoted' \subseteq promoted \cup {job["HOM"].rel} /\ job["HOM"].pc = "receipt"
      BY <2>2 DEF PutPromoted, At
    <3>2. Serves("HOM", job["HOM"].rel)
      BY <3>1 DEF FullInv, LocalInv, JobInv
    <3>. QED BY <3>1, <3>2
  <2>. QED BY <2>1, <2>2
<1>. QED BY <1>1, FullMeaning, Inductive, PTL DEF Spec, ReceiptOnlyWhenWhole

\* The DEV manifest is written only when every member is in place, released.
THEOREM ApprovalsAreWhole == Spec => ApprovalOnlyWhenWhole
<1>1. ASSUME FullInv, Next, NEW r \in Releases, approvedAt'[r] # approvedAt[r]
      PROVE  /\ Serves("DEV", r)
             /\ \A i \in Members[r] : state["DEV"][i].rel = r /\ ~state["DEV"][i].hold
  <2>1. PutApproval
    BY <1>1, ApprovedBy
  <2>2. job["DEV"].pc = "approve" /\ r = job["DEV"].rel
    BY <1>1, <2>1 DEF PutApproval, At, FullInv, LocalInv, TypeInv, TypeOK
  <2>3. /\ Serves("DEV", r)
        /\ \A i \in Members[r] : state["DEV"][i] = Released("DEV", i)
    BY <1>1, <2>2 DEF FullInv, LocalInv, JobInv, At, Target
  <2>4. job["DEV"].recovery = FALSE
    BY <1>1 DEF FullInv, LocalInv, TypeInv, TypeOK, JobShape, Job
  <2>5. Members[r] \subseteq Images
    BY ContentAssumption
  <2>6. \A i \in Members[r] : Released("DEV", i).rel = r /\ Released("DEV", i).hold = FALSE
    BY <1>1, <2>2, <2>4, <2>5, RecordFields DEF FullInv, LocalInv
  <2>. QED BY <2>3, <2>6
<1>2. FullInv /\ [Next]_vars =>
        [\A r \in Releases : approvedAt'[r] # approvedAt[r] =>
            /\ Serves("DEV", r)
            /\ \A i \in Members[r] : state["DEV"][i].rel = r /\ ~state["DEV"][i].hold]_vars
  BY <1>1
<1>. QED BY <1>2, FullMeaning, Inductive, PTL DEF Spec, ApprovalOnlyWhenWhole

\* Only a record that publish_states rewrites at its end can come off hold.
LEMMA LiftedBy ==
    ASSUME FullInv, Next, NEW e \in Envs, NEW i \in Images,
           state[e][i].hold, ~state'[e][i].hold
    PROVE  PutState(e, i) /\ state'[e][i] = Released(e, i)
<1>1. TypeInv
  BY DEF FullInv, LocalInv
<1>2. UNCHANGED state \/ \E f \in Envs, k \in Images : PutHold(f, k) \/ PutState(f, k) \/ ReHold(f, k)
  <2>1. ASSUME NEW f \in Envs, JobStep(f)
        PROVE  \/ UNCHANGED state
               \/ \E k \in Images : PutHold(f, k) \/ PutState(f, k) \/ ReHold(f, k)
    <3>1. ASSUME NEW k \in Images, CopyImage(k) \/ WriteStable(f, k) PROVE UNCHANGED state
      BY <3>1 DEF CopyImage, WriteStable, storeVars
    <3>. QED BY <2>1, <3>1 DEF JobStep, DecideDev, PutApproval, PutTargetManifest, PutPromoted,
               Gates, ObserveBefore, PutStarted, FinalReadBack, PutCompleted, storeVars
  <2>2. ASSUME NEW f \in Envs, Schedule(f) \/ Dispatch(f) \/ Kill(f) PROVE UNCHANGED state
    BY <2>2 DEF Schedule, Dispatch, Promote, Kill, storeVars
  <2>3. ASSUME \/ Tick \/ \E r \in Releases : ApproveDev(r) \/ RecoverHom(r)
               \/ \E f \in Envs, k \in Images : AdminWrite(f, k)
        PROVE  UNCHANGED state
    BY <2>3 DEF Tick, ApproveDev, RecoverHom, AdminWrite, storeVars
  <2>. QED BY <2>1, <2>2, <2>3 DEF Next
<1>3. PICK f \in Envs, k \in Images : PutHold(f, k) \/ PutState(f, k) \/ ReHold(f, k)
  BY <1>2
<1>4. Held(f, k).hold = TRUE
  BY <1>1, RecordFields
<1>5. \/ UNCHANGED state
      \/ state' = [state EXCEPT ![f][k] = Held(f, k)]
      \/ PutState(f, k) /\ state' = [state EXCEPT ![f][k] = Released(f, k)]
  BY <1>3 DEF PutHold, PutState, ReHold
<1>6. CASE state' = [state EXCEPT ![f][k] = Held(f, k)]
  BY <1>1, <1>4, <1>6 DEF TypeInv, TypeOK
<1>7. CASE PutState(f, k) /\ state' = [state EXCEPT ![f][k] = Released(f, k)]
  BY <1>1, <1>7 DEF TypeInv, TypeOK
<1>. QED BY <1>5, <1>6, <1>7

\* A hold comes off only at the end of a promotion whose members are all in
\* place; a hold that was there before it, only by an explicit resume.
THEOREM HoldsAreLiftedBySuccess == Spec => HoldLiftedBySuccess
<1>1. ASSUME FullInv, Next, NEW e \in Envs, NEW i \in Images,
             state[e][i].hold, ~state'[e][i].hold
      PROVE  /\ ~job[e].recovery
             /\ Serves(e, job[e].rel)
             /\ job[e].before[i].hold => job[e].resume
  <2>1. PutState(e, i) /\ state'[e][i] = Released(e, i)
    BY <1>1, LiftedBy
  <2>2. TypeInv /\ JobInv(e)
    BY <1>1 DEF FullInv, LocalInv
  <2>3. job[e].pc = "commit" /\ i \in Target(e)
    BY <2>1, <2>2 DEF PutState, At, Reached, TypeInv, JobShape, Loops
  <2>4. Released(e, i).hold = job[e].recovery
    BY <2>2, RecordFields
  <2>5. ~job[e].recovery
    BY <1>1, <2>1, <2>4
  <2>6. /\ Serves(e, job[e].rel)
        /\ job[e].before[i].hold => job[e].resume \/ job[e].recovery
    BY <2>2, <2>3 DEF JobInv
  <2>. QED BY <2>5, <2>6
<1>2. FullInv /\ [Next]_vars =>
        [\A e \in Envs, i \in Images : state[e][i].hold /\ ~state'[e][i].hold =>
            /\ ~job[e].recovery
            /\ Serves(e, job[e].rel)
            /\ job[e].before[i].hold => job[e].resume]_vars
  BY <1>1
<1>. QED BY <1>2, FullMeaning, Inductive, PTL DEF Spec, HoldLiftedBySuccess

-----------------------------------------------------------------------------
(* The refinement: what the channel shows of the records.                  *)

USE DEF Channel!Destinations

Approved == {r \in Releases : approvedAt[r] # Never}
Ships(r) == {u \in Units : u \subseteq Members[r]}

\* A unit with a member on hold shows nothing; any other, the release that each
\* of its members is recorded to serve.
LEMMA ShownValue ==
    ASSUME NEW e \in Envs, NEW u \in Units, RestInv(e)
    PROVE  /\ (\E i \in u : state[e][i].hold) => Shown[e][u] = {}
           /\ \A i \in u : (\A j \in u : ~state[e][j].hold) => Shown[e][u] = {state[e][i].rel}
<1>1. Shown[e][u] = IF \E i \in u : state[e][i].hold THEN {} ELSE {state[e][i].rel : i \in u}
  BY DEF Shown
<1>2. ASSUME NEW i \in u, \A j \in u : ~state[e][j].hold
      PROVE  {state[e][j].rel : j \in u} = {state[e][i].rel}
  BY <1>2 DEF RestInv
<1>. QED BY <1>1, <1>2

\* Writing the record of one image can only change what its own unit shows.
LEMMA ShownLocal ==
    ASSUME NEW e \in Envs, NEW i \in Images, NEW u \in Units, i \in u,
           \A f \in Envs \ {e} : state'[f] = state[f],
           \A k \in Images \ {i} : state'[e][k] = state[e][k]
    PROVE  Shown' = [Shown EXCEPT ![e][u] = Shown'[e][u]]
<1>1. \A f \in Envs : f # e => \A v \in Units : Shown'[f][v] = Shown[f][v]
  BY DEF Shown
<1>2. ASSUME NEW v \in Units, v # u PROVE Shown'[e][v] = Shown[e][v]
  <2>1. i \notin v /\ v \subseteq Images
    BY <1>2, UnitAssumption
  <2>2. \A k \in v : state'[e][k] = state[e][k]
    BY <2>1
  <2>3. /\ (\E k \in v : state'[e][k].hold) <=> (\E k \in v : state[e][k].hold)
        /\ {state'[e][k].rel : k \in v} = {state[e][k].rel : k \in v}
    BY <2>2
  <2>. QED BY <2>3 DEF Shown
<1>3. /\ Shown = [f \in Envs |-> [v \in Units |-> Shown[f][v]]]
      /\ Shown' = [f \in Envs |-> [v \in Units |-> Shown'[f][v]]]
  BY DEF Shown
<1>. HIDE DEF Shown
<1>4. [Shown EXCEPT ![e][u] = Shown'[e][u]] =
        [f \in Envs |-> [v \in Units |-> IF f = e /\ v = u THEN Shown'[e][u] ELSE Shown[f][v]]]
  BY <1>3
<1>5. \A f \in Envs, v \in Units :
        Shown'[f][v] = IF f = e /\ v = u THEN Shown'[e][u] ELSE Shown[f][v]
  BY <1>1, <1>2
<1>. QED BY <1>3, <1>4, <1>5

\* Nothing the channel shows depends on the rest of the state.
LEMMA ShownStill ==
    ASSUME UNCHANGED <<state, passed, approvedAt>>
    PROVE  UNCHANGED <<Shown, passed, Approved>>
BY DEF Shown, Approved

-----------------------------------------------------------------------------
(* Initial states.                                                         *)

\* The seeded history of DEV and the empty HOM are initial states of the channel.
LEMMA RefineInit == Init => Channel!Init
<1>. SUFFICES ASSUME Init PROVE Channel!Init
  OBVIOUS
<1>1. LocalInv
  BY LocalInit
<1>2. \A e \in Envs, i \in Images : state[e][i].hold = FALSE
  BY DEF Init, Absent
<1>3. \A i \in Images : state["HOM"][i].rel = 0
  BY DEF Init, Absent
<1>4. \A i \in Images : /\ state["DEV"][i].rel = LastSeeded(i)
                        /\ state["DEV"][i].mark = LastSeeded(i)
                        /\ LastSeeded(i) \in Releases \cup {0}
  BY LastSeededType, ReleaseAssumption DEF Init, Absent
<1>5. passed = [e \in Envs |-> IF e = "DEV" THEN Seeded ELSE {}]
  BY DEF Init
<1>6. ASSUME NEW e \in Envs, NEW u \in Units
      PROVE  \E i \in u : i \in Images /\ Shown[e][u] = {state[e][i].rel}
  <2>1. u \subseteq Images /\ u # {}
    BY UnitAssumption
  <2>2. \A j \in u : ~state[e][j].hold
    BY <1>2, <2>1
  <2>3. RestInv(e)
    BY <1>1 DEF LocalInv
  <2>. QED BY <2>1, <2>2, <2>3, ShownValue
<1>7. Shown \in [Envs -> [Units -> {{r} : r \in Releases \cup {0}}]]
  <2>1. \A e \in Envs, u \in Units : Shown[e][u] \in {{r} : r \in Releases \cup {0}}
    BY <1>3, <1>4, <1>6
  <2>2. Shown = [e \in Envs |-> [u \in Units |-> Shown[e][u]]]
    BY DEF Shown
  <2>. HIDE DEF Shown
  <2>. QED BY <2>1, <2>2
<1>8. \A u \in Units : Shown["HOM"][u] = {0}
  BY <1>3, <1>6
<1>10. passed \in [Envs -> SUBSET Releases]
  BY <1>1 DEF LocalInv, TypeInv, TypeOK
<1>9. ASSUME NEW e \in Envs, NEW u \in Units, NEW r \in Shown[e][u], NEW q \in passed[e],
             u \in Ships(q)
      PROVE  q <= r
  <2>1. e = "DEV"
    BY <1>5, <1>9
  <2>2. PICK i \in u : i \in Images /\ Shown[e][u] = {state[e][i].rel}
    BY <1>6
  <2>3. state[e][i].mark >= q
    BY <1>1, <1>9, <2>2 DEF LocalInv, RestInv, Ships
  <2>4. r = state[e][i].mark
    BY <1>4, <2>1, <2>2
  <2>5. q \in Nat /\ r \in Nat
    <3>1. q \in Releases /\ r \in Releases \cup {0}
      BY <1>4, <1>10, <2>1, <2>2, <2>4
    <3>2. Releases \subseteq Nat /\ 0 \in Nat
      BY ReleaseAssumption
    <3>. QED BY <3>1, <3>2
  <2>. QED BY <2>3, <2>4, <2>5
<1>11. \A e \in Envs, u \in Units : \A r \in Shown[e][u] : Channel!Behind(e, u, r)
  BY <1>9, <1>10 DEF Channel!Behind, Ships
<1>. QED BY <1>7, <1>8, <1>10, <1>11 DEF Channel!Init

-----------------------------------------------------------------------------
(* Steps.                                                                  *)

Implements == Channel!Next \/ UNCHANGED <<Shown, passed, Approved>>

\* A hold pauses the unit of the image, if it was not paused already.
LEMMA HoldImplements ==
    ASSUME FullInv, NEW e \in Envs, NEW i \in Images, PutHold(e, i) \/ ReHold(e, i)
    PROVE  Implements
<1>1. TypeInv
  BY DEF FullInv, LocalInv
<1>2. PICK u \in Units : i \in u
  BY UnitAssumption
<1>3. /\ UNCHANGED <<passed, approvedAt>>
      /\ UNCHANGED state \/ state' = [state EXCEPT ![e][i] = Held(e, i)]
  BY DEF PutHold, ReHold
<1>4. CASE UNCHANGED state
  BY <1>3, <1>4, ShownStill DEF Implements
<1>5. CASE state' = [state EXCEPT ![e][i] = Held(e, i)]
  <2>1. /\ \A f \in Envs \ {e} : state'[f] = state[f]
        /\ \A k \in Images \ {i} : state'[e][k] = state[e][k]
        /\ state'[e][i] = Held(e, i)
    BY <1>1, <1>5 DEF TypeInv, TypeOK
  <2>2. Held(e, i).hold = TRUE
    BY <1>1, RecordFields
  <2>3. Shown'[e][u] = {}
    BY <1>2, <2>1, <2>2 DEF Shown
  <2>4. Shown' = [Shown EXCEPT ![e][u] = {}]
    BY <1>2, <2>1, <2>3, ShownLocal
  <2>5. CASE Shown[e][u] # {}
    BY <1>3, <2>4, <2>5 DEF Implements, Channel!Next, Channel!Pause
  <2>6. CASE Shown[e][u] = {}
    <3>1. Shown = [f \in Envs |-> [v \in Units |-> Shown[f][v]]]
      BY DEF Shown
    <3>. HIDE DEF Shown
    <3>2. Shown' = Shown
      BY <2>4, <2>6, <3>1
    <3>. QED BY <1>3, <3>2 DEF Implements, Approved
  <2>. QED BY <2>5, <2>6
<1>. QED BY <1>3, <1>4, <1>5

\* A promotion's record brings its unit back once its last member is rewritten.
LEMMA PutStateImplements ==
    ASSUME FullInv, NEW e \in Envs, NEW i \in Images, PutState(e, i)
    PROVE  Implements
<1>. DEFINE r == job[e].rel
<1>1. TypeInv /\ RestInv(e) /\ JobInv(e)
  BY DEF FullInv, LocalInv
<1>2. PICK u \in Units : i \in u
  BY UnitAssumption
<1>3. PICK outcome \in Outcomes :
        /\ state' = IF Landed(outcome) THEN [state EXCEPT ![e][i] = Released(e, i)] ELSE state
        /\ CASE outcome # "ok" -> Goto(e, "rehold") /\ UNCHANGED passed
             [] outcome = "ok" /\ job[e].todo # {i} -> Done(e, i, "commit") /\ UNCHANGED passed
             [] outcome = "ok" /\ job[e].todo = {i} ->
                    /\ IF e = "DEV" THEN Goto(e, "approve") ELSE End(e)
                    /\ passed' = [passed EXCEPT ![e] =
                                     IF job[e].recovery THEN @ ELSE @ \cup {job[e].rel}]
  BY DEF PutState
<1>4. /\ job[e].pc = "commit" /\ r \in Releases /\ i \in job[e].todo
      /\ job[e].todo \subseteq Members[r] /\ Members[r] \subseteq Images
      /\ UNCHANGED approvedAt
  BY <1>1, ContentAssumption
     DEF PutState, At, TypeInv, JobShape, Loops, Reached, Target
<1>5. u \subseteq Members[r]
  BY <1>2, <1>4, UnitAssumption
<1>6. \A k \in Members[r] :
        state[e][k] = IF k \in job[e].todo THEN Held(e, k) ELSE Released(e, k)
  BY <1>1, <1>4 DEF JobInv, At, Target
<1>7. ASSUME NEW k \in Images
      PROVE  /\ Held(e, k).hold = TRUE /\ Released(e, k).hold = job[e].recovery
             /\ Released(e, k).rel = r
  BY <1>1, RecordFields
<1>8. Shown[e][u] = {}
  <2>1. state[e][i].hold = TRUE
    BY <1>4, <1>6, <1>7
  <2>. QED BY <1>2, <2>1 DEF Shown
<1>9. CASE outcome = "failed"
  <2>1. UNCHANGED <<state, passed>>
    BY <1>3, <1>9 DEF Landed
  <2>. QED BY <1>4, <2>1, ShownStill DEF Implements
<1>10. ASSUME outcome # "failed"
       PROVE  /\ \A f \in Envs \ {e} : state'[f] = state[f]
              /\ \A k \in Images \ {i} : state'[e][k] = state[e][k]
              /\ state'[e][i] = Released(e, i)
  BY <1>1, <1>3, <1>10 DEF TypeInv, TypeOK, Landed
<1>11. CASE outcome # "failed" /\ Shown'[e][u] = {} /\ UNCHANGED passed
  <2>1. Shown' = [Shown EXCEPT ![e][u] = {}]
    BY <1>2, <1>10, <1>11, ShownLocal
  <2>2. Shown = [f \in Envs |-> [v \in Units |-> Shown[f][v]]]
    BY DEF Shown
  <2>. HIDE DEF Shown
  <2>3. Shown' = Shown
    BY <1>8, <2>1, <2>2
  <2>. QED BY <1>4, <1>11, <2>3 DEF Implements, Approved
<1>12. CASE job[e].recovery
  <2>1. UNCHANGED passed
    BY <1>1, <1>3, <1>12 DEF TypeInv, TypeOK
  <2>2. outcome # "failed" => Shown'[e][u] = {}
    BY <1>2, <1>7, <1>10, <1>12 DEF Shown
  <2>. QED BY <1>9, <1>11, <2>1, <2>2
<1>13. ASSUME outcome # "failed", ~job[e].recovery, NEW v \in Units, v \subseteq Members[r],
              \A k \in v : state'[e][k] = Released(e, k)
       PROVE  Shown'[e][v] = {r}
  <2>1. v # {} /\ v \subseteq Images
    BY <1>4, <1>13, UnitAssumption
  <2>2. ASSUME NEW k \in v PROVE ~state'[e][k].hold /\ state'[e][k].rel = r
    <3>1. state'[e][k] = Released(e, k) /\ k \in Images
      BY <1>13, <2>1
    <3>2. Released(e, k).hold = job[e].recovery /\ Released(e, k).rel = r
      BY <1>7, <3>1
    <3>. QED BY <1>13, <3>1, <3>2
  <2>3. {state'[e][k].rel : k \in v} = {r}
    BY <2>1, <2>2
  <2>. QED BY <2>2, <2>3 DEF Shown
<1>14. ASSUME outcome # "failed", ~job[e].recovery, Shown'[e][u] # {}
       PROVE  Shown'[e][u] = {r}
  <2>1. \A k \in u : ~state'[e][k].hold
    BY <1>14 DEF Shown
  <2>2. ASSUME NEW k \in u PROVE state'[e][k] = Released(e, k)
    <3>1. k \in Members[r] /\ k \in Images
      BY <1>4, <1>5
    <3>2. k = i \/ state'[e][k] = Held(e, k) \/ state'[e][k] = Released(e, k)
      BY <1>6, <1>10, <1>14, <3>1
    <3>3. state'[e][k] # Held(e, k)
      BY <1>7, <2>1, <3>1
    <3>. QED BY <1>10, <1>14, <3>2, <3>3
  <2>. QED BY <1>5, <1>13, <1>14, <2>2
<1>15. ASSUME outcome # "failed", ~job[e].recovery, Shown'[e][u] = {r},
              \/ UNCHANGED passed
              \/ /\ \A v \in Ships(r) : Shown'[e][v] = {r}
                 /\ passed' = [passed EXCEPT ![e] = @ \cup {r}]
       PROVE  Channel!Release(e, u, r)
  <2>1. Shown' = [Shown EXCEPT ![e][u] = {r}]
    BY <1>2, <1>10, <1>15, ShownLocal
  <2>2. ASSUME NEW q \in passed[e], u \in Ships(q) PROVE q <= r
    <3>1. job[e].before[i].mark >= q /\ r >= job[e].before[i].mark
      BY <1>1, <1>2, <1>4, <1>15, <2>2 DEF JobInv, Ships, Target
    <3>2. Releases \subseteq Nat /\ 0 \in Nat
      BY ReleaseAssumption
    <3>3. job[e].before[i] \in StateRecord
      BY <1>1 DEF TypeInv, TypeOK, Job
    <3>4. job[e].before[i].mark \in Releases \cup {0}
      BY <3>3 DEF StateRecord
    <3>5. q \in Releases
      BY <1>1 DEF TypeInv, TypeOK
    <3>6. q \in Nat /\ r \in Nat /\ job[e].before[i].mark \in Nat
      BY <1>4, <3>2, <3>4, <3>5
    <3>. QED BY <3>1, <3>6
  <2>3. e = "HOM" => r \in Approved
    BY <1>4 DEF FullInv, HomInv, HomJob, At, Soaked, Approved
  <2>4. passed[e] \subseteq Releases
    BY <1>1 DEF TypeInv, TypeOK
  <2>5. u \in Ships(r)
    BY <1>5 DEF Ships
  <2>6. Channel!Behind(e, u, r)
    BY <2>2, <2>4 DEF Channel!Behind, Ships
  <2>7. UNCHANGED Approved
    BY <1>4 DEF Approved
  <2>. HIDE DEF r
  <2>. QED BY <1>4, <1>8, <1>15, <2>1, <2>3, <2>5, <2>6, <2>7
           DEF Channel!Release, Ships, Approved
<1>16. CASE outcome = "ok" /\ ~job[e].recovery /\ job[e].todo = {i}
  <2>1. passed' = [passed EXCEPT ![e] = @ \cup {r}]
    BY <1>3, <1>16
  <2>2. \A k \in Members[r] : state'[e][k] = Released(e, k)
    BY <1>4, <1>6, <1>10, <1>16
  <2>3. \A v \in Ships(r) : Shown'[e][v] = {r}
    BY <1>13, <1>16, <2>2 DEF Ships
  <2>4. Channel!Release(e, u, r)
    BY <1>5, <1>15, <1>16, <2>1, <2>3 DEF Ships
  <2>. QED BY <1>4, <2>4 DEF Implements, Channel!Next
<1>17. CASE outcome # "failed" /\ ~job[e].recovery /\ UNCHANGED passed /\ Shown'[e][u] # {}
  <2>1. Channel!Release(e, u, r)
    BY <1>14, <1>15, <1>17
  <2>. QED BY <1>4, <2>1 DEF Implements, Channel!Next
<1>. QED BY <1>3, <1>9, <1>11, <1>12, <1>16, <1>17

\* The DEV manifest is an approval of a release that DEV shows whole.
LEMMA ApprovalImplements ==
    ASSUME FullInv, PutApproval
    PROVE  Implements
<1>. DEFINE r == job["DEV"].rel
<1>1. TypeInv /\ RestInv("DEV") /\ JobInv("DEV")
  BY DEF FullInv, LocalInv
<1>2. /\ UNCHANGED <<state, passed>>
      /\ UNCHANGED approvedAt \/ approvedAt' = [approvedAt EXCEPT ![r] = clock]
      /\ job["DEV"].pc = "approve" /\ r \in Releases
  BY <1>1 DEF PutApproval, At, TypeInv, JobShape
<1>3. CASE UNCHANGED approvedAt
  BY <1>2, <1>3, ShownStill DEF Implements
<1>4. CASE approvedAt' = [approvedAt EXCEPT ![r] = clock]
  <2>1. job["DEV"].recovery = FALSE
    BY <1>1 DEF TypeInv, TypeOK, JobShape, Job
  <2>2. ASSUME NEW k \in Members[r]
        PROVE  ~state["DEV"][k].hold /\ state["DEV"][k].rel = r
    <3>1. k \in Images /\ state["DEV"][k] = Released("DEV", k)
      BY <1>1, <1>2, ContentAssumption DEF JobInv, At, Target
    <3>2. Released("DEV", k).hold = job["DEV"].recovery /\ Released("DEV", k).rel = r
      BY <1>1, <3>1, RecordFields
    <3>. QED BY <2>1, <3>1, <3>2
  <2>3. ASSUME NEW v \in Ships(r) PROVE Shown["DEV"][v] = {r}
    <3>1. v \subseteq Members[r] /\ v \in Units /\ v # {}
      BY UnitAssumption DEF Ships
    <3>2. PICK k \in v : k \in Members[r]
      BY <3>1
    <3>3. Shown["DEV"][v] = {state["DEV"][k].rel}
      BY <1>1, <2>2, <3>1, <3>2, ShownValue
    <3>. QED BY <2>2, <3>2, <3>3
  <2>4. clock # Never
    BY <1>1, BoundAssumption DEF TypeInv, TypeOK
  <2>5. Approved' = Approved \cup {r}
    BY <1>1, <1>2, <1>4, <2>4 DEF Approved, TypeInv, TypeOK
  <2>6. UNCHANGED <<Shown, passed>>
    BY <1>2 DEF Shown
  <2>7. PICK q \in Releases : q = r
    BY <1>2
  <2>8. Channel!Approve(q)
    BY <2>3, <2>5, <2>6, <2>7 DEF Channel!Approve, Ships, Approved
  <2>. QED BY <2>7, <2>8 DEF Implements, Channel!Next
<1>. QED BY <1>2, <1>3, <1>4

\* Every step of the lifecycle is a step of the channel or leaves it as it was.
LEMMA StepImplements == FullInv /\ [Next]_vars => Implements
<1>. SUFFICES ASSUME FullInv, [Next]_vars PROVE Implements
  OBVIOUS
<1>1. ASSUME UNCHANGED <<state, passed, approvedAt>> PROVE Implements
  BY <1>1, ShownStill DEF Implements
<1>2. ASSUME NEW e \in Envs, JobStep(e) PROVE Implements
  <2>1. ASSUME NEW i \in Images, CopyImage(i) \/ WriteStable(e, i) PROVE Implements
    BY <1>1, <2>1 DEF CopyImage, WriteStable, storeVars
  <2>2. CASE \/ DecideDev \/ PutTargetManifest \/ PutPromoted \/ Gates(e) \/ ObserveBefore(e)
             \/ PutStarted(e) \/ FinalReadBack(e) \/ PutCompleted(e)
    BY <1>1, <2>2 DEF DecideDev, PutTargetManifest, PutPromoted, Gates, ObserveBefore,
                      PutStarted, FinalReadBack, PutCompleted, storeVars
  <2>. QED BY <1>2, <2>1, <2>2, HoldImplements, PutStateImplements, ApprovalImplements DEF JobStep
<1>3. ASSUME NEW e \in Envs, Schedule(e) \/ Dispatch(e) \/ Kill(e) PROVE Implements
  BY <1>1, <1>3 DEF Schedule, Dispatch, Promote, Kill, storeVars
<1>4. ASSUME \/ Tick \/ \E r \in Releases : ApproveDev(r) \/ RecoverHom(r)
             \/ \E e \in Envs, i \in Images : AdminWrite(e, i)
      PROVE  Implements
  BY <1>1, <1>4 DEF Tick, ApproveDev, RecoverHom, AdminWrite, storeVars
<1>5. CASE UNCHANGED vars
  BY <1>1, <1>5 DEF vars
<1>. QED BY <1>2, <1>3, <1>4, <1>5 DEF Next

\* Every behaviour of the release lifecycle is a behaviour of the channel.
THEOREM LifecycleImplementsChannel == Spec => ImplementsChannel
<1>1. FullInv /\ [Next]_vars => [Channel!Next]_(Channel!channelVars)
  BY StepImplements DEF Implements, Channel!channelVars, Approved
<1>2. Spec => []FullInv
  BY FullInit, FullStep, PTL DEF Spec
<1>. QED BY <1>1, <1>2, RefineInit, PTL DEF Spec, ImplementsChannel, Channel!Spec
=============================================================================
