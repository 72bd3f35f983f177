----------------------------- MODULE ReleaseProofs ------------------------------
(***************************************************************************)
(* Proofs of the safety of ReleaseLifecycle for every set of releases,     *)
(* images, units and policies.  The argument is one inductive invariant,   *)
(* IInv of ReleaseProperties, in three layers: the types and the shape of  *)
(* a job; what a job knows of the records, the tags and the watermarks of  *)
(* its own destination; what a HOM job knows of the DEV approval.          *)
(***************************************************************************)
EXTENDS ReleaseProperties, OrderLemmas, FiniteSetTheorems, TLAPS

TypeInv == TypeOK /\ JobShape

USE DEF Envs, Never, Times

-----------------------------------------------------------------------------
(* Moves of a job.                                                         *)

\* Ending a job leaves a well-typed, idle one.
LEMMA EndMove ==
    ASSUME NEW e \in Envs, job \in [Envs -> Job], JobShape, End(e)
    PROVE  job' \in [Envs -> Job] /\ JobShape'
<1>1. Idle \in Job
  BY DEF Idle, Job, Stages, Absent, StateRecord
<1>2. job' \in [Envs -> Job]
  BY <1>1 DEF End
<1>3. \A f \in Envs : job'[f] = IF f = e THEN Idle ELSE job[f]
  BY DEF End
<1>4. JobShape'
  BY <1>3 DEF JobShape, At, Target, Idle, Loops
<1>. QED BY <1>2, <1>4

\* Moving a job that has chosen a release to another stage.
LEMMA GotoMove ==
    ASSUME NEW e \in Envs, NEW stage \in Stages, job \in [Envs -> Job], JobShape,
           ~At(e, "idle"), Goto(e, stage), stage # "idle",
           stage \in {"decide", "approve"} => e = "DEV",
           stage \in {"copy", "import", "receipt"} => e = "HOM" /\ ~job[e].recovery
    PROVE  job' \in [Envs -> Job] /\ JobShape'
<1>1. job[e].rel \in Releases /\ Target(e) \subseteq Images /\ Target(e) # {}
  BY ContentAssumption DEF JobShape, At, Target
<1>2. job' \in [Envs -> Job]
  BY <1>1 DEF Goto, Job
<1>3. /\ job'[e].pc = stage /\ job'[e].rel = job[e].rel
      /\ job'[e].recovery = job[e].recovery /\ job'[e].todo = Target(e)
  BY DEF Goto, Job
<1>4. \A f \in Envs \ {e} : job'[f] = job[f]
  BY DEF Goto
<1>5. ASSUME NEW f \in Envs
      PROVE  /\ job'[f].pc = "idle" \/ job'[f].rel \in Releases
             /\ job'[f].pc \in Loops => job'[f].todo # {} /\ job'[f].todo \subseteq Members[job'[f].rel]
             /\ job'[f].pc \in {"decide", "approve"} => f = "DEV"
             /\ job'[f].recovery => f = "HOM"
             /\ job'[f].pc \in {"copy", "import", "receipt"} => f = "HOM" /\ ~job'[f].recovery
  <2>1. CASE f = e
    BY <1>1, <1>3, <2>1 DEF JobShape, Target
  <2>2. CASE f # e
    BY <1>4, <2>2 DEF JobShape, At, Target
  <2>. QED BY <2>1, <2>2
<1>. QED BY <1>2, <1>5 DEF JobShape, At, Target

\* Going round a loop, or leaving it for the next stage.
LEMMA DoneMove ==
    ASSUME NEW e \in Envs, NEW i \in Images, NEW next \in Stages,
           job \in [Envs -> Job], JobShape, job[e].pc \in Loops, Reached(e, i),
           next \notin {"idle", "decide"}, next = "approve" => e = "DEV",
           next \in {"copy", "import", "receipt"} => e = "HOM" /\ ~job[e].recovery,
           Done(e, i, next)
    PROVE  job' \in [Envs -> Job] /\ JobShape'
<1>1. CASE job[e].todo = {i}
  BY <1>1, GotoMove DEF Done, Loops, At
<1>2. CASE job[e].todo # {i}
  <2>1. job[e].todo \in SUBSET Images /\ i \in job[e].todo
    BY DEF Job, Reached
  <2>2. job' = [job EXCEPT ![e].todo = @ \ {i}]
    BY <1>2 DEF Done
  <2>3. job' \in [Envs -> Job]
    BY <2>1, <2>2 DEF Job
  <2>4. /\ job'[e].pc = job[e].pc /\ job'[e].rel = job[e].rel
        /\ job'[e].recovery = job[e].recovery /\ job'[e].todo = job[e].todo \ {i}
    BY <2>2 DEF Job
  <2>5. \A f \in Envs \ {e} : job'[f] = job[f]
    BY <2>2
  <2>6. job[e].todo \ {i} # {}
    BY <1>2, <2>1
  <2>7. ASSUME NEW f \in Envs
        PROVE  /\ job'[f].pc = "idle" \/ job'[f].rel \in Releases
               /\ job'[f].pc \in Loops => job'[f].todo # {} /\ job'[f].todo \subseteq Members[job'[f].rel]
               /\ job'[f].pc \in {"decide", "approve"} => f = "DEV"
               /\ job'[f].recovery => f = "HOM"
               /\ job'[f].pc \in {"copy", "import", "receipt"} => f = "HOM" /\ ~job'[f].recovery
    <3>1. CASE f = e
      BY <2>4, <2>6, <3>1 DEF JobShape, At, Target
    <3>2. CASE f # e
      BY <2>5, <3>2 DEF JobShape, At, Target
    <3>. QED BY <3>1, <3>2
  <2>. QED BY <2>3, <2>7 DEF JobShape, At, Target
<1>. QED BY <1>1, <1>2

\* Choosing a release and reading the records of its members.
LEMMA BeginMove ==
    ASSUME NEW e \in Envs, NEW r \in Releases, NEW recovery \in BOOLEAN, NEW resume \in BOOLEAN,
           TypeInv, recovery => e = "HOM", Begin(e, r, recovery, resume)
    PROVE  job' \in [Envs -> Job] /\ JobShape'
<1>. DEFINE b == [i \in Images |-> IF i \in Members[r] THEN state[e][i] ELSE Absent]
            j == [pc |-> "gates", rel |-> r, recovery |-> recovery, resume |-> resume,
                  todo |-> {}, before |-> b]
<1>1. b \in [Images -> StateRecord]
  BY DEF TypeInv, TypeOK, Absent, StateRecord
<1>2. j \in Job
  BY <1>1 DEF Job, Stages
<1>3. job' = [job EXCEPT ![e] = j]
  BY DEF Begin
<1>4. job' \in [Envs -> Job]
  BY <1>2, <1>3 DEF TypeInv, TypeOK
<1>5. /\ job'[e].pc = "gates" /\ job'[e].rel = r /\ job'[e].recovery = recovery
      /\ \A f \in Envs \ {e} : job'[f] = job[f]
  BY <1>3 DEF TypeInv, TypeOK
<1>. HIDE DEF b, j
<1>6. JobShape'
  BY <1>5 DEF TypeInv, JobShape, At, Target, Loops
<1>. QED BY <1>4, <1>6

-----------------------------------------------------------------------------
(* Records.                                                                *)

\* What publish_states writes is a state record.
LEMMA RecordTypes ==
    ASSUME NEW e \in Envs, NEW i \in Images, TypeInv, ~At(e, "idle")
    PROVE  Held(e, i) \in StateRecord /\ Released(e, i) \in StateRecord
<1>1. job[e] \in Job /\ job[e].rel \in Releases
  BY DEF TypeInv, TypeOK, JobShape
<1>2. job[e].before[i] \in StateRecord
  BY <1>1 DEF Job
<1>3. Held(e, i) \in StateRecord
  BY <1>2 DEF Held, StateRecord
<1>4. Digest[job[e].rel][i] \in Digests /\ job[e].recovery \in BOOLEAN
  BY <1>1, ContentAssumption DEF Job
<1>5. MaxOf(job[e].before[i].mark, job[e].rel) \in Releases \cup {0}
  BY <1>1, <1>2 DEF MaxOf, StateRecord
<1>6. Released(e, i) \in StateRecord
  BY <1>1, <1>4, <1>5 DEF Released, StateRecord
<1>. QED BY <1>3, <1>6

\* Counting a fault keeps the count within its bound.
LEMMA ChargeType ==
    ASSUME NEW outcome, faults \in 0 .. MaxFaults, Charge(outcome)
    PROVE  faults' \in 0 .. MaxFaults
BY BoundAssumption DEF Charge

-----------------------------------------------------------------------------
(* Types.                                                                  *)

\* The release an image starts with is one that holds it.
LEMMA LastSeededType ==
    ASSUME NEW i \in Images
    PROVE  LastSeeded(i) \in {r \in Seeded : i \in Members[r]} \cup {0}
<1>. DEFINE held == {r \in Seeded : i \in Members[r]}
<1>1. CASE held = {}
  BY <1>1 DEF LastSeeded
<1>2. CASE held # {}
  <2>1. held \in SUBSET Nat /\ IsFiniteSet(held)
    BY ReleaseAssumption, FS_Subset
  <2>2. \E r \in held : \A q \in held : q <= r
    BY <1>2, <2>1, LargestElement
  <2>3. LastSeeded(i) = CHOOSE r \in held : \A q \in held : q <= r
    BY <1>2 DEF LastSeeded
  <2>. QED BY <2>2, <2>3
<1>. QED BY <1>1, <1>2

\* Types hold initially: LastSeeded names a release or 0.
LEMMA InitTypes == Init => TypeInv
<1>. SUFFICES ASSUME Init PROVE TypeInv
  OBVIOUS
<1>1. \A i \in Images : LastSeeded(i) \in Releases \cup {0}
  BY LastSeededType, ReleaseAssumption
<1>2. stable \in [Envs -> [Images -> Digests \cup {NoDigest}]]
  BY <1>1, ContentAssumption DEF Init
<1>3. state \in [Envs -> [Images -> StateRecord]]
  <2>1. ASSUME NEW i \in Images, LastSeeded(i) # 0
        PROVE  [rel |-> LastSeeded(i), digest |-> Digest[LastSeeded(i)][i],
                mark |-> LastSeeded(i), hold |-> FALSE] \in StateRecord
    BY <1>1, <2>1, ContentAssumption DEF StateRecord
  <2>2. Absent \in StateRecord
    BY DEF Absent, StateRecord
  <2>. QED BY <2>1, <2>2 DEF Init
<1>4. /\ validatedAt \in [Releases -> Times \cup {Never}]
      /\ approvedAt \in [Releases -> Times \cup {Never}]
  BY BoundAssumption DEF Init
<1>5. job \in [Envs -> Job]
  <2>1. Idle \in Job
    BY DEF Idle, Job, Stages, Absent, StateRecord
  <2>. QED BY <2>1 DEF Init
<1>6. /\ clock \in Times /\ faults \in 0 .. MaxFaults
      /\ mirror \in [Releases -> SUBSET Images]
      /\ imported \subseteq Releases /\ promoted \subseteq Releases
      /\ tampered \in [Envs -> SUBSET Images]
  BY BoundAssumption DEF Init
<1>8. passed \in [Envs -> SUBSET Releases]
  BY ReleaseAssumption DEF Init
<1>7. JobShape
  BY DEF Init, JobShape, At, Idle, Loops
<1>. QED BY <1>2, <1>3, <1>4, <1>5, <1>6, <1>7, <1>8 DEF TypeInv, TypeOK

\* One operation of main() or one call of a running job keeps the types.
LEMMA SelectTypes ==
    ASSUME TypeInv, NEW e \in Envs, NEW requested, NEW hours, NEW resume \in BOOLEAN,
           Promote(e, requested, hours, resume)
    PROVE  TypeInv'
<1>1. PICK r \in Releases : Begin(e, r, FALSE, resume)
  BY DEF Promote, Eligible, Offered
<1>2. job' \in [Envs -> Job] /\ JobShape'
  BY <1>1, BeginMove
<1>. QED BY <1>2 DEF TypeInv, TypeOK, Promote, storeVars, registryVars

\* approve_dev up to the candidate keeps the types and the shape of the job.
LEMMA ApproveDevTypes ==
    ASSUME TypeInv, NEW r \in Releases, ApproveDev(r)
    PROVE  TypeInv'
<1>1. PICK outcome \in {"ok", "lost"} :
        /\ Charge(outcome)
        /\ validatedAt' = [validatedAt EXCEPT ![r] = clock]
        /\ IF outcome = "ok"
           THEN job' = [job EXCEPT !["DEV"].pc = "decide", !["DEV"].rel = r]
           ELSE UNCHANGED job
  BY DEF ApproveDev
<1>2. faults' \in 0 .. MaxFaults
  BY <1>1, ChargeType DEF TypeInv, TypeOK
<1>3. validatedAt' \in [Releases -> Times \cup {Never}]
  BY <1>1 DEF TypeInv, TypeOK
<1>4. job' \in [Envs -> Job] /\ JobShape'
  <2>1. CASE outcome = "ok"
    <3>1. job' \in [Envs -> Job]
      BY <1>1, <2>1 DEF TypeInv, TypeOK, Job, Stages
    <3>2. /\ job'["DEV"].pc = "decide" /\ job'["DEV"].rel = r
          /\ job'["DEV"].recovery = job["DEV"].recovery
          /\ \A f \in Envs \ {"DEV"} : job'[f] = job[f]
      BY <1>1, <2>1 DEF TypeInv, TypeOK, Job
    <3>3. JobShape'
      BY <3>2 DEF TypeInv, JobShape, At, Target, Loops
    <3>. QED BY <3>1, <3>3
  <2>2. CASE outcome # "ok"
    BY <1>1, <2>2 DEF TypeInv, TypeOK, JobShape, At, Target
  <2>. QED BY <2>1, <2>2
<1>. QED
  BY <1>2, <1>3, <1>4 DEF TypeInv, TypeOK, ApproveDev, registryVars

\* approve_dev, going on to promote or leaving the candidate waiting, keeps them.
LEMMA DecideDevTypes ==
    ASSUME TypeInv, DecideDev
    PROVE  TypeInv'
<1>1. job' \in [Envs -> Job] /\ JobShape'
  <2>1. job["DEV"].rel \in Releases
    BY DEF TypeInv, JobShape, DecideDev, At
  <2>2. CASE Begin("DEV", job["DEV"].rel, FALSE, FALSE)
    BY <2>1, <2>2, BeginMove
  <2>3. CASE End("DEV")
    BY <2>3, EndMove DEF TypeInv, TypeOK
  <2>. QED BY <2>2, <2>3 DEF DecideDev
<1>. QED BY <1>1 DEF TypeInv, TypeOK, DecideDev, storeVars, registryVars

\* recover_hom starts a recovery of HOM with the records of its members.
LEMMA RecoverTypes ==
    ASSUME TypeInv, NEW r \in Releases, RecoverHom(r)
    PROVE  TypeInv'
<1>1. job' \in [Envs -> Job] /\ JobShape'
  BY BeginMove DEF RecoverHom
<1>. QED BY <1>1 DEF TypeInv, TypeOK, RecoverHom, storeVars, registryVars

\* A call that only moves the job: it fails, or goes on to the next stage.
LEMMA MoveTypes ==
    ASSUME TypeInv, NEW e \in Envs,
           Gates(e) \/ ObserveBefore(e) \/ PutStarted(e) \/ FinalReadBack(e) \/ PutCompleted(e)
    PROVE  TypeInv'
<1>. DEFINE forward == {"observe", "hold", "start", "write", "final", "complete", "commit", "rehold"}
<1>1. PICK outcome \in Outcomes : Charge(outcome)
  BY DEF Gates, ObserveBefore, PutStarted, FinalReadBack, PutCompleted, Outcomes
<1>2. faults' \in 0 .. MaxFaults
  BY <1>1, ChargeType DEF TypeInv, TypeOK
<1>3. /\ ~At(e, "idle")
      /\ \/ End(e)
         \/ \E stage \in forward : Goto(e, stage)
         \/ e = "HOM" /\ ~job[e].recovery /\ \E stage \in {"copy", "receipt"} : Goto(e, stage)
  BY DEF Gates, ObserveBefore, PutStarted, FinalReadBack, PutCompleted, At
<1>4. job' \in [Envs -> Job] /\ JobShape'
  <2>1. CASE End(e)
    BY <2>1, EndMove DEF TypeInv, TypeOK
  <2>2. ASSUME NEW stage \in forward, Goto(e, stage)
        PROVE  job' \in [Envs -> Job] /\ JobShape'
    BY <1>3, <2>2, GotoMove DEF TypeInv, TypeOK, Stages
  <2>3. ASSUME e = "HOM", ~job[e].recovery, NEW stage \in {"copy", "receipt"}, Goto(e, stage)
        PROVE  job' \in [Envs -> Job] /\ JobShape'
    BY <1>3, <2>3, GotoMove DEF TypeInv, TypeOK, Stages
  <2>. QED BY <1>3, <2>1, <2>2, <2>3
<1>. QED
  BY <1>2, <1>4 DEF TypeInv, TypeOK, Gates, ObserveBefore, PutStarted, FinalReadBack,
                    PutCompleted, storeVars, registryVars

\* The records of one destination take a well-typed record for one image.
LEMMA StateWrite ==
    ASSUME NEW e \in Envs, NEW i \in Images, NEW record \in StateRecord,
           state \in [Envs -> [Images -> StateRecord]],
           state' = [state EXCEPT ![e][i] = record]
    PROVE  state' \in [Envs -> [Images -> StateRecord]]
OBVIOUS

\* A hold, first or repeated, writes a well-formed record.
LEMMA HoldTypes ==
    ASSUME TypeInv, NEW e \in Envs, NEW i \in Images, PutHold(e, i) \/ ReHold(e, i)
    PROVE  TypeInv'
<1>1. PICK outcome \in Outcomes :
        /\ Charge(outcome)
        /\ state' = IF Landed(outcome) THEN [state EXCEPT ![e][i] = Held(e, i)] ELSE state
        /\ End(e) \/ Done(e, i, "start") \/ Done(e, i, "rehold")
  BY DEF PutHold, ReHold, Outcomes
<1>2. /\ job[e].pc \in Loops /\ ~At(e, "idle") /\ Reached(e, i)
      /\ UNCHANGED <<clock, validatedAt, approvedAt, imported, promoted, passed, registryVars>>
  BY DEF PutHold, ReHold, At, Loops
<1>3. faults' \in 0 .. MaxFaults
  BY <1>1, ChargeType DEF TypeInv, TypeOK
<1>4. state' \in [Envs -> [Images -> StateRecord]]
  BY <1>1, <1>2, RecordTypes, StateWrite DEF TypeInv, TypeOK
<1>5. job' \in [Envs -> Job] /\ JobShape'
  <2>1. CASE End(e)
    BY <2>1, EndMove DEF TypeInv, TypeOK
  <2>2. CASE Done(e, i, "start")
    BY <1>2, <2>2, DoneMove DEF TypeInv, TypeOK, Stages
  <2>3. CASE Done(e, i, "rehold")
    BY <1>2, <2>3, DoneMove DEF TypeInv, TypeOK, Stages
  <2>. QED BY <1>1, <2>1, <2>2, <2>3
<1>. QED BY <1>2, <1>3, <1>4, <1>5 DEF TypeInv, TypeOK, registryVars

\* So does the final record of a member, whose watermark is the larger of two.
LEMMA PutStateTypes ==
    ASSUME TypeInv, NEW e \in Envs, NEW i \in Images, PutState(e, i)
    PROVE  TypeInv'
<1>1. PICK outcome \in Outcomes :
        /\ Charge(outcome)
        /\ state' = IF Landed(outcome) THEN [state EXCEPT ![e][i] = Released(e, i)] ELSE state
        /\ CASE outcome # "ok" -> Goto(e, "rehold") /\ UNCHANGED passed
             [] outcome = "ok" /\ job[e].todo # {i} -> Done(e, i, "commit") /\ UNCHANGED passed
             [] outcome = "ok" /\ job[e].todo = {i} ->
                    /\ IF e = "DEV" THEN Goto(e, "approve") ELSE End(e)
                    /\ passed' = [passed EXCEPT ![e] =
                                     IF job[e].recovery THEN @ ELSE @ \cup {job[e].rel}]
  BY DEF PutState
<1>2. /\ job[e].pc = "commit" /\ Reached(e, i)
      /\ UNCHANGED <<clock, validatedAt, approvedAt, imported, promoted, registryVars>>
  BY DEF PutState, At
<1>3. faults' \in 0 .. MaxFaults
  BY <1>1, ChargeType DEF TypeInv, TypeOK
<1>4. state' \in [Envs -> [Images -> StateRecord]]
  BY <1>1, <1>2, RecordTypes, StateWrite DEF TypeInv, TypeOK, At
<1>5. job[e].rel \in Releases
  BY <1>2 DEF TypeInv, JobShape, At
<1>6. /\ \/ End(e)
         \/ Goto(e, "rehold")
         \/ e = "DEV" /\ Goto(e, "approve")
         \/ Done(e, i, "commit")
      /\ \/ UNCHANGED passed
         \/ passed' = [passed EXCEPT ![e] = IF job[e].recovery THEN @ ELSE @ \cup {job[e].rel}]
  BY <1>1
<1>7. passed' \in [Envs -> SUBSET Releases]
  BY <1>5, <1>6 DEF TypeInv, TypeOK
<1>8. job' \in [Envs -> Job] /\ JobShape'
  <2>1. CASE End(e)
    BY <2>1, EndMove DEF TypeInv, TypeOK
  <2>2. CASE Goto(e, "rehold")
    BY <1>2, <2>2, GotoMove DEF TypeInv, TypeOK, Stages, At
  <2>3. CASE e = "DEV" /\ Goto(e, "approve")
    BY <1>2, <2>3, GotoMove DEF TypeInv, TypeOK, Stages, At
  <2>4. CASE Done(e, i, "commit")
    BY <1>2, <2>4, DoneMove DEF TypeInv, TypeOK, Stages, Loops
  <2>. QED BY <1>6, <2>1, <2>2, <2>3, <2>4
<1>. QED BY <1>2, <1>3, <1>4, <1>7, <1>8 DEF TypeInv, TypeOK, registryVars

\* A tag write leaves a digest of the release in stable.
LEMMA WriteStableTypes ==
    ASSUME TypeInv, NEW e \in Envs, NEW i \in Images, WriteStable(e, i)
    PROVE  TypeInv'
<1>1. PICK outcome \in Outcomes :
        /\ Charge(outcome)
        /\ IF Landed(outcome)
           THEN /\ stable' = [stable EXCEPT ![e][i] = Digest[job[e].rel][i]]
                /\ tampered' = [tampered EXCEPT ![e] = @ \ {i}]
           ELSE UNCHANGED <<stable, tampered>>
        /\ IF outcome = "ok" THEN Done(e, i, "final") ELSE Goto(e, "rehold")
  BY DEF WriteStable
<1>2. /\ job[e].pc = "write" /\ Reached(e, i)
      /\ UNCHANGED <<clock, mirror, passed, storeVars>>
  BY DEF WriteStable, At
<1>3. faults' \in 0 .. MaxFaults
  BY <1>1, ChargeType DEF TypeInv, TypeOK
<1>4. Digest[job[e].rel][i] \in Digests
  BY <1>2, ContentAssumption DEF TypeInv, JobShape, At
<1>5. /\ stable' \in [Envs -> [Images -> Digests \cup {NoDigest}]]
      /\ tampered' \in [Envs -> SUBSET Images]
  BY <1>1, <1>4 DEF TypeInv, TypeOK
<1>6. job' \in [Envs -> Job] /\ JobShape'
  <2>1. CASE Goto(e, "rehold")
    BY <1>2, <2>1, GotoMove DEF TypeInv, TypeOK, Stages, At
  <2>2. CASE Done(e, i, "final")
    BY <1>2, <2>2, DoneMove DEF TypeInv, TypeOK, Stages, Loops
  <2>. QED BY <1>1, <2>1, <2>2
<1>. QED BY <1>2, <1>3, <1>5, <1>6 DEF TypeInv, TypeOK, storeVars

\* A copy adds an image of the catalog to the mirror of the release.
LEMMA CopyImageTypes ==
    ASSUME TypeInv, NEW i \in Images, CopyImage(i)
    PROVE  TypeInv'
<1>1. PICK outcome \in Outcomes :
        /\ Charge(outcome)
        /\ mirror' = IF Landed(outcome)
                     THEN [mirror EXCEPT ![job["HOM"].rel] = @ \cup {i}] ELSE mirror
        /\ IF outcome = "ok" THEN Done("HOM", i, "import") ELSE End("HOM")
  BY DEF CopyImage
<1>2. /\ job["HOM"].pc = "copy" /\ Reached("HOM", i)
      /\ UNCHANGED <<clock, stable, tampered, passed, storeVars>>
  BY DEF CopyImage, At
<1>3. faults' \in 0 .. MaxFaults
  BY <1>1, ChargeType DEF TypeInv, TypeOK
<1>4. mirror' \in [Releases -> SUBSET Images]
  BY <1>1 DEF TypeInv, TypeOK
<1>5. job["HOM"].recovery = FALSE
  BY <1>2 DEF TypeInv, TypeOK, JobShape, Job
<1>6. job' \in [Envs -> Job] /\ JobShape'
  <2>1. CASE End("HOM")
    BY <2>1, EndMove DEF TypeInv, TypeOK
  <2>2. CASE Done("HOM", i, "import")
    BY <1>2, <1>5, <2>2, DoneMove DEF TypeInv, TypeOK, Stages, Loops
  <2>. QED BY <1>1, <2>1, <2>2
<1>. QED BY <1>2, <1>3, <1>4, <1>6 DEF TypeInv, TypeOK, storeVars

\* The HOM manifest of a release is put for a release.
LEMMA TargetManifestTypes ==
    ASSUME TypeInv, PutTargetManifest
    PROVE  TypeInv'
<1>1. PICK outcome \in Outcomes :
        /\ Charge(outcome)
        /\ imported' = IF Landed(outcome) THEN imported \cup {job["HOM"].rel} ELSE imported
        /\ IF outcome = "ok" THEN Goto("HOM", "observe") ELSE End("HOM")
  BY DEF PutTargetManifest
<1>2. /\ job["HOM"].pc = "import" /\ job["HOM"].rel \in Releases
      /\ UNCHANGED <<clock, state, validatedAt, approvedAt, promoted, passed, registryVars>>
  BY DEF PutTargetManifest, At, TypeInv, JobShape
<1>3. faults' \in 0 .. MaxFaults
  BY <1>1, ChargeType DEF TypeInv, TypeOK
<1>4. job' \in [Envs -> Job] /\ JobShape'
  <2>1. CASE End("HOM")
    BY <2>1, EndMove DEF TypeInv, TypeOK
  <2>2. CASE Goto("HOM", "observe")
    BY <1>2, <2>2, GotoMove DEF TypeInv, TypeOK, Stages, At
  <2>. QED BY <1>1, <2>1, <2>2
<1>. QED BY <1>1, <1>2, <1>3, <1>4 DEF TypeInv, TypeOK, registryVars

\* A receipt is put for a release.
LEMMA ReceiptTypes ==
    ASSUME TypeInv, PutPromoted
    PROVE  TypeInv'
<1>1. PICK outcome \in Outcomes :
        /\ Charge(outcome)
        /\ promoted' = IF Landed(outcome) THEN promoted \cup {job["HOM"].rel} ELSE promoted
        /\ Goto("HOM", IF outcome = "ok" THEN "commit" ELSE "rehold")
  BY DEF PutPromoted
<1>2. /\ job["HOM"].pc = "receipt" /\ job["HOM"].rel \in Releases
      /\ UNCHANGED <<clock, state, validatedAt, approvedAt, imported, passed, registryVars>>
  BY DEF PutPromoted, At, TypeInv, JobShape
<1>3. faults' \in 0 .. MaxFaults
  BY <1>1, ChargeType DEF TypeInv, TypeOK
<1>4. PICK stage \in {"commit", "rehold"} : Goto("HOM", stage)
  BY <1>1
<1>5. job' \in [Envs -> Job] /\ JobShape'
  BY <1>2, <1>4, GotoMove DEF TypeInv, TypeOK, Stages, At
<1>. QED BY <1>1, <1>2, <1>3, <1>5 DEF TypeInv, TypeOK, registryVars

\* The DEV manifest carries a time of the clock.
LEMMA ApprovalTypes ==
    ASSUME TypeInv, PutApproval
    PROVE  TypeInv'
<1>1. PICK outcome \in Outcomes :
        /\ Charge(outcome)
        /\ approvedAt' = IF Landed(outcome) /\ approvedAt[job["DEV"].rel] = Never
                         THEN [approvedAt EXCEPT ![job["DEV"].rel] = clock] ELSE approvedAt
  BY DEF PutApproval
<1>2. faults' \in 0 .. MaxFaults
  BY <1>1, ChargeType DEF TypeInv, TypeOK
<1>3. approvedAt' \in [Releases -> Times \cup {Never}]
  BY <1>1 DEF TypeInv, TypeOK
<1>4. job' \in [Envs -> Job] /\ JobShape'
  BY EndMove DEF TypeInv, TypeOK, PutApproval
<1>. QED BY <1>2, <1>3, <1>4 DEF TypeInv, TypeOK, PutApproval, registryVars

\* Kills, administrators and the clock keep the types.
LEMMA SurroundTypes ==
    ASSUME TypeInv, (\E e \in Envs : Kill(e)) \/ (\E e \in Envs, i \in Images : AdminWrite(e, i)) \/ Tick
    PROVE  TypeInv'
<1>1. ASSUME NEW e \in Envs, Kill(e) PROVE TypeInv'
  <2>1. job' \in [Envs -> Job] /\ JobShape'
    BY <1>1, EndMove DEF TypeInv, TypeOK, Kill
  <2>2. faults' \in 0 .. MaxFaults
    BY <1>1, ChargeType DEF TypeInv, TypeOK, Kill
  <2>. QED BY <1>1, <2>1, <2>2 DEF TypeInv, TypeOK, Kill, storeVars, registryVars
<1>2. ASSUME NEW e \in Envs, NEW i \in Images, AdminWrite(e, i) PROVE TypeInv'
  <2>1. /\ stable' \in [Envs -> [Images -> Digests \cup {NoDigest}]]
        /\ tampered' \in [Envs -> SUBSET Images]
    BY <1>2 DEF TypeInv, TypeOK, AdminWrite
  <2>2. faults' \in 0 .. MaxFaults
    BY <1>2, ChargeType DEF TypeInv, TypeOK, AdminWrite
  <2>. QED BY <1>2, <2>1, <2>2 DEF TypeInv, TypeOK, JobShape, At, Target, AdminWrite, storeVars
<1>3. ASSUME Tick PROVE TypeInv'
  <2>1. clock' \in Times
    BY <1>3, BoundAssumption DEF TypeInv, TypeOK, Tick
  <2>. QED BY <1>3, <2>1 DEF TypeInv, TypeOK, JobShape, At, Target, Tick, storeVars, registryVars
<1>. QED BY <1>1, <1>2, <1>3

\* Every step keeps the types and the shape of a job.
LEMMA TypeStep == TypeInv /\ [Next]_vars => TypeInv'
<1>. SUFFICES ASSUME TypeInv, [Next]_vars PROVE TypeInv'
  OBVIOUS
<1>1. ASSUME NEW e \in Envs, JobStep(e) PROVE TypeInv'
  BY <1>1, DecideDevTypes, ApprovalTypes, TargetManifestTypes, ReceiptTypes, CopyImageTypes,
     MoveTypes, HoldTypes, WriteStableTypes, PutStateTypes DEF JobStep
<1>2. ASSUME NEW e \in Envs, Schedule(e) \/ Dispatch(e) PROVE TypeInv'
  BY <1>2, SelectTypes DEF Schedule, Dispatch
<1>3. CASE UNCHANGED vars
  BY <1>3 DEF TypeInv, TypeOK, JobShape, At, Target, vars
<1>. QED
  BY <1>1, <1>2, <1>3, ApproveDevTypes, RecoverTypes, SurroundTypes DEF Next

\* A job never loses the release it has chosen nor the members still to treat.
LEMMA ShapeCorrect == Spec => []TypeInv
<1>. QED BY InitTypes, TypeStep, PTL DEF Spec

\* Every variable keeps its type in every behaviour.
THEOREM TypeCorrect == Spec => []TypeOK
<1>1. TypeInv => TypeOK
  BY DEF TypeInv
<1>. QED BY <1>1, ShapeCorrect, PTL
-----------------------------------------------------------------------------
(* The second layer: what the job of a destination knows of the records,   *)
(* the tags and the watermarks of that destination.  A step of one         *)
(* destination leaves the other as it was (Frame), so each lemma speaks of *)
(* one destination.                                                        *)


\* What holds of the records and tags of a destination, whatever its job does.
RestInv(e) ==
    /\ \A i \in Images :
          ~state[e][i].hold /\ i \notin tampered[e] => stable[e][i] = state[e][i].digest
    /\ \A u \in Units : \A i, j \in u :
          ~state[e][i].hold /\ ~state[e][j].hold => state[e][i].rel = state[e][j].rel
    /\ \A r \in passed[e] : \A i \in Members[r] : state[e][i].mark >= r

\* What its job knows: Snapshot, InPlace and BeforeIsRespected for e alone.
JobInv(e) ==
    /\ ~At(e, "idle") => \A i \in Target(e) :
        /\ job[e].pc \in {"gates", "copy", "import", "observe"} => state[e][i] = job[e].before[i]
        /\ job[e].pc = "hold" =>
              state[e][i] = IF i \in job[e].todo THEN job[e].before[i] ELSE Held(e, i)
        /\ job[e].pc \in {"start", "write", "final", "complete", "receipt"} =>
              state[e][i] = Held(e, i)
        /\ job[e].pc = "commit" =>
              state[e][i] = IF i \in job[e].todo THEN Held(e, i) ELSE Released(e, i)
        /\ job[e].pc = "rehold" => state[e][i] \in {Held(e, i), Released(e, i)}
        /\ job[e].pc = "approve" => state[e][i] = Released(e, i)
    /\ job[e].pc \in {"complete", "receipt", "commit", "approve"} => Serves(e, job[e].rel)
    /\ job[e].pc \notin {"idle", "decide", "approve"} => \A i \in Target(e) :
        /\ \A r \in passed[e] : i \in Members[r] => job[e].before[i].mark >= r
        /\ job[e].before[i].hold => job[e].resume \/ job[e].recovery
        /\ job[e].rel >= job[e].before[i].mark \/ job[e].recovery

LocalInv == TypeInv /\ \A e \in Envs : RestInv(e) /\ JobInv(e)

\* The two layers are the conjuncts of IInv that do not speak of DEV approval.
LEMMA LocalMeaning ==
    LocalInv <=> /\ TypeOK /\ JobShape /\ Snapshot /\ InPlace /\ UnheldTagIsRecorded
                 /\ UnheldUnitIsOneRelease /\ BeforeIsRespected /\ PassedKeepsWatermark
BY DEF LocalInv, TypeInv, RestInv, JobInv, Snapshot, InPlace, UnheldTagIsRecorded,
       UnheldUnitIsOneRelease, BeforeIsRespected, PassedKeepsWatermark

\* A destination whose job, records, tags and history stay as they were.
LEMMA Frame ==
    ASSUME NEW f \in Envs, RestInv(f), JobInv(f),
           job'[f] = job[f], state'[f] = state[f], stable'[f] = stable[f],
           tampered'[f] = tampered[f], passed'[f] = passed[f]
    PROVE  RestInv(f)' /\ JobInv(f)'
BY DEF RestInv, JobInv, At, Target, Held, Released, Serves

\* An idle destination has only its records and tags to answer for.
LEMMA IdleInv ==
    ASSUME NEW e \in Envs, TypeInv, End(e)
    PROVE  JobInv(e)' /\ \A f \in Envs \ {e} : job'[f] = job[f]
<1>1. job'[e] = Idle /\ \A f \in Envs \ {e} : job'[f] = job[f]
  BY DEF End, TypeInv, TypeOK
<1>. QED BY <1>1 DEF JobInv, At, Idle

\* A move to another stage keeps what the job carries.
LEMMA Carries ==
    ASSUME NEW e \in Envs, NEW stage \in Stages, TypeInv, Goto(e, stage)
    PROVE  /\ job'[e].pc = stage /\ job'[e].rel = job[e].rel /\ job'[e].todo = Target(e)
           /\ job'[e].before = job[e].before /\ job'[e].recovery = job[e].recovery
           /\ job'[e].resume = job[e].resume
           /\ \A f \in Envs \ {e} : job'[f] = job[f]
<1>1. job[e] \in Job
  BY DEF TypeInv, TypeOK
<1>. QED BY <1>1 DEF Goto, Job, TypeInv, TypeOK

\* So does one round of a loop.
LEMMA Rounds ==
    ASSUME NEW e \in Envs, NEW i \in Images, NEW stage \in Stages, TypeInv,
           Reached(e, i), job[e].todo \subseteq Target(e), Done(e, i, stage)
    PROVE  /\ \/ job[e].todo = {i} /\ job'[e].pc = stage /\ job'[e].todo = Target(e)
              \/ job'[e].pc = job[e].pc /\ job'[e].todo = job[e].todo \ {i}
           /\ job'[e].rel = job[e].rel /\ job'[e].before = job[e].before
           /\ job'[e].recovery = job[e].recovery /\ job'[e].resume = job[e].resume
           /\ \A f \in Envs \ {e} : job'[f] = job[f]
           /\ i \in Target(e)
<1>1. job[e] \in Job
  BY DEF TypeInv, TypeOK
<1>2. CASE job[e].todo = {i}
  BY <1>2, Carries DEF Done, Reached
<1>3. CASE job[e].todo # {i}
  <2>1. job' = [job EXCEPT ![e].todo = @ \ {i}]
    BY <1>3 DEF Done
  <2>. QED BY <1>1, <2>1 DEF Job, TypeInv, TypeOK, Reached
<1>. QED BY <1>2, <1>3

\* The fields of what publish_states writes.
LEMMA RecordFields ==
    ASSUME NEW e \in Envs, NEW i \in Images, TypeInv
    PROVE  /\ Held(e, i).hold = TRUE /\ Held(e, i).mark = job[e].before[i].mark
           /\ Held(e, i).rel = job[e].before[i].rel
           /\ Released(e, i).hold = job[e].recovery
           /\ Released(e, i).rel = job[e].rel
           /\ Released(e, i).digest = Digest[job[e].rel][i]
           /\ Released(e, i).mark = MaxOf(job[e].before[i].mark, job[e].rel)
<1>1. job[e].before[i] \in StateRecord
  BY DEF TypeInv, TypeOK, Job
<1>. QED BY <1>1 DEF Held, Released, StateRecord

-----------------------------------------------------------------------------
(* One lemma per step; the other destination is Frame.                     *)

\* A job that has just chosen a release and read its records: the promotion
\* accepted the holds and watermarks, the recovery does not have to.
LEMMA BeginInv ==
    ASSUME LocalInv, NEW e \in Envs, NEW r \in Releases,
           NEW recovery \in BOOLEAN, NEW resume \in BOOLEAN,
           Begin(e, r, recovery, resume),
           recovery \/ Accepted(e, r, resume),
           UNCHANGED <<passed, state, stable, tampered>>
    PROVE  \A f \in Envs : RestInv(f)' /\ JobInv(f)'
<1>. DEFINE b == [i \in Images |-> IF i \in Members[r] THEN state[e][i] ELSE Absent]
            j == [pc |-> "gates", rel |-> r, recovery |-> recovery, resume |-> resume,
                  todo |-> {}, before |-> b]
<1>0. job' = [job EXCEPT ![e] = j]
  BY DEF Begin
<1>1. job'[e] = j /\ \A f \in Envs \ {e} : job'[f] = job[f]
  BY <1>0 DEF LocalInv, TypeInv, TypeOK
<1>2. /\ job'[e].pc = "gates" /\ job'[e].rel = r /\ job'[e].before = b
      /\ job'[e].recovery = recovery /\ job'[e].resume = resume
  BY <1>1
<1>3. \A i \in Members[r] : i \in Images /\ b[i] = state[e][i]
  BY ContentAssumption
<1>. HIDE DEF b, j
<1>4. RestInv(e)'
  BY DEF LocalInv, RestInv
<1>5. JobInv(e)'
  BY <1>2, <1>3 DEF LocalInv, RestInv, JobInv, At, Target, Accepted
<1>. QED BY <1>1, <1>4, <1>5, Frame DEF LocalInv

\* A selected release is not below the watermarks read with it.
LEMMA SelectInv ==
    ASSUME LocalInv, NEW e \in Envs, NEW requested, NEW hours, NEW resume \in BOOLEAN,
           Promote(e, requested, hours, resume)
    PROVE  \A f \in Envs : RestInv(f)' /\ JobInv(f)'
<1>1. PICK r \in Releases : /\ Begin(e, r, FALSE, resume)
                            /\ Accepted(e, r, resume)
  BY DEF Promote, Eligible, Offered
<1>. QED BY <1>1, BeginInv DEF Promote, storeVars, registryVars

\* The same for the promotion approve_dev goes on to.
LEMMA DecideInv ==
    ASSUME LocalInv, DecideDev
    PROVE  \A f \in Envs : RestInv(f)' /\ JobInv(f)'
<1>. DEFINE r == job["DEV"].rel
<1>1. r \in Releases
  BY DEF LocalInv, TypeInv, JobShape, DecideDev, At
<1>2. UNCHANGED <<passed, state, stable, tampered>>
  BY DEF DecideDev, storeVars, registryVars
<1>3. CASE Begin("DEV", r, FALSE, FALSE) /\ Accepted("DEV", r, FALSE)
  BY <1>1, <1>2, <1>3, BeginInv
<1>4. CASE End("DEV")
  <2>1. RestInv("DEV")'
    BY <1>2 DEF LocalInv, RestInv
  <2>. QED BY <1>2, <1>4, <2>1, IdleInv, Frame DEF LocalInv
<1>. QED BY <1>3, <1>4 DEF DecideDev, Eligible

\* A recovery may go below the watermarks, but it has read them.
LEMMA RecoverInv ==
    ASSUME LocalInv, NEW r \in Releases, RecoverHom(r)
    PROVE  \A f \in Envs : RestInv(f)' /\ JobInv(f)'
BY BeginInv DEF RecoverHom, storeVars, registryVars

\* The candidate record touches neither the tags nor the state records.
LEMMA ApproveDevInv ==
    ASSUME LocalInv, NEW r \in Releases, ApproveDev(r)
    PROVE  \A f \in Envs : RestInv(f)' /\ JobInv(f)'
<1>1. /\ UNCHANGED <<passed, state, stable, tampered>>
      /\ job["DEV"].pc = "idle"
      /\ \/ job' = [job EXCEPT !["DEV"].pc = "decide", !["DEV"].rel = r]
         \/ UNCHANGED job
  BY DEF ApproveDev, registryVars, At
<1>2. /\ job'["DEV"].pc \in {"idle", "decide"}
      /\ job'["HOM"] = job["HOM"]
  BY <1>1 DEF LocalInv, TypeInv, TypeOK, Job
<1>3. RestInv("DEV")' /\ JobInv("DEV")'
  BY <1>1, <1>2 DEF LocalInv, RestInv, JobInv, At
<1>. QED BY <1>1, <1>2, <1>3, Frame DEF LocalInv

\* A step that leaves records, tags and history alone and ends the job, or
\* moves it to a stage its knowledge allows.
LEMMA MoveInv ==
    ASSUME LocalInv, NEW e \in Envs,
           Gates(e) \/ ObserveBefore(e) \/ PutStarted(e) \/ FinalReadBack(e) \/ PutCompleted(e)
    PROVE  \A f \in Envs : RestInv(f)' /\ JobInv(f)'
<1>1. UNCHANGED <<passed, state, stable, tampered>>
  BY DEF Gates, ObserveBefore, PutStarted, FinalReadBack, PutCompleted, storeVars, registryVars
<1>2. RestInv(e)'
  BY <1>1 DEF LocalInv, RestInv
<1>3. CASE End(e)
  BY <1>1, <1>2, <1>3, IdleInv, Frame DEF LocalInv
<1>4. ASSUME NEW stage \in Stages, Goto(e, stage),
             \/ job[e].pc = "gates" /\ stage \in {"copy", "observe"}
             \/ job[e].pc = "observe" /\ stage = "hold"
             \/ job[e].pc = "start" /\ stage = "write"
             \/ job[e].pc = "final" /\ stage = "complete" /\ Serves(e, job[e].rel)
             \/ job[e].pc = "complete" /\ stage \in {"receipt", "commit"}
             \/ job[e].pc \in {"final", "complete"} /\ stage = "rehold"
      PROVE  \A f \in Envs : RestInv(f)' /\ JobInv(f)'
  <2>1. /\ job'[e].pc = stage /\ job'[e].rel = job[e].rel /\ job'[e].todo = Target(e)
        /\ job'[e].before = job[e].before /\ job'[e].recovery = job[e].recovery
        /\ job'[e].resume = job[e].resume
        /\ \A f \in Envs \ {e} : job'[f] = job[f]
    BY <1>4, Carries DEF LocalInv
  <2>2. Target(e)' = Target(e) /\ ~At(e, "idle") /\ JobInv(e)
    BY <1>4, <2>1 DEF LocalInv, At, Target
  <2>3. \A i \in Target(e) : Held(e, i)' = Held(e, i) /\ Released(e, i)' = Released(e, i)
    BY <2>1 DEF Held, Released
  <2>4. ASSUME NEW i \in Target(e)
        PROVE  /\ stage \in {"copy", "observe"} => state[e][i] = job[e].before[i]
               /\ stage = "hold" => state[e][i] = job[e].before[i]
               /\ stage \in {"write", "complete", "receipt", "commit", "rehold"} =>
                     state[e][i] = Held(e, i)
               /\ \A r \in passed[e] : i \in Members[r] => job[e].before[i].mark >= r
               /\ job[e].before[i].hold => job[e].resume \/ job[e].recovery
               /\ job[e].rel >= job[e].before[i].mark \/ job[e].recovery
    BY <1>4, <2>2 DEF JobInv
  <2>5. stage \in {"complete", "receipt", "commit"} => Serves(e, job[e].rel)
    BY <1>4, <2>2 DEF JobInv
  <2>6. Serves(e, job[e].rel) => Serves(e, job[e].rel)'
    BY <1>1, <2>1 DEF Serves
  <2>7. JobInv(e)'
    BY <1>1, <1>4, <2>1, <2>2, <2>3, <2>4, <2>5, <2>6 DEF JobInv, At
  <2>. QED BY <1>1, <1>2, <2>1, <2>7, Frame DEF LocalInv
<1>5. CASE Gates(e)
  BY <1>3, <1>4, <1>5 DEF Gates, At, Stages
<1>6. CASE ObserveBefore(e)
  BY <1>3, <1>4, <1>6 DEF ObserveBefore, At, Stages
<1>7. CASE PutStarted(e)
  BY <1>3, <1>4, <1>7 DEF PutStarted, At, Stages
<1>8. CASE FinalReadBack(e)
  BY <1>3, <1>4, <1>8 DEF FinalReadBack, At, Stages, Serves, Target
<1>9. CASE PutCompleted(e)
  BY <1>3, <1>4, <1>9 DEF PutCompleted, At, Stages
<1>. QED BY <1>5, <1>6, <1>7, <1>8, <1>9

\* Steps that end the job, or advance a HOM promotion between its gates and its
\* records, and write neither the records nor the tags of the destination.
LEMMA EndInv ==
    ASSUME LocalInv, NEW e \in Envs, End(e), UNCHANGED <<passed, state, stable, tampered>>
    PROVE  \A f \in Envs : RestInv(f)' /\ JobInv(f)'
<1>1. RestInv(e)'
  BY DEF LocalInv, RestInv
<1>. QED BY <1>1, IdleInv, Frame DEF LocalInv

\* Neither does a copy.
LEMMA CopyImageInv ==
    ASSUME LocalInv, NEW i \in Images, CopyImage(i)
    PROVE  \A f \in Envs : RestInv(f)' /\ JobInv(f)'
<1>1. /\ UNCHANGED <<passed, state, stable, tampered>>
      /\ Done("HOM", i, "import") \/ End("HOM")
      /\ job["HOM"].pc = "copy" /\ Reached("HOM", i)
  BY DEF CopyImage, storeVars, At
<1>2. CASE Done("HOM", i, "import")
  <2>1. /\ job'["HOM"].pc \in {"copy", "import"}
        /\ job'["HOM"].rel = job["HOM"].rel /\ job'["HOM"].before = job["HOM"].before
        /\ job'["HOM"].recovery = job["HOM"].recovery /\ job'["HOM"].resume = job["HOM"].resume
        /\ \A f \in Envs \ {"HOM"} : job'[f] = job[f]
    BY <1>1, <1>2, Rounds DEF LocalInv, TypeInv, JobShape, Stages, Loops
  <2>2. RestInv("HOM")'
    BY <1>1 DEF LocalInv, RestInv
  <2>3. JobInv("HOM")'
    BY <1>1, <2>1 DEF LocalInv, JobInv, At, Target
  <2>. QED BY <1>1, <2>1, <2>2, <2>3, Frame DEF LocalInv
<1>. QED BY <1>1, <1>2, EndInv

\* Nor the two other immutable records of HOM.
LEMMA StoreMoveInv ==
    ASSUME LocalInv, PutTargetManifest \/ PutPromoted
    PROVE  \A f \in Envs : RestInv(f)' /\ JobInv(f)'
<1>1. /\ UNCHANGED <<passed, state, stable, tampered>>
      /\ \/ End("HOM")
         \/ job["HOM"].pc = "import" /\ Goto("HOM", "observe")
         \/ job["HOM"].pc = "receipt" /\ Goto("HOM", "commit")
         \/ job["HOM"].pc = "receipt" /\ Goto("HOM", "rehold")
  BY DEF PutTargetManifest, PutPromoted, registryVars, At
<1>2. ASSUME NEW stage \in Stages, Goto("HOM", stage),
             \/ job["HOM"].pc = "import" /\ stage = "observe"
             \/ job["HOM"].pc = "receipt" /\ stage \in {"commit", "rehold"}
      PROVE  \A f \in Envs : RestInv(f)' /\ JobInv(f)'
  <2>1. /\ job'["HOM"].pc = stage /\ job'["HOM"].rel = job["HOM"].rel
        /\ job'["HOM"].todo = Target("HOM") /\ job'["HOM"].before = job["HOM"].before
        /\ job'["HOM"].recovery = job["HOM"].recovery /\ job'["HOM"].resume = job["HOM"].resume
        /\ \A f \in Envs \ {"HOM"} : job'[f] = job[f]
    BY <1>2, Carries DEF LocalInv
  <2>2. RestInv("HOM")'
    BY <1>1 DEF LocalInv, RestInv
  <2>3. JobInv("HOM")'
    BY <1>1, <1>2, <2>1 DEF LocalInv, JobInv, At, Target, Held, Released, Serves
  <2>. QED BY <1>1, <2>1, <2>2, <2>3, Frame DEF LocalInv
<1>. QED BY <1>1, <1>2, EndInv DEF Stages

\* A job that holds a member: the record is on hold and keeps its watermark.
LEMMA PutHoldInv ==
    ASSUME LocalInv, NEW e \in Envs, NEW i \in Images, PutHold(e, i)
    PROVE  \A f \in Envs : RestInv(f)' /\ JobInv(f)'
<1>1. PICK outcome \in Outcomes :
        /\ state' = IF Landed(outcome) THEN [state EXCEPT ![e][i] = Held(e, i)] ELSE state
        /\ IF outcome = "ok" THEN Done(e, i, "start") ELSE End(e)
  BY DEF PutHold
<1>2. /\ job[e].pc = "hold" /\ Reached(e, i)
      /\ job[e].todo \subseteq Target(e) /\ i \in Target(e)
      /\ UNCHANGED <<passed, stable, tampered>>
  BY DEF PutHold, At, registryVars, LocalInv, TypeInv, JobShape, Loops, Reached
<1>3. /\ \A f \in Envs \ {e} : state'[f] = state[f]
      /\ \A k \in Images \ {i} : state'[e][k] = state[e][k]
      /\ state'[e][i] \in {state[e][i], Held(e, i)}
      /\ outcome = "ok" => state'[e][i] = Held(e, i)
  BY <1>1 DEF LocalInv, TypeInv, TypeOK, Landed, Outcomes
<1>4. Held(e, i).hold = TRUE /\ Held(e, i).mark = job[e].before[i].mark
  BY RecordFields DEF LocalInv
<1>5. \A r \in passed[e] : i \in Members[r] => job[e].before[i].mark >= r
  BY <1>2 DEF LocalInv, JobInv
<1>6. \A r \in passed[e] : Members[r] \subseteq Images
  BY ContentAssumption DEF LocalInv, TypeInv, TypeOK
<1>7. \A u \in Units : u \subseteq Images
  BY UnitAssumption
<1>8. RestInv(e)'
  <2>1. RestInv(e)
    BY DEF LocalInv
  <2>. QED BY <1>2, <1>3, <1>4, <1>5, <1>6, <1>7, <2>1 DEF RestInv
<1>9. CASE outcome # "ok"
  BY <1>1, <1>2, <1>3, <1>8, <1>9, IdleInv, Frame DEF LocalInv
<1>10. CASE outcome = "ok"
  <2>1. /\ \/ job[e].todo = {i} /\ job'[e].pc = "start" /\ job'[e].todo = Target(e)
           \/ job'[e].pc = "hold" /\ job'[e].todo = job[e].todo \ {i}
        /\ job'[e].rel = job[e].rel /\ job'[e].before = job[e].before
        /\ job'[e].recovery = job[e].recovery /\ job'[e].resume = job[e].resume
        /\ \A f \in Envs \ {e} : job'[f] = job[f]
    BY <1>1, <1>2, <1>10, Rounds DEF LocalInv, Stages
  <2>2. Target(e)' = Target(e) /\ Target(e) \subseteq Images
    BY <1>2, <2>1, ContentAssumption DEF Target, LocalInv, TypeInv, JobShape, At
  <2>3. \A k \in Images : Held(e, k)' = Held(e, k)
    BY <2>1 DEF Held
  <2>4. \A k \in Target(e) :
          state[e][k] = IF k \in job[e].todo THEN job[e].before[k] ELSE Held(e, k)
    BY <1>2 DEF LocalInv, JobInv, At
  <2>5. \A k \in Target(e) : /\ \A r \in passed[e] : k \in Members[r] => job[e].before[k].mark >= r
                             /\ job[e].before[k].hold => job[e].resume \/ job[e].recovery
                             /\ job[e].rel >= job[e].before[k].mark \/ job[e].recovery
    BY <1>2 DEF LocalInv, JobInv
  <2>6. JobInv(e)'
    BY <1>2, <1>3, <1>10, <2>1, <2>2, <2>3, <2>4, <2>5 DEF JobInv, At
  <2>. QED BY <1>2, <1>3, <1>8, <2>1, <2>6, Frame DEF LocalInv
<1>. QED BY <1>9, <1>10

\* A tag write under the hold of every member.
LEMMA WriteStableInv ==
    ASSUME LocalInv, NEW e \in Envs, NEW i \in Images, WriteStable(e, i)
    PROVE  \A f \in Envs : RestInv(f)' /\ JobInv(f)'
<1>1. /\ \/ UNCHANGED <<stable, tampered>>
         \/ /\ stable' = [stable EXCEPT ![e][i] = Digest[job[e].rel][i]]
            /\ tampered' = [tampered EXCEPT ![e] = @ \ {i}]
      /\ Done(e, i, "final") \/ Goto(e, "rehold")
      /\ job[e].pc = "write" /\ Reached(e, i)
      /\ job[e].todo \subseteq Target(e) /\ i \in Target(e)
      /\ UNCHANGED <<passed, state>>
  BY DEF WriteStable, At, storeVars, LocalInv, TypeInv, JobShape, Loops, Reached
<1>2. /\ \A f \in Envs \ {e} : stable'[f] = stable[f] /\ tampered'[f] = tampered[f]
      /\ \A k \in Images \ {i} : /\ stable'[e][k] = stable[e][k]
                                 /\ k \in tampered[e] => k \in tampered'[e]
                                 /\ k \in tampered'[e] => k \in tampered[e]
  BY <1>1 DEF LocalInv, TypeInv, TypeOK
<1>3. \A k \in Target(e) : state[e][k] = Held(e, k)
  BY <1>1 DEF LocalInv, JobInv, At
<1>4. state[e][i].hold = TRUE
  <2>1. Held(e, i).hold = TRUE
    BY RecordFields DEF LocalInv
  <2>. QED BY <1>1, <1>3, <2>1
<1>5. RestInv(e)'
  <2>1. RestInv(e)
    BY DEF LocalInv
  <2>. QED BY <1>1, <1>2, <1>4, <2>1 DEF RestInv
<1>6. /\ job'[e].pc \in {"write", "final", "rehold"}
      /\ job'[e].rel = job[e].rel /\ job'[e].before = job[e].before
      /\ job'[e].recovery = job[e].recovery /\ job'[e].resume = job[e].resume
      /\ \A f \in Envs \ {e} : job'[f] = job[f]
  BY <1>1, Rounds, Carries DEF LocalInv, Stages
<1>7. JobInv(e)'
  <2>1. Target(e)' = Target(e)
    BY <1>6 DEF Target
  <2>2. \A k \in Target(e) : Held(e, k)' = Held(e, k)
    BY <1>6 DEF Held
  <2>3. \A k \in Target(e) : /\ \A r \in passed[e] : k \in Members[r] => job[e].before[k].mark >= r
                             /\ job[e].before[k].hold => job[e].resume \/ job[e].recovery
                             /\ job[e].rel >= job[e].before[k].mark \/ job[e].recovery
    BY <1>1 DEF LocalInv, JobInv
  <2>. QED BY <1>1, <1>3, <1>6, <2>1, <2>2, <2>3 DEF JobInv, At
<1>. QED BY <1>1, <1>2, <1>5, <1>6, <1>7, Frame DEF LocalInv

\* The "except" clause: each member goes back on hold, or stays as it was.
LEMMA ReHoldInv ==
    ASSUME LocalInv, NEW e \in Envs, NEW i \in Images, ReHold(e, i)
    PROVE  \A f \in Envs : RestInv(f)' /\ JobInv(f)'
<1>1. PICK outcome \in Outcomes :
        state' = IF Landed(outcome) THEN [state EXCEPT ![e][i] = Held(e, i)] ELSE state
  BY DEF ReHold
<1>2. /\ job[e].pc = "rehold" /\ Reached(e, i)
      /\ job[e].todo \subseteq Target(e) /\ i \in Target(e)
      /\ UNCHANGED <<passed, stable, tampered>>
      /\ End(e) \/ Done(e, i, "rehold")
  BY DEF ReHold, At, registryVars, LocalInv, TypeInv, JobShape, Loops, Reached
<1>3. /\ \A f \in Envs \ {e} : state'[f] = state[f]
      /\ \A k \in Images \ {i} : state'[e][k] = state[e][k]
      /\ state'[e][i] \in {state[e][i], Held(e, i)}
  BY <1>1 DEF LocalInv, TypeInv, TypeOK
<1>4. Held(e, i).hold = TRUE /\ Held(e, i).mark = job[e].before[i].mark
  BY RecordFields DEF LocalInv
<1>5. \A k \in Target(e) : /\ \A r \in passed[e] : k \in Members[r] => job[e].before[k].mark >= r
                           /\ job[e].before[k].hold => job[e].resume \/ job[e].recovery
                           /\ job[e].rel >= job[e].before[k].mark \/ job[e].recovery
  BY <1>2 DEF LocalInv, JobInv
<1>6. /\ \A r \in passed[e] : Members[r] \subseteq Images
      /\ \A u \in Units : u \subseteq Images
  BY ContentAssumption, UnitAssumption DEF LocalInv, TypeInv, TypeOK
<1>7. RestInv(e)'
  <2>1. RestInv(e)
    BY DEF LocalInv
  <2>. QED BY <1>2, <1>3, <1>4, <1>5, <1>6, <2>1 DEF RestInv
<1>8. CASE End(e)
  BY <1>2, <1>3, <1>7, <1>8, IdleInv, Frame DEF LocalInv
<1>9. CASE Done(e, i, "rehold")
  <2>1. /\ job'[e].pc = "rehold"
        /\ job'[e].rel = job[e].rel /\ job'[e].before = job[e].before
        /\ job'[e].recovery = job[e].recovery /\ job'[e].resume = job[e].resume
        /\ \A f \in Envs \ {e} : job'[f] = job[f]
    BY <1>2, <1>9, Rounds DEF LocalInv, Stages
  <2>2. Target(e)' = Target(e) /\ Target(e) \subseteq Images
    BY <1>2, <2>1, ContentAssumption DEF Target, LocalInv, TypeInv, JobShape, At
  <2>3. \A k \in Images : Held(e, k)' = Held(e, k) /\ Released(e, k)' = Released(e, k)
    BY <2>1 DEF Held, Released
  <2>4. \A k \in Target(e) : state[e][k] \in {Held(e, k), Released(e, k)}
    BY <1>2 DEF LocalInv, JobInv, At
  <2>5. JobInv(e)'
    BY <1>2, <1>3, <1>5, <2>1, <2>2, <2>3, <2>4 DEF JobInv, At
  <2>. QED BY <1>2, <1>3, <1>7, <2>1, <2>5, Frame DEF LocalInv
<1>. QED BY <1>2, <1>8, <1>9

\* The new records: every member is in place, so taking the hold off is sound;
\* the unit of a released member lies wholly inside the release.
LEMMA PutStateInv ==
    ASSUME LocalInv, NEW e \in Envs, NEW i \in Images, PutState(e, i)
    PROVE  \A f \in Envs : RestInv(f)' /\ JobInv(f)'
<1>1. PICK outcome \in Outcomes :
        /\ state' = IF Landed(outcome) THEN [state EXCEPT ![e][i] = Released(e, i)] ELSE state
        /\ CASE outcome # "ok" -> Goto(e, "rehold") /\ UNCHANGED passed
             [] outcome = "ok" /\ job[e].todo # {i} -> Done(e, i, "commit") /\ UNCHANGED passed
             [] outcome = "ok" /\ job[e].todo = {i} ->
                    /\ IF e = "DEV" THEN Goto(e, "approve") ELSE End(e)
                    /\ passed' = [passed EXCEPT ![e] =
                                     IF job[e].recovery THEN @ ELSE @ \cup {job[e].rel}]
  BY DEF PutState
<1>2. /\ job[e].pc = "commit" /\ Reached(e, i) /\ job[e].rel \in Releases
      /\ job[e].todo \subseteq Target(e) /\ i \in Target(e) /\ i \in job[e].todo
      /\ Target(e) \subseteq Images
      /\ UNCHANGED <<stable, tampered>>
  BY ContentAssumption
     DEF PutState, At, registryVars, LocalInv, TypeInv, JobShape, Loops, Reached, Target
<1>3. /\ \A f \in Envs \ {e} : state'[f] = state[f]
      /\ \A k \in Images \ {i} : state'[e][k] = state[e][k]
      /\ state'[e][i] \in {state[e][i], Released(e, i)}
      /\ outcome = "ok" => state'[e][i] = Released(e, i)
  BY <1>1 DEF LocalInv, TypeInv, TypeOK, Landed, Outcomes
<1>4. \A k \in Target(e) :
        state[e][k] = IF k \in job[e].todo THEN Held(e, k) ELSE Released(e, k)
  BY <1>2 DEF LocalInv, JobInv, At
<1>5. \A k \in Target(e) : /\ \A r \in passed[e] : k \in Members[r] => job[e].before[k].mark >= r
                           /\ job[e].before[k].hold => job[e].resume \/ job[e].recovery
                           /\ job[e].rel >= job[e].before[k].mark \/ job[e].recovery
  BY <1>2 DEF LocalInv, JobInv
<1>6. Serves(e, job[e].rel)
  BY <1>2 DEF LocalInv, JobInv
<1>7. ASSUME NEW k \in Images
      PROVE  /\ Held(e, k).hold = TRUE /\ Released(e, k).hold = job[e].recovery
             /\ Released(e, k).rel = job[e].rel
             /\ Released(e, k).digest = Digest[job[e].rel][k]
             /\ Released(e, k).mark = MaxOf(job[e].before[k].mark, job[e].rel)
  <2>1. TypeInv
    BY DEF LocalInv
  <2>. QED BY <2>1, RecordFields
<1>8. \A k \in Images : job[e].before[k].mark \in Nat
  <2>1. job[e].before \in [Images -> StateRecord]
    BY DEF LocalInv, TypeInv, TypeOK, Job
  <2>2. \A k \in Images : job[e].before[k].mark \in Releases \cup {0}
    BY <2>1 DEF StateRecord
  <2>3. Releases \subseteq Nat
    BY ReleaseAssumption
  <2>4. Releases \cup {0} \subseteq Nat
    BY <2>3
  <2>. QED BY <2>2, <2>4
<1>9. passed[e] \subseteq Releases /\ Releases \subseteq Nat
  BY ReleaseAssumption DEF LocalInv, TypeInv, TypeOK
<1>10. \A k \in Target(e) : /\ Released(e, k).mark >= job[e].rel
                            /\ \A r \in passed[e] : k \in Members[r] => Released(e, k).mark >= r
  <2>1. ASSUME NEW k \in Target(e)
        PROVE  /\ Released(e, k).mark >= job[e].rel
               /\ Released(e, k).mark >= job[e].before[k].mark
               /\ Released(e, k).mark \in Nat
    <3>1. /\ k \in Images /\ job[e].before[k].mark \in Nat /\ job[e].rel \in Nat
          /\ Released(e, k).mark = MaxOf(job[e].before[k].mark, job[e].rel)
      BY <1>2, <1>7, <1>8, <1>9
    <3>. QED BY <3>1 DEF MaxOf
  <2>2. ASSUME NEW k \in Target(e), NEW r \in passed[e], k \in Members[r]
        PROVE  Released(e, k).mark >= r
    <3>1. job[e].before[k].mark >= r /\ job[e].before[k].mark \in Nat /\ r \in Nat
      BY <1>2, <1>5, <1>8, <1>9, <2>2
    <3>. QED BY <2>1, <3>1
  <2>. QED BY <2>1, <2>2
<1>11. \A k \in Images :
         ~state'[e][k].hold /\ k \notin tampered'[e] => stable'[e][k] = state'[e][k].digest
  <2>1. stable[e][i] = Digest[job[e].rel][i] \/ i \in tampered[e]
    BY <1>2, <1>6 DEF Serves, Target
  <2>2. \A k \in Images :
          ~state[e][k].hold /\ k \notin tampered[e] => stable[e][k] = state[e][k].digest
    BY DEF LocalInv, RestInv
  <2>3. Released(e, i).digest = Digest[job[e].rel][i] /\ i \in Images
    BY <1>2, <1>7
  <2>. QED BY <1>2, <1>3, <2>1, <2>2, <2>3
<1>12. \A u \in Units : \A j, k \in u :
         ~state'[e][j].hold /\ ~state'[e][k].hold => state'[e][j].rel = state'[e][k].rel
  <2>1. SUFFICES ASSUME NEW u \in Units, NEW j \in u, NEW k \in u,
                        ~state'[e][j].hold, ~state'[e][k].hold
                 PROVE  state'[e][j].rel = state'[e][k].rel
    OBVIOUS
  <2>2. j \in Images /\ k \in Images
    BY UnitAssumption
  <2>3. CASE u \subseteq Target(e)
    <3>1. ASSUME NEW m \in u, ~state'[e][m].hold
          PROVE  state'[e][m].rel = job[e].rel
      <4>1. m \in Target(e) /\ m \in Images
        BY <1>2, <2>3
      <4>2. state'[e][m] = Held(e, m) \/ state'[e][m] = Released(e, m)
        BY <1>3, <1>4, <4>1
      <4>. QED BY <1>7, <3>1, <4>1, <4>2
    <3>. QED BY <2>1, <3>1
  <2>4. CASE ~(u \subseteq Target(e))
    <3>1. i \notin u
      BY <1>2, <2>4, UnitAssumption DEF Target
    <3>. QED BY <1>3, <2>1, <2>2, <3>1 DEF LocalInv, RestInv
  <2>. QED BY <2>3, <2>4
<1>13. \A r \in passed[e] : \A k \in Members[r] : state'[e][k].mark >= r
  <2>1. \A r \in passed[e] : Members[r] \subseteq Images
    BY <1>9, ContentAssumption
  <2>2. \A r \in passed[e] : \A k \in Members[r] : state[e][k].mark >= r
    BY DEF LocalInv, RestInv
  <2>. QED BY <1>2, <1>3, <1>10, <2>1, <2>2
<1>14. ASSUME UNCHANGED passed PROVE RestInv(e)'
  BY <1>11, <1>12, <1>13, <1>14 DEF RestInv
<1>15. CASE outcome # "ok"
  <2>1. Goto(e, "rehold") /\ UNCHANGED passed
    BY <1>1, <1>15
  <2>2. /\ job'[e].pc = "rehold"
        /\ job'[e].rel = job[e].rel /\ job'[e].before = job[e].before
        /\ job'[e].recovery = job[e].recovery /\ job'[e].resume = job[e].resume
        /\ \A f \in Envs \ {e} : job'[f] = job[f]
    BY <2>1, Carries DEF LocalInv, Stages
  <2>3. Target(e)' = Target(e)
    BY <2>2 DEF Target
  <2>4. \A k \in Images : Held(e, k)' = Held(e, k) /\ Released(e, k)' = Released(e, k)
    BY <2>2 DEF Held, Released
  <2>5. \A k \in Target(e) : state'[e][k] \in {Held(e, k), Released(e, k)}
    BY <1>2, <1>3, <1>4
  <2>6. JobInv(e)'
    BY <1>2, <1>5, <2>1, <2>2, <2>3, <2>4, <2>5 DEF JobInv, At
  <2>. QED BY <1>2, <1>3, <1>14, <2>1, <2>2, <2>6, Frame DEF LocalInv
<1>16. CASE outcome = "ok" /\ job[e].todo # {i}
  <2>1. Done(e, i, "commit") /\ UNCHANGED passed
    BY <1>1, <1>16
  <2>2. /\ job'[e].pc = "commit" /\ job'[e].todo = job[e].todo \ {i}
        /\ job'[e].rel = job[e].rel /\ job'[e].before = job[e].before
        /\ job'[e].recovery = job[e].recovery /\ job'[e].resume = job[e].resume
        /\ \A f \in Envs \ {e} : job'[f] = job[f]
    BY <1>2, <1>16, <2>1, Rounds DEF LocalInv, Stages
  <2>3. Target(e)' = Target(e)
    BY <2>2 DEF Target
  <2>4. \A k \in Images : Held(e, k)' = Held(e, k) /\ Released(e, k)' = Released(e, k)
    BY <2>2 DEF Held, Released
  <2>5. \A k \in Target(e) :
          state'[e][k] = IF k \in job'[e].todo THEN Held(e, k) ELSE Released(e, k)
    BY <1>2, <1>3, <1>4, <1>16, <2>2
  <2>6. Serves(e, job[e].rel)'
    BY <1>2, <1>6, <2>2 DEF Serves
  <2>7. JobInv(e)'
    BY <1>2, <1>5, <2>1, <2>2, <2>3, <2>4, <2>5, <2>6 DEF JobInv, At
  <2>. QED BY <1>2, <1>3, <1>14, <2>1, <2>2, <2>7, Frame DEF LocalInv
<1>17. CASE outcome = "ok" /\ job[e].todo = {i}
  <2>1. /\ (e = "DEV" /\ Goto(e, "approve")) \/ End(e)
        /\ passed' = [passed EXCEPT ![e] = IF job[e].recovery THEN @ ELSE @ \cup {job[e].rel}]
    BY <1>1, <1>17
  <2>2. /\ \A f \in Envs \ {e} : passed'[f] = passed[f]
        /\ passed'[e] \subseteq passed[e] \cup {job[e].rel}
    BY <2>1 DEF LocalInv, TypeInv, TypeOK
  <2>3. \A k \in Target(e) : state'[e][k] = Released(e, k)
    BY <1>2, <1>3, <1>4, <1>17
  <2>4. \A k \in Members[job[e].rel] : state'[e][k].mark >= job[e].rel
    BY <1>10, <2>3 DEF Target
  <2>5. RestInv(e)'
    BY <1>11, <1>12, <1>13, <2>2, <2>4 DEF RestInv
  <2>6. CASE End(e)
    BY <1>2, <1>3, <2>2, <2>5, <2>6, IdleInv, Frame DEF LocalInv
  <2>7. CASE e = "DEV" /\ Goto(e, "approve")
    <3>1. /\ job'[e].pc = "approve"
          /\ job'[e].rel = job[e].rel /\ job'[e].before = job[e].before
          /\ job'[e].recovery = job[e].recovery
          /\ \A f \in Envs \ {e} : job'[f] = job[f]
      BY <2>7, Carries DEF LocalInv, Stages
    <3>2. Target(e)' = Target(e)
      BY <3>1 DEF Target
    <3>3. \A k \in Images : Released(e, k)' = Released(e, k)
      BY <3>1 DEF Released
    <3>4. Serves(e, job[e].rel)'
      BY <1>2, <1>6, <3>1 DEF Serves
    <3>5. JobInv(e)'
      BY <1>2, <2>3, <3>1, <3>2, <3>3, <3>4 DEF JobInv, At
    <3>. QED BY <1>2, <1>3, <2>2, <2>5, <3>1, <3>5, Frame DEF LocalInv
  <2>. QED BY <2>1, <2>6, <2>7
<1>. QED BY <1>15, <1>16, <1>17

\* A tag an administrator moved is marked as such; nothing else changes.
LEMMA AdminWriteInv ==
    ASSUME LocalInv, NEW e \in Envs, NEW i \in Images, AdminWrite(e, i)
    PROVE  \A f \in Envs : RestInv(f)' /\ JobInv(f)'
<1>1. /\ UNCHANGED <<job, passed, state>>
      /\ \E d \in Digests \cup {NoDigest} : stable' = [stable EXCEPT ![e][i] = d]
      /\ tampered' = [tampered EXCEPT ![e] = @ \cup {i}]
  BY DEF AdminWrite, storeVars
<1>2. /\ \A f \in Envs \ {e} : stable'[f] = stable[f] /\ tampered'[f] = tampered[f]
      /\ \A k \in Images \ {i} : stable'[e][k] = stable[e][k]
      /\ tampered'[e] = tampered[e] \cup {i}
  BY <1>1 DEF LocalInv, TypeInv, TypeOK
<1>3. RestInv(e)'
  <2>1. RestInv(e)
    BY DEF LocalInv
  <2>. QED BY <1>1, <1>2, <2>1 DEF RestInv
<1>4. ASSUME NEW r \in Releases, Serves(e, r) PROVE Serves(e, r)'
  BY <1>2, <1>4, ContentAssumption DEF Serves
<1>5. JobInv(e)'
  <2>1. job[e].pc # "idle" => job[e].rel \in Releases
    BY DEF LocalInv, TypeInv, JobShape, At
  <2>2. JobInv(e)
    BY DEF LocalInv
  <2>. QED BY <1>1, <1>4, <2>1, <2>2 DEF JobInv, At, Target, Held, Released
<1>. QED BY <1>1, <1>2, <1>3, <1>5, Frame DEF LocalInv

\* The records and tags of the seeded history agree.
LEMMA LocalInit == Init => LocalInv
<1>. SUFFICES ASSUME Init PROVE LocalInv
  OBVIOUS
<1>1. TypeInv
  BY InitTypes
<1>2. ASSUME NEW i \in Images
      PROVE  /\ LastSeeded(i) # 0 => LastSeeded(i) \in Seeded /\ i \in Members[LastSeeded(i)]
             /\ \A r \in Seeded : i \in Members[r] => LastSeeded(i) >= r
  <2>. DEFINE held == {r \in Seeded : i \in Members[r]}
  <2>1. CASE held = {}
    BY <2>1 DEF LastSeeded
  <2>2. CASE held # {}
    <3>1. held \in SUBSET Nat /\ IsFiniteSet(held)
      BY ReleaseAssumption, FS_Subset
    <3>2. \E r \in held : \A q \in held : q <= r
      BY <2>2, <3>1, LargestElement
    <3>3. LastSeeded(i) = CHOOSE r \in held : \A q \in held : q <= r
      BY <2>2 DEF LastSeeded
    <3>. QED BY <3>1, <3>2, <3>3
  <2>. QED BY <2>1, <2>2
<1>3. ASSUME NEW u \in Units, NEW i \in u, NEW j \in u
      PROVE  LastSeeded(i) = LastSeeded(j)
  <2>1. \A r \in Seeded : i \in Members[r] <=> j \in Members[r]
    BY UnitAssumption, ReleaseAssumption
  <2>2. i \in Images /\ j \in Images
    BY UnitAssumption
  <2>3. \A r \in Seeded : r \in Nat /\ r # 0
    BY ReleaseAssumption
  <2>4. LastSeeded(i) \in Seeded \cup {0} /\ LastSeeded(j) \in Seeded \cup {0}
    BY <2>2, LastSeededType
  <2>5. LastSeeded(i) # 0 => LastSeeded(j) >= LastSeeded(i)
    BY <1>2, <2>1, <2>2
  <2>6. LastSeeded(j) # 0 => LastSeeded(i) >= LastSeeded(j)
    BY <1>2, <2>1, <2>2
  <2>. QED BY <2>3, <2>4, <2>5, <2>6
<1>4. ASSUME NEW e \in Envs PROVE JobInv(e)
  BY DEF Init, JobInv, At, Idle
<1>5. RestInv("HOM")
  BY UnitAssumption DEF Init, RestInv, Absent
<1>6. RestInv("DEV")
  <2>1. \A i \in Images :
          /\ state["DEV"][i].hold = FALSE
          /\ stable["DEV"][i] = state["DEV"][i].digest
          /\ state["DEV"][i].rel = LastSeeded(i)
          /\ state["DEV"][i].mark = LastSeeded(i)
    BY DEF Init, Absent
  <2>2. passed["DEV"] = Seeded
    BY DEF Init
  <2>3. \A u \in Units : u \subseteq Images
    BY UnitAssumption
  <2>4. \A r \in Seeded : Members[r] \subseteq Images
    BY ReleaseAssumption, ContentAssumption
  <2>. QED BY <1>2, <1>3, <2>1, <2>2, <2>3, <2>4 DEF RestInv
<1>. QED BY <1>1, <1>4, <1>5, <1>6 DEF LocalInv

\* Every step keeps records, tags and jobs of both destinations in agreement.
LEMMA LocalStep == LocalInv /\ [Next]_vars => LocalInv'
<1>. SUFFICES ASSUME LocalInv, [Next]_vars PROVE LocalInv'
  OBVIOUS
<1>1. TypeInv'
  BY TypeStep DEF LocalInv
<1>. SUFFICES \A f \in Envs : RestInv(f)' /\ JobInv(f)'
  BY <1>1 DEF LocalInv
<1>2. ASSUME NEW e \in Envs, JobStep(e) PROVE \A f \in Envs : RestInv(f)' /\ JobInv(f)'
  <2>1. CASE PutApproval
    BY <2>1, EndInv DEF PutApproval, registryVars
  <2>. QED BY <1>2, <2>1, DecideInv, CopyImageInv, StoreMoveInv, MoveInv, PutHoldInv,
              WriteStableInv, PutStateInv, ReHoldInv DEF JobStep
<1>3. ASSUME NEW e \in Envs, Schedule(e) \/ Dispatch(e)
      PROVE  \A f \in Envs : RestInv(f)' /\ JobInv(f)'
  BY <1>3, SelectInv DEF Schedule, Dispatch
<1>4. ASSUME NEW e \in Envs, Kill(e) PROVE \A f \in Envs : RestInv(f)' /\ JobInv(f)'
  BY <1>4, EndInv DEF Kill, storeVars, registryVars
<1>5. CASE Tick \/ UNCHANGED vars
  BY <1>5, Frame DEF LocalInv, Tick, vars, storeVars, registryVars
<1>. QED
  BY <1>2, <1>3, <1>4, <1>5, ApproveDevInv, RecoverInv, AdminWriteInv DEF Next
=============================================================================
