---------------------------- MODULE ReleaseProperties ---------------------------
(***************************************************************************)
(* What the release lifecycle must guarantee, stated over ReleaseLifecycle.*)
(***************************************************************************)
EXTENDS ReleaseLifecycle

\* Every variable keeps its type, and a job that is past its selection names a
\* release and still has members to treat.
TypeOK ==
    /\ clock \in Times
    /\ faults \in 0 .. MaxFaults
    /\ stable \in [Envs -> [Images -> Digests \cup {NoDigest}]]
    /\ state \in [Envs -> [Images -> StateRecord]]
    /\ validatedAt \in [Releases -> Times \cup {Never}]
    /\ approvedAt \in [Releases -> Times \cup {Never}]
    /\ mirror \in [Releases -> SUBSET Images]
    /\ imported \subseteq Releases
    /\ promoted \subseteq Releases
    /\ job \in [Envs -> Job]
    /\ passed \in [Envs -> SUBSET Releases]
    /\ tampered \in [Envs -> SUBSET Images]

-----------------------------------------------------------------------------
(* Safety.                                                                 *)

\* At rest or in the middle of a job, after any failure, lost response or
\* kill: an image whose record is not on hold serves exactly the digest its
\* record names (unless an administrator moved it).  This is what makes a hold
\* the only thing an operator has to look for: lifecycle.py puts every hold
\* before the first tag write and lifts it after the last read-back.
UnheldTagIsRecorded ==
    \A e \in Envs, i \in Images :
        ~state[e][i].hold /\ i \notin tampered[e] => stable[e][i] = state[e][i].digest

\* A runtime/dev pair that is not on hold is one release: however a job ended,
\* two members of a unit are never both released and of different releases.
UnheldUnitIsOneRelease ==
    \A e \in Envs, u \in Units : \A i, j \in u :
        ~state[e][i].hold /\ ~state[e][j].hold => state[e][i].rel = state[e][j].rel

\* "Antes de escrever, o processo grava uma pausa para todos os membros": from
\* the first tag write to the last confirmation every member of the release is
\* on hold, and while the records are rewritten the ones still to go are.
EveryMemberHeldWhileWriting ==
    \A e \in Envs :
        /\ job[e].pc \in {"start", "write", "final", "complete", "receipt"} =>
              \A i \in Target(e) : state[e][i].hold
        /\ job[e].pc = "commit" => \A i \in job[e].todo : state[e][i].hold

\* A release whose promotion returned is never forgotten: no later failure,
\* re-hold or recovery puts the watermark of a member below it, so choose()
\* never goes back behind it.
PassedKeepsWatermark ==
    \A e \in Envs : \A r \in passed[e] : \A i \in Members[r] : state[e][i].mark >= r

\* HOM serves only what DEV approved: its stable names a digest of a release
\* with a DEV_STABLE manifest that completed the HOM soak after that approval,
\* was copied, and whose manifest HOM holds, whatever DEV:stable names by now.
HomServesSoakedApprovals ==
    \A i \in Images : i \notin tampered["HOM"] /\ stable["HOM"][i] # NoDigest =>
        \E r \in imported : /\ i \in Members[r]
                            /\ stable["HOM"][i] = Digest[r][i]
                            /\ approvedAt[r] + Soak["HOM"] <= clock
                            /\ Members[r] \subseteq mirror[r]

\* A receipt in promoted/ is a sound recovery target: the release was approved
\* in DEV, is wholly in the HOM registry, and its manifest is in the HOM store.
ReceiptIsRecoverable ==
    \A r \in promoted : /\ r \in imported
                        /\ approvedAt[r] # Never
                        /\ Members[r] \subseteq mirror[r]

-----------------------------------------------------------------------------
(* What a step may never do.                                               *)

Serves(e, r) == \A i \in Members[r] : stable[e][i] = Digest[r][i] \/ i \in tampered[e]

\* "Somente o sucesso completo grava o recibo de promoção": the step that
\* writes a receipt finds every member of the release in stable.
ReceiptOnlyWhenWhole ==
    [][\A r \in promoted' \ promoted : Serves("HOM", r)]_vars

\* The DEV manifest, the only record HOM selects from, is written when every
\* member of the release is in DEV stable and its record says so, off hold.
ApprovalOnlyWhenWhole ==
    [][\A r \in Releases : approvedAt'[r] # approvedAt[r] =>
          /\ Serves("DEV", r)
          /\ \A i \in Members[r] : state["DEV"][i].rel = r /\ ~state["DEV"][i].hold]_vars

\* "A pausa só é removida após sucesso. Um schedule não pode remover pausas":
\* the step that takes a hold off belongs to a promotion whose members are all
\* in place, and one that found the hold there was an explicit resume.
HoldLiftedBySuccess ==
    [][\A e \in Envs, i \in Images : state[e][i].hold /\ ~state'[e][i].hold =>
          /\ ~job[e].recovery
          /\ Serves(e, job[e].rel)
          /\ job[e].before[i].hold => job[e].resume]_vars

-----------------------------------------------------------------------------
(* What the two destinations promise to who consumes them: StableChannel.  *)

\* A unit shows the release of its records, unless a member is on hold.
Shown == [e \in Envs |-> [u \in Units |->
             IF \E i \in u : state[e][i].hold THEN {} ELSE {state[e][i].rel : i \in u}]]

Channel == INSTANCE StableChannel WITH
    Contents <- [r \in Releases |-> {u \in Units : u \subseteq Members[r]}],
    shown <- Shown,
    approved <- {r \in Releases : approvedAt[r] # Never}

\* Every behaviour of the jobs, failures and kills included, is one of the
\* channel: a unit only changes release through a pause, never goes back behind
\* a completed promotion, and HOM only ever shows what DEV approved.
ImplementsChannel == Channel!Spec

-----------------------------------------------------------------------------
(* What the documents say and the code does not do.                        *)

\* docs/adr/0011, INV5: "High-watermark monotônico".
HighWatermarkMonotone ==
    [][\A e \in Envs, i \in Images : state'[e][i].mark >= state[e][i].mark]_vars

\* docs/dev-hom-promotion.md: automation resumes with a release "igual ou
\* posterior à maior já promovida", and promoted/ records what was promoted.
ResumeNotBelowReceipt ==
    [][\A i \in Images :
          /\ job["HOM"].pc = "write" /\ ~job["HOM"].recovery
          /\ stable'["HOM"][i] # stable["HOM"][i]
          /\ tampered'["HOM"] \subseteq tampered["HOM"]
          => \A r \in promoted : i \in Members[r] => r <= job["HOM"].rel]_vars

-----------------------------------------------------------------------------
(* The inductive invariant.  The safety properties above speak of the      *)
(* records and the tags; what keeps them true across a step is how far the *)
(* job of the destination has come, and that the records it read before    *)
(* its gates are still what it believes when it writes them back.          *)

Loops == {"copy", "hold", "write", "commit", "rehold"}

\* Which stages a job may be in, and what it carries there.
JobShape ==
    \A e \in Envs :
        /\ At(e, "idle") \/ job[e].rel \in Releases
        /\ job[e].pc \in Loops => job[e].todo # {} /\ job[e].todo \subseteq Target(e)
        /\ job[e].pc \in {"decide", "approve"} => e = "DEV"
        /\ job[e].recovery => e = "HOM"
        /\ job[e].pc \in {"copy", "import", "receipt"} => e = "HOM" /\ ~job[e].recovery

\* What the records of the members are at each stage, given the "before" of
\* the job: nobody else writes them under the lock.
Snapshot ==
    \A e \in Envs : ~At(e, "idle") => \A i \in Target(e) :
        /\ job[e].pc \in {"gates", "copy", "import", "observe"} => state[e][i] = job[e].before[i]
        /\ job[e].pc = "hold" =>
              state[e][i] = IF i \in job[e].todo THEN job[e].before[i] ELSE Held(e, i)
        /\ job[e].pc \in {"start", "write", "final", "complete", "receipt"} =>
              state[e][i] = Held(e, i)
        /\ job[e].pc = "commit" =>
              state[e][i] = IF i \in job[e].todo THEN Held(e, i) ELSE Released(e, i)
        /\ job[e].pc = "rehold" => state[e][i] \in {Held(e, i), Released(e, i)}
        /\ job[e].pc = "approve" => state[e][i] = Released(e, i)

\* After the final read-back every member is in place.
InPlace ==
    \A e \in Envs :
        job[e].pc \in {"complete", "receipt", "commit", "approve"} => Serves(e, job[e].rel)

\* The watermarks the job will write back cover every release that passed; a
\* promotion is not below them, and one that found a hold was told to resume.
BeforeIsRespected ==
    \A e \in Envs :
        job[e].pc \notin {"idle", "decide", "approve"} => \A i \in Target(e) :
            /\ \A r \in passed[e] : i \in Members[r] => job[e].before[i].mark >= r
            /\ job[e].before[i].hold => job[e].resume \/ job[e].recovery
            /\ job[e].rel >= job[e].before[i].mark \/ job[e].recovery

Soaked(r) == approvedAt[r] # Never /\ approvedAt[r] + Soak["HOM"] <= clock
Arrived(r) == r \in imported /\ Soaked(r) /\ Members[r] \subseteq mirror[r]

\* What a HOM job knows of its release before it writes, and what a receipt
\* stands for.
HomJobArrived ==
    /\ ~At("HOM", "idle") => Soaked(job["HOM"].rel)
    /\ At("HOM", "copy") =>
          Members[job["HOM"].rel] \ job["HOM"].todo \subseteq mirror[job["HOM"].rel]
    /\ At("HOM", "import") => Members[job["HOM"].rel] \subseteq mirror[job["HOM"].rel]
    /\ \/ job["HOM"].pc \notin {"observe", "hold", "start", "write", "final", "complete",
                                "receipt", "commit", "rehold"} /\ ~job["HOM"].recovery
       \/ Arrived(job["HOM"].rel)
    /\ \A r \in promoted : Arrived(r)

IInv ==
    /\ TypeOK
    /\ JobShape
    /\ Snapshot
    /\ InPlace
    /\ UnheldTagIsRecorded
    /\ UnheldUnitIsOneRelease
    /\ BeforeIsRespected
    /\ PassedKeepsWatermark
    /\ HomJobArrived
    /\ HomServesSoakedApprovals

-----------------------------------------------------------------------------
(* Liveness.                                                               *)

\* The clock runs, a started job takes its next step unless it is killed, and
\* the hourly cron gets the lock again and again: it may lose it to other jobs
\* for a while, not for ever.
Fairness ==
    /\ WF_vars(Tick)
    /\ \A e \in Envs : WF_vars(JobStep(e)) /\ SF_vars(Schedule(e))
FairSpec == Spec /\ Fairness

Paused(e, r) == At(e, "idle") /\ \E i \in Members[r] : state[e][i].hold
Superseded(e, r) == \E i \in Members[r] : state[e][i].mark > r
InTime(e, at) == at + Soak[e] <= MaxClock

\* A validated candidate is not forgotten: the cron alone approves it, unless
\* a newer release supersedes it or a hold pauses one of its members.
CandidateIsSettled ==
    \A r \in Releases :
        Members[r] \subseteq Scope["DEV"] /\ InTime("DEV", validatedAt[r])
            ~> approvedAt[r] # Never \/ Superseded("DEV", r) \/ Paused("DEV", r)

\* An approved release reaches HOM by the cron alone, unless a newer approved
\* release is ahead of it or a hold pauses one of its members.
ApprovalIsSettled ==
    \A r \in Releases :
        Members[r] \subseteq Scope["HOM"] /\ InTime("HOM", approvedAt[r])
            ~> \/ r \in promoted
               \/ Paused("HOM", r)
               \/ \E q \in Releases : q > r /\ approvedAt[q] # Never

\* A hold is never a dead end: if the operators keep asking, an explicit resume
\* lifts it.
OperatedSpec == FairSpec /\ \A e \in Envs : SF_vars(Resume(e))
HoldIsLiftable ==
    \A e \in Envs, i \in Images : state[e][i].hold ~> ~state[e][i].hold
=============================================================================
