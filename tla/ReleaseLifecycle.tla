---------------------------- MODULE ReleaseLifecycle ----------------------------
(***************************************************************************)
(* DEV approval, exact-artifact HOM promotion and recovery, after          *)
(* scripts/pipeline/release/lifecycle.py, release_store.py and the three   *)
(* workflows that run it (dev-stable, promote-stable, recover-stable).     *)
(*                                                                         *)
(* Two destinations, each with its own release store (S3), its own ECR     *)
(* repositories and its own Actions concurrency group, so at most one job  *)
(* per destination is running; the two destinations interleave freely.     *)
(* A job is a Python process that makes one AWS call at a time: every call *)
(* that changes something is one action, and it may succeed, fail without  *)
(* taking effect, or take effect and lose its response.  The runner may be *)
(* killed between any two calls.                                           *)
(*                                                                         *)
(* A release is named by its place in ordering() = (run_id, attempt), a    *)
(* positive number; 0 is "no release", the [0, 0] of high_watermark.  An   *)
(* image is named by its place in the sorted order of the manifest, which  *)
(* is the order of every loop over manifest['images'].                     *)
(***************************************************************************)
EXTENDS Naturals, FiniteSets

CONSTANTS
    Releases,    \* build runs that published a candidate
    Images,      \* frameworks of the catalog
    Units,       \* runtime/dev pairs and singletons, a partition of Images
    Members,     \* Members[r]: the images of release r
    Digests,     \* image digests
    Digest,      \* Digest[r][i]: the index digest release r published for i
    NoDigest,    \* the repository has no "stable" tag
    Scope,       \* Scope[e]: policy['frameworks']; {} when policy['enabled'] is false
    Soak,        \* Soak[e]: policy['soak_hours']
    Quarantined, \* digests of policies/release/promotion-quarantine.json
    Seeded,      \* releases approved in DEV before this history starts
    AdminWrites, \* whether an administrator may move stable outside the lock
    MaxClock,    \* bound on the clock
    MaxFaults    \* bound on failed calls, lost responses, kills, admin writes

Envs == {"DEV", "HOM"}
Never == MaxClock + 1      \* the record with this timestamp was never written
Times == 0 .. MaxClock
Outcomes == {"ok", "failed", "lost"}

ASSUME ReleaseAssumption ==
    /\ Releases \subseteq Nat \ {0}
    /\ Seeded \subseteq Releases
    /\ IsFiniteSet(Releases)
    /\ Images \subseteq Nat
    /\ IsFiniteSet(Images)
ASSUME ContentAssumption ==
    /\ Members \in [Releases -> (SUBSET Images) \ {{}}]
    /\ Digest \in [Releases -> [Images -> Digests]]
    /\ NoDigest \notin Digests
ASSUME UnitAssumption ==   \* release_units(): a release holds whole units
    /\ Units \subseteq (SUBSET Images) \ {{}}
    /\ UNION Units = Images
    /\ \A u, v \in Units : u \cap v # {} => u = v
    /\ \A r \in Releases, u \in Units : Members[r] \cap u # {} => u \subseteq Members[r]
ASSUME PolicyAssumption ==
    /\ Scope \in [Envs -> SUBSET Images]
    /\ Soak \in [Envs -> Nat]
    /\ Quarantined \subseteq Digests
ASSUME BoundAssumption ==
    /\ MaxClock \in Nat
    /\ MaxFaults \in Nat
    /\ AdminWrites \in BOOLEAN

VARIABLES
    clock,        \* now()
    faults,       \* faults so far
    stable,       \* stable[e][i]: the digest ECR's stable tag names
    state,        \* state[e][i]: the record state/<image>.json
    validatedAt,  \* dev_validated_at of releases/<id>/candidate.json in DEV
    approvedAt,   \* dev_stable_at of releases/<id>/manifest.json in DEV
    mirror,       \* mirror[r]: the images of r copied to the HOM registry
    imported,     \* releases/<id>/manifest.json in HOM
    promoted,     \* promoted/<id>.json in HOM
    job,          \* job[e]: the job that holds stable-mutation-<e>
    passed,       \* history: the releases publish_states promoted to e and returned
    tampered      \* history: the images an administrator moved since the last stable write

vars == <<clock, faults, stable, state, validatedAt, approvedAt, mirror, imported,
          promoted, job, passed, tampered>>
storeVars == <<state, validatedAt, approvedAt, imported, promoted>>
registryVars == <<stable, mirror, tampered>>

-----------------------------------------------------------------------------
(* Records.                                                                *)

\* A state record.  rel = 0 and ~hold is the absent object; rel = 0 and hold
\* is the hold of a first release, which has no release_id, digest or watermark.
StateRecord == [rel : Releases \cup {0}, digest : Digests \cup {NoDigest},
                mark : Releases \cup {0}, hold : BOOLEAN]
Absent == [rel |-> 0, digest |-> NoDigest, mark |-> 0, hold |-> FALSE]

Stages == {"idle", "decide", "gates", "copy", "import", "observe", "hold", "start",
           "write", "final", "complete", "receipt", "commit", "rehold", "approve"}
Job == [pc : Stages, rel : Releases \cup {0}, recovery : BOOLEAN, resume : BOOLEAN,
        todo : SUBSET Images, before : [Images -> StateRecord]]
Idle == [pc |-> "idle", rel |-> 0, recovery |-> FALSE, resume |-> FALSE,
         todo |-> {}, before |-> [i \in Images |-> Absent]]

Target(e) == Members[job[e].rel]
MaxOf(a, b) == IF a < b THEN b ELSE a

\* Mutants of Held: the hold flag is forgotten; the record starts afresh.
HeldWithoutHold(e, i) == job[e].before[i]
HeldAfresh(e, i) == [Absent EXCEPT !.hold = TRUE]

\* dict(before[name] or {}, hold=True, pending_release=..., reason=...)
Held(e, i) == [job[e].before[i] EXCEPT !.hold = TRUE]

\* The record publish_states stores once every member is confirmed.
Released(e, i) ==
    [rel |-> job[e].rel, digest |-> Digest[job[e].rel][i],
     mark |-> MaxOf(job[e].before[i].mark, job[e].rel), hold |-> job[e].recovery]

-----------------------------------------------------------------------------
(* Moves of a job.                                                         *)

At(e, stage) == job[e].pc = stage
Goto(e, stage) == job' = [job EXCEPT ![e].pc = stage, ![e].todo = Target(e)]
End(e) == job' = [job EXCEPT ![e] = Idle]

\* The loop "for name in manifest['images']" has reached i.
Reached(e, i) == i \in job[e].todo /\ \A j \in job[e].todo : i <= j
\* Its body is done with i: go round, or leave for the next stage.
Done(e, i, next) ==
    IF job[e].todo = {i} THEN Goto(e, next) ELSE job' = [job EXCEPT ![e].todo = @ \ {i}]

Charge(outcome) ==
    IF outcome = "ok" THEN UNCHANGED faults
    ELSE faults < MaxFaults /\ faults' = faults + 1
Landed(outcome) == outcome # "failed"

-----------------------------------------------------------------------------
(* choose(): selection consumes immutable records, never DEV:stable.       *)

Offered(e) ==
    IF e = "DEV" THEN {r \in Releases : validatedAt[r] # Never /\ approvedAt[r] = Never}
    ELSE {r \in Releases : approvedAt[r] # Never}
\* Mutant: HOM counts its soak from the validation, not from the approval.
SoakSinceValidation(e, r) == validatedAt[r]
SoakStart(e, r) == IF e = "DEV" THEN validatedAt[r] ELSE approvedAt[r]
\* Mutants: holds do not stop a selection; watermarks do not; resume is not read.
AcceptedDespiteHold(e, r, resume) == \A i \in Members[r] : r >= state[e][i].mark
AcceptedBehind(e, r, resume) == \A i \in Members[r] : state[e][i].hold => resume
AcceptedUnlessHeld(e, r, resume) ==
    \A i \in Members[r] : ~state[e][i].hold /\ r >= state[e][i].mark
Accepted(e, r, resume) ==
    \A i \in Members[r] : (state[e][i].hold => resume) /\ r >= state[e][i].mark
\* Mutant: DEV, too, skips a release its records already name.
ChangedRecords(e, r) ==
    \E i \in Members[r] : state[e][i].rel # r \/ state[e][i].digest # Digest[r][i] \/ state[e][i].hold
Changed(e, r) ==
    \/ e = "DEV"
    \/ \E i \in Members[r] : \/ state[e][i].rel # r
                             \/ state[e][i].digest # Digest[r][i]
                             \/ state[e][i].hold
Eligible(e, requested, hours, resume) ==
    {r \in Offered(e) : /\ requested \in {0, r}
                        /\ Members[r] \subseteq Scope[e]
                        /\ SoakStart(e, r) + hours <= clock
                        /\ Accepted(e, r, resume)
                        /\ Changed(e, r)}

\* The caller of publish_states has chosen r and read the state records of
\* its members: the "before" of the whole invocation.
Begin(e, r, recovery, resume) ==
    job' = [job EXCEPT ![e] =
        [pc |-> "gates", rel |-> r, recovery |-> recovery, resume |-> resume, todo |-> {},
         before |-> [i \in Images |-> IF i \in Members[r] THEN state[e][i] ELSE Absent]]]

-----------------------------------------------------------------------------
(* The four operations of main().                                          *)

\* approve_dev, in the build run of r: verify, run the consumers, put
\* candidate.json.  A verification that fails leaves nothing behind.
ApproveDev(r) ==
    /\ At("DEV", "idle")
    /\ validatedAt[r] = Never
    /\ \E outcome \in {"ok", "lost"} :
        /\ Charge(outcome)
        /\ validatedAt' = [validatedAt EXCEPT ![r] = clock]
        /\ IF outcome = "ok"
           THEN job' = [job EXCEPT !["DEV"].pc = "decide", !["DEV"].rel = r]
           ELSE UNCHANGED job
    /\ UNCHANGED <<clock, state, approvedAt, imported, promoted, passed, registryVars>>

\* approve_dev, after the candidate is durable: promote in this run, or WAITING.
DecideDev ==
    /\ At("DEV", "decide")
    /\ LET r == job["DEV"].rel
       IN  IF r \in Eligible("DEV", r, Soak["DEV"], FALSE)
           THEN Begin("DEV", r, FALSE, FALSE)
           ELSE End("DEV")
    /\ UNCHANGED <<clock, faults, passed, storeVars, registryVars>>

\* promote_dev and promote_hom up to choose(): the newest eligible release.
\* With none, the job ends (SKIPPED, or an error) and changes nothing.
Promote(e, requested, hours, resume) ==
    /\ At(e, "idle")
    /\ resume => requested # 0
    /\ \E r \in Eligible(e, requested, hours, resume) :
        /\ \A q \in Eligible(e, requested, hours, resume) : q <= r
        /\ Begin(e, r, FALSE, resume)
    /\ UNCHANGED <<clock, faults, passed, storeVars, registryVars>>

\* The hourly cron of dev-stable.yml and promote-stable.yml.
Schedule(e) == Promote(e, 0, Soak[e], FALSE)
\* Their workflow_dispatch: an exact release, or a longer soak (the HOM form
\* only has the input), or resume-automation.
Dispatch(e) ==
    \E requested \in Releases \cup {0}, resume \in BOOLEAN,
       hours \in IF e = "HOM" THEN Soak[e] .. MaxClock ELSE {Soak[e]} :
        Promote(e, requested, hours, resume)
Resume(e) == \E r \in Releases : Promote(e, r, Soak[e], TRUE)

\* recover_hom: only a release with a HOM manifest and its exact receipt.
RecoverHom(r) ==
    /\ At("HOM", "idle")
    /\ r \in imported
    /\ r \in promoted
    /\ Begin("HOM", r, TRUE, FALSE)
    /\ UNCHANGED <<clock, faults, passed, storeVars, registryVars>>

\* Trust, scan, quarantine and destination checks of every member; any that
\* fails ends the job before anything is written.
Gates(e) ==
    /\ At(e, "gates")
    /\ \E outcome \in {"ok", "failed"} :
        /\ Charge(outcome)
        /\ IF \/ outcome = "failed"
              \/ /\ e = "HOM" /\ ~job[e].recovery
                 /\ \E i \in Target(e) : Digest[job[e].rel][i] \in Quarantined
           THEN End(e)
           ELSE Goto(e, IF e = "HOM" /\ ~job[e].recovery THEN "copy" ELSE "observe")
    /\ UNCHANGED <<clock, passed, storeVars, registryVars>>

\* Mutant: only the first member is copied.
CopyFirst(i) ==
    /\ At("HOM", "copy") /\ Reached("HOM", i)
    /\ mirror' = [mirror EXCEPT ![job["HOM"].rel] = @ \cup {i}]
    /\ Goto("HOM", "import")
    /\ UNCHANGED <<clock, faults, stable, tampered, passed, storeVars>>

\* copy_image, member by member, then the read-back of the whole destination.
CopyImage(i) ==
    LET r == job["HOM"].rel
    IN  /\ At("HOM", "copy")
        /\ Reached("HOM", i)
        /\ \E outcome \in Outcomes :
            /\ Charge(outcome)
            /\ mirror' = IF Landed(outcome) THEN [mirror EXCEPT ![r] = @ \cup {i}] ELSE mirror
            /\ IF outcome = "ok" THEN Done("HOM", i, "import") ELSE End("HOM")
        /\ UNCHANGED <<clock, stable, tampered, passed, storeVars>>

\* Mutant: a manifest that is already there is refused, equal or not.
ImportOnce ==
    /\ At("HOM", "import")
    /\ imported' = imported \cup {job["HOM"].rel}
    /\ IF job["HOM"].rel \in imported THEN End("HOM") ELSE Goto("HOM", "observe")
    /\ UNCHANGED <<clock, faults, state, validatedAt, approvedAt, promoted, passed, registryVars>>

\* target.put(manifest_key(...), manifest, immutable=True): the content is the
\* immutable DEV manifest, so an earlier copy is equal and accepted.
PutTargetManifest ==
    /\ At("HOM", "import")
    /\ \E outcome \in Outcomes :
        /\ Charge(outcome)
        /\ imported' = IF Landed(outcome) THEN imported \cup {job["HOM"].rel} ELSE imported
        /\ IF outcome = "ok" THEN Goto("HOM", "observe") ELSE End("HOM")
    /\ UNCHANGED <<clock, state, validatedAt, approvedAt, promoted, passed, registryVars>>

-----------------------------------------------------------------------------
(* publish_states                                                          *)

\* Mutant: the tags are written first, the holds are not.
ObserveThenWrite(e) ==
    /\ At(e, "observe") /\ Goto(e, "write")
    /\ UNCHANGED <<clock, faults, passed, storeVars, registryVars>>

\* observed_before: outside recovery, a member that is not held must still be
\* where the last release left it.
ObserveBefore(e) ==
    /\ At(e, "observe")
    /\ \E outcome \in {"ok", "failed"} :
        /\ Charge(outcome)
        /\ IF /\ outcome = "ok"
              /\ \/ job[e].recovery
                 \/ \A i \in Target(e) :
                        LET previous == job[e].before[i]
                        IN  previous.rel # 0 /\ ~previous.hold => stable[e][i] = previous.digest
           THEN Goto(e, "hold")
           ELSE End(e)
    /\ UNCHANGED <<clock, passed, storeVars, registryVars>>

\* Mutant: only the first member is put on hold.
HoldFirst(e, i) ==
    /\ At(e, "hold") /\ Reached(e, i) /\ Goto(e, "start")
    /\ state' = [state EXCEPT ![e][i] = Held(e, i)]
    /\ UNCHANGED <<clock, faults, validatedAt, approvedAt, imported, promoted, passed, registryVars>>

\* Every hold, before any tag write and before the "try": a failure raises.
PutHold(e, i) ==
    /\ At(e, "hold")
    /\ Reached(e, i)
    /\ \E outcome \in Outcomes :
        /\ Charge(outcome)
        /\ state' = IF Landed(outcome) THEN [state EXCEPT ![e][i] = Held(e, i)] ELSE state
        /\ IF outcome = "ok" THEN Done(e, i, "start") ELSE End(e)
    /\ UNCHANGED <<clock, validatedAt, approvedAt, imported, promoted, passed, registryVars>>

\* Mutant: the receipt is put before the tags are written.
StartWithReceipt(e) ==
    /\ At(e, "start") /\ Goto(e, IF e = "HOM" THEN "receipt" ELSE "write")
    /\ UNCHANGED <<clock, faults, passed, storeVars, registryVars>>

\* events/<run>/started.json, still before the "try".
PutStarted(e) ==
    /\ At(e, "start")
    /\ \E outcome \in Outcomes :
        /\ Charge(outcome)
        /\ IF outcome = "ok" THEN Goto(e, "write") ELSE End(e)
    /\ UNCHANGED <<clock, passed, storeVars, registryVars>>

\* write_stable: read the index by digest, put-image, read the tag back.
WriteStable(e, i) ==
    /\ At(e, "write")
    /\ Reached(e, i)
    /\ \E outcome \in Outcomes :
        /\ Charge(outcome)
        /\ IF Landed(outcome)
           THEN /\ stable' = [stable EXCEPT ![e][i] = Digest[job[e].rel][i]]
                /\ tampered' = [tampered EXCEPT ![e] = @ \ {i}]
           ELSE UNCHANGED <<stable, tampered>>
        /\ IF outcome = "ok" THEN Done(e, i, "final") ELSE Goto(e, "rehold")
    /\ UNCHANGED <<clock, mirror, passed, storeVars>>

\* The independent read of all members, after the last write.
FinalReadBack(e) ==
    /\ At(e, "final")
    /\ \E outcome \in {"ok", "failed"} :
        /\ Charge(outcome)
        /\ IF outcome = "ok" /\ \A i \in Target(e) : stable[e][i] = Digest[job[e].rel][i]
           THEN Goto(e, "complete")
           ELSE Goto(e, "rehold")
    /\ UNCHANGED <<clock, passed, storeVars, registryVars>>

\* events/<run>/completed.json with PASS.
PutCompleted(e) ==
    /\ At(e, "complete")
    /\ \E outcome \in Outcomes :
        /\ Charge(outcome)
        /\ IF outcome # "ok" THEN Goto(e, "rehold")
           ELSE Goto(e, IF e = "HOM" /\ ~job[e].recovery THEN "receipt" ELSE "commit")
    /\ UNCHANGED <<clock, passed, storeVars, registryVars>>

\* promoted/<id>.json; equal content when the release was promoted before.
PutPromoted ==
    /\ At("HOM", "receipt")
    /\ \E outcome \in Outcomes :
        /\ Charge(outcome)
        /\ promoted' = IF Landed(outcome) THEN promoted \cup {job["HOM"].rel} ELSE promoted
        /\ Goto("HOM", IF outcome = "ok" THEN "commit" ELSE "rehold")
    /\ UNCHANGED <<clock, state, validatedAt, approvedAt, imported, passed, registryVars>>

\* Mutant: the first confirmed record ends the promotion.
CommitFirst(e, i) ==
    /\ At(e, "commit") /\ Reached(e, i)
    /\ state' = [state EXCEPT ![e][i] = Released(e, i)]
    /\ IF e = "DEV" THEN Goto(e, "approve") ELSE End(e)
    /\ UNCHANGED <<clock, faults, validatedAt, approvedAt, imported, promoted, passed, registryVars>>

\* The new state record of one member; after the last one publish_states
\* returns, to complete_dev or to the end of the HOM operation.
PutState(e, i) ==
    /\ At(e, "commit")
    /\ Reached(e, i)
    /\ \E outcome \in Outcomes :
        /\ Charge(outcome)
        /\ state' = IF Landed(outcome) THEN [state EXCEPT ![e][i] = Released(e, i)] ELSE state
        /\ CASE outcome # "ok" -> Goto(e, "rehold") /\ UNCHANGED passed
             [] outcome = "ok" /\ job[e].todo # {i} -> Done(e, i, "commit") /\ UNCHANGED passed
             [] outcome = "ok" /\ job[e].todo = {i} ->
                    /\ IF e = "DEV" THEN Goto(e, "approve") ELSE End(e)
                    /\ passed' = [passed EXCEPT ![e] =
                                     IF job[e].recovery THEN @ ELSE @ \cup {job[e].rel}]
    /\ UNCHANGED <<clock, validatedAt, approvedAt, imported, promoted, registryVars>>

\* The "except" clause: put every member on hold again, each attempt on its
\* own, then failed.json and the raise.  A failed attempt is ignored.
ReHold(e, i) ==
    /\ At(e, "rehold")
    /\ Reached(e, i)
    /\ \E outcome \in Outcomes :
        /\ Charge(outcome)
        /\ state' = IF Landed(outcome) THEN [state EXCEPT ![e][i] = Held(e, i)] ELSE state
    /\ IF job[e].todo = {i} THEN End(e) ELSE Done(e, i, "rehold")
    /\ UNCHANGED <<clock, validatedAt, approvedAt, imported, promoted, passed, registryVars>>

\* complete_dev's tail: manifest.json, the only record HOM selects from.  A
\* different dev_stable_at would be refused: the first one stays.
PutApproval ==
    LET r == job["DEV"].rel
    IN  /\ At("DEV", "approve")
        /\ \E outcome \in Outcomes :
            /\ Charge(outcome)
            /\ approvedAt' = IF Landed(outcome) /\ approvedAt[r] = Never
                             THEN [approvedAt EXCEPT ![r] = clock] ELSE approvedAt
        /\ End("DEV")
        /\ UNCHANGED <<clock, state, validatedAt, imported, promoted, passed, registryVars>>

-----------------------------------------------------------------------------
(* What surrounds the jobs.                                                *)

\* Cancellation, timeout-minutes or a lost runner: no except clause runs.
Kill(e) ==
    /\ ~At(e, "idle")
    /\ Charge("lost")
    /\ End(e)
    /\ UNCHANGED <<clock, passed, storeVars, registryVars>>

\* An administrative writer does not take part in the lock.
AdminWrite(e, i) ==
    /\ AdminWrites
    /\ Charge("lost")
    /\ \E d \in (Digests \cup {NoDigest}) \ {stable[e][i]} :
        stable' = [stable EXCEPT ![e][i] = d]
    /\ tampered' = [tampered EXCEPT ![e] = @ \cup {i}]
    /\ UNCHANGED <<clock, mirror, job, passed, storeVars>>

Tick ==
    /\ clock < MaxClock
    /\ clock' = clock + 1
    /\ UNCHANGED <<faults, job, passed, storeVars, registryVars>>

-----------------------------------------------------------------------------

\* The newest seeded release that holds i, 0 if there is none.
LastSeeded(i) ==
    LET held == {r \in Seeded : i \in Members[r]}
    IN  IF held = {} THEN 0 ELSE CHOOSE r \in held : \A q \in held : q <= r

\* DEV has run the seeded releases in order and without a fault; HOM is empty,
\* as it is until policy['enabled'] is turned on for it.
Init ==
    /\ clock = 0
    /\ faults = 0
    /\ stable = [e \in Envs |-> [i \in Images |->
            IF e = "DEV" /\ LastSeeded(i) # 0 THEN Digest[LastSeeded(i)][i] ELSE NoDigest]]
    /\ state = [e \in Envs |-> [i \in Images |->
            IF e = "DEV" /\ LastSeeded(i) # 0
            THEN [rel |-> LastSeeded(i), digest |-> Digest[LastSeeded(i)][i],
                  mark |-> LastSeeded(i), hold |-> FALSE]
            ELSE Absent]]
    /\ validatedAt = [r \in Releases |-> IF r \in Seeded THEN 0 ELSE Never]
    /\ approvedAt = [r \in Releases |-> IF r \in Seeded THEN 0 ELSE Never]
    /\ mirror = [r \in Releases |-> {}]
    /\ imported = {}
    /\ promoted = {}
    /\ job = [e \in Envs |-> Idle]
    /\ passed = [e \in Envs |-> IF e = "DEV" THEN Seeded ELSE {}]
    /\ tampered = [e \in Envs |-> {}]

\* The steps of a job once it is running.
JobStep(e) ==
    \/ e = "DEV" /\ (DecideDev \/ PutApproval)
    \/ e = "HOM" /\ (PutTargetManifest \/ PutPromoted \/ \E i \in Images : CopyImage(i))
    \/ Gates(e) \/ ObserveBefore(e) \/ PutStarted(e) \/ FinalReadBack(e) \/ PutCompleted(e)
    \/ \E i \in Images : PutHold(e, i) \/ WriteStable(e, i) \/ PutState(e, i) \/ ReHold(e, i)

Next ==
    \/ \E r \in Releases : ApproveDev(r) \/ RecoverHom(r)
    \/ \E e \in Envs : Schedule(e) \/ Dispatch(e) \/ JobStep(e) \/ Kill(e)
    \/ \E e \in Envs, i \in Images : AdminWrite(e, i)
    \/ Tick

Spec == Init /\ [][Next]_vars
=============================================================================
