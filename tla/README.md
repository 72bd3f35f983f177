# Formal model of the image pipeline

TLA+ modules, TLC instances and TLAPS proofs for the parts of this repository
that keep state across steps, runs or machines: the release lifecycle that
decides which image digests consumers pull, the create-once custody of release
evidence, the gate that publishes images and the consumer that locks them, the
batch promotion, the alerts, and the path of SBOMs into analytics.  Everything
is translated from the code; where a document says something else, the
difference is a run of its own (`watermark_claim`, `resume_claim`,
`journal_claim`).

Contents: 1 the system, 2 the modules, 3 the release lifecycle, 4 the evidence
custody, 5 publication and audited consumption, 6 the promotion batch,
7 the alerts, 8 SBOM analytics, 9 runs and bounds, 10 proofs, 11 limits and
what is not modelled.

## 1. The system

The repository builds hardened base images (a runtime image and its `-dev`
companion per framework), scans and signs them, and moves them through two
destinations, DEV and HOM. Python programs under `scripts/pipeline/` do the
work; GitHub Actions workflows run them. There is no server and no database:
state lives in the ECR repositories (the tag `stable`), in S3 objects (release
stores, evidence, analytics), in GitHub (runs, artifacts, issues) and in
Actions concurrency groups, which are the only locks.

| Component | State it keeps | Operations | Hard behaviour | What makes it correct | Status |
|---|---|---|---|---|---|
| Release lifecycle (`release/lifecycle.py`, `release_store.py`, `release_trust.py`, `release_manifest.py`; `dev-stable`, `promote-stable`, `recover-stable` workflows) | `stable` tags in two registries; `candidate.json`, `manifest.json`, `promoted/`, `state/`, `events/` in two stores | `approve_dev`, `promote_dev`, `promote_hom`, `recover_hom` | no transaction over repositories; kills and lost responses between any two calls; two locks and one shared store; administrators outside the lock | an image off hold serves its record; pairs never mix; automation never goes behind a promotion; HOM only has soaked DEV approvals; holds can be lifted | modelled, proved |
| Evidence store and custody (`release/evidence_store.py`, `evidence_custody.py`, `evidence_archive.py`) | payload ZIP and `commit.json` of a release in a create-once store | `create_once`, `store_payload`, `freeze_commit`, `commit_record`, `recover` | concurrent archivers; 412 and lost responses; verdicts from several reads; foreign writers | no premature record; results and verdicts are true; one creator | modelled, proved |
| Promotion batch and candidate selection (`release/promotion_batch.py`, `find_promotion_candidate.py`, `verify_promotion*.py`, `verify_stable.py`) | ECR tags; an evidence file per framework, a status per unit | inventory, selection, trust, scan, write, read-back over many units; a reader of the evidence in the health run | a barrier between authorization and writes; a unit fails without the others; the inventory is old when written; kills between two tags of a pair | tags only of wholly authorised units; a promotion counts only when all its tags were written and confirmed; a tag goes back only over one that was moved by hand | modelled in part, proved |
| Publication gate and contract evidence (`release/verify_publication.py`, `publish_sboms.py`, `runtime/*.py`, `build-base-images.yml`) | Actions artifacts and jobs of one run and its attempts; build tags, signatures, attestations | execute the contract, choose its report, copy, sign, attest | re-run attempts leave artifacts, reports and jobs of several attempts side by side; legs that stop half way | nothing is published whose newest contract did not pass with it | modelled in part, proved |
| Audited consumer (`examples/audited-consumer/`) | a verification record and a lock, per execution | `verify`, `check-dockerfile`, `build-args`, `record-consumption` | two tags resolved one after the other while they move | a locked pair is a certified pair; the build uses the lock | modelled in part, proved |
| Alerting and operational health (`operations/*.py`, `pipeline-health.yml`) | GitHub issues | `evaluate`, `build`, `run_cycle`, `deliver_one`, `resolve` | ambiguous and late creates; three-call resolve; one page of 100 issues; reports that are missing | one open issue per alert, no alert lost, nothing closed in silence | modelled in part, proved |
| SBOM analytics ingestion (`analytics/intake.py`, `s3_ingestion.py`, `snapshot.py`, `s3_run.py`, `ingest.py`) | a ledger of lots behind a lock file; immutable S3 objects and a manifest per snapshot | `process`, `register_closed`, `publish_snapshot`, `recover_snapshot` | stale locks; 409, 412, 5xx, late puts; two publishers; a run that stops half way | an artifact is ingested once; a manifest is only there when all its objects are | modelled in part, proved |
| SBOM analytics queries (`analytics/athena_run.py`, `athena_restore.py`) | a local journal, uploaded and restored; Athena executions | persist, submit, poll, time out, stop, compare; restore | a death between submission and journal; a timeout racing an answer; journals of the wrong age, or of jobs that were cancelled | a statement is not run twice, they run in order, the journal knows them | modelled in part, proved |
| Infrastructure state (`infra/backend.py`, `readback.py`, `ecr/`, `s3/`, `lifecycle/`; `infra-*` workflows) | the Terraform state bucket and its controls | create or validate, never repair; read-back | a death between create and the last control | an existing bucket is never changed; unsafe is refused | not modelled |
| SBOM normalisation and binding (`analytics/normalize.py`, `spdx.py`, `parquet.py`, `artifact_*.py`) | none | documents to rows | none: pure | parsing, covered by unit tests | stages of the intake |
| Consumer applications (`consumer_apps/*.py`, `app-certification.yml`) | none of its own | build and run applications on an image, summarise | a matrix that ends in any order | all required applications passed | gate in the lifecycle |
| Catalog (`catalog/*.py`) | none | validate inputs, select frameworks | none: pure | selection | not modelled |
| Governance (`governance/*.py`) | none | static checks; compare live settings with the profile, read-only | none | the policy the lifecycle reads is valid (`configuration.py`: `Scope`, `Soak`) | not modelled |
| Image build and scan (`artifacts/*.py`) | none | wrappers of command-line tools | none of their own | the artifact a release names | abstract |
| Certificates and scripts (`scripts/certificates/`, `verify-image.sh`, `examples/`) | local files | transform anchors, verify an image | none | - | not modelled |
| Registry login and CI wiring (`registry_login.py`, `.github/`) | credentials | start the programs above | concurrency groups | one job per destination | the locks are in the lifecycle |

How they interact. A build run executes the functional contracts and publishes
what they certify; its candidates go to `lifecycle.py approve-dev`, whose gates
are the consumer applications, the scan and the trust checks. Hourly runs
promote what is due in DEV and then in HOM; DEV and HOM share only the DEV
release store, which HOM reads. The batch promotion is an older path to the same
tags: no workflow starts `promotion_batch.py` any more (ADR 0011, lines 22-35;
`promote-stable.yml:93-104` runs `lifecycle promote-hom`). The health run still
reads its evidence format, but what the artifact `promotion-batch-<attempt>`
holds today is written by `lifecycle.health_evidence` (section 6). Application
teams resolve the tags and lock digests. Custody takes the finished evidence of a release; analytics takes
the SBOM artifacts of the runs: a lot, then a snapshot, then a round of queries.
Alerting watches all of it from outside and shares no state with it.

The hazards of each part, with the line where each one bites and the
properties that watch it, are in `PROJECT.json` under `hazards`.

## 2. The modules

    ReleaseLifecycle       state, actions, Spec
      ReleaseProperties    properties, inductive invariant, fairness,
        |                  refinement mapping to StableChannel (INSTANCE)
        |-- MCReleaseLifecycle          five TLC configurations
        '-- ReleaseProofs               types and shape of a job; records, tags and
              |                         watermarks of one destination
              '-- ReleaseTheorems       HOM, receipts, Inductive, action properties,
                                        the refinement => StableChannel
    StableChannel          what consumers are promised

    EvidenceCustody        state, actions, Spec, properties, inductive invariant,
      |                    refinement mapping to CommitRegister
      |-- MCEvidenceCustody             two TLC configurations
      '-- CustodyTheorems               what each action does and keeps; theorems;
                                        the refinement => CommitRegister
    CommitRegister         what archivers are promised

    PublicationGate        one build run and its attempts, the registry it fills
      '-- AuditedConsumer  the promotion that moves tags, and a consumer of them;
            |              Spec and properties of the composition
            |-- MCAuditedConsumer
            '-- SupplyProofs

    LotIntake, SnapshotPublication, AthenaRound     three components, and
      '-- AnalyticsLanding                          their composition, properties,
            |                                       mapping to AnalyticsPromise
            |-- MCAnalyticsLanding
            '-- AnalyticsProofs         => AnalyticsPromise
    AnalyticsPromise       what whoever reads the landing is promised
    MCAthenaRound          AthenaRound alone, for the claim of its guide

    PromotionBatch         state, actions, Spec, properties, mapping to UnitPromotion
      |-- MCPromotionBatch
      '-- PromotionBatchProofs          => UnitPromotion
    UnitPromotion          what a batch promises about the tags
    AlertDelivery          state, actions, Spec, properties
      |-- MCAlertDelivery
      '-- AlertProofs

    OrderLemmas            numbers: largest elements, induction over an interval,
                           functions that follow links; used by the proofs

No module declares a RECURSIVE operator. Definitions whose comment starts with
"Mutant" are deliberately wrong versions of the action that follows, used to
show that each property can fail; no specification reaches them.

## 3. The release lifecycle

### State

| Variable | In the code |
|---|---|
| `stable[e][i]` | the `stable` tag of image `i` in the ECR of destination `e` |
| `state[e][i]` | `state/<image>.json`: `rel` = `release_id`, `digest`, `mark` = `high_watermark`, `hold` |
| `validatedAt[r]`, `approvedAt[r]` | `dev_validated_at` of `candidate.json`, `dev_stable_at` of `manifest.json` in DEV |
| `mirror[r]`, `imported`, `promoted` | images copied to HOM; HOM's `manifest.json`; `promoted/<id>.json` |
| `job[e]` | the Python process that holds the concurrency group of `e`: program counter, release, flags, the members still to do in the current loop, the records read at the start (`before`) |
| `clock`, `faults` | `now()`; the number of faults so far |
| `passed`, `tampered` | history: promotions whose `publish_states` returned; images an administrator moved since the last write |

### Actions

Every call that changes something is an action; reads in a row that only lead
to a decision are one action with it. Each call succeeds, fails, or takes
effect and loses its response; `Kill` may end a job between any two.

| Action | Code |
|---|---|
| `ApproveDev`, `DecideDev` | `approve_dev`: candidate made durable, then promoted in the same run or WAITING |
| `Promote` (`Schedule`, `Dispatch`, `Resume`) | `promote_dev`, `promote_hom` with `choose()`; cron and `workflow_dispatch` inputs |
| `RecoverHom` | `recover_hom` |
| `Gates` | trust, scan, quarantine and destination checks before any write |
| `CopyImage`, `PutTargetManifest` | HOM's copy loop and its copy of the manifest |
| `ObserveBefore`, `PutHold`, `PutStarted`, `WriteStable`, `FinalReadBack`, `PutCompleted`, `PutPromoted`, `PutState`, `ReHold` | `publish_states` from top to `except` |
| `PutApproval` | the tail of `complete_dev` |
| `Kill`, `AdminWrite`, `Tick` | a cancelled or lost runner; a write outside the lock; time |

What the translation makes visible, and is easy to miss in the code:

- `approve_dev`'s branches for an existing candidate or manifest cannot be
  taken: the identity contains the run and its attempt, which are new each
  time. The model has no such branch.
- A disabled policy is `Scope[e] = {}`: nothing is eligible.
- `promote_hom` reads the records it later writes back before minutes of
  scanning and copying, `recover_hom` reads them after its gates. Under the lock
  nobody else writes them, so the model reads them in one place, when the
  release is selected.
- The observation before the holds and the final read-back read all tags in one
  step. Only `AdminWrite` could come in between; one that comes after the read
  is in the model.
- Puts of `events/` objects matter for control only: a failure there leads to
  the same `except` clause, or ends the job before the first tag write.
- A newest release that is quarantined is chosen again and again and blocks
  older approved ones: `choose()` runs before the quarantine check.
  `ApprovalIsSettled` therefore counts a newer approval as superseding.
- Recovery has no quarantine check: a receipt is enough.

### Properties

Safety: `UnheldTagIsRecorded`, `UnheldUnitIsOneRelease`,
`EveryMemberHeldWhileWriting`, `PassedKeepsWatermark`,
`HomServesSoakedApprovals`, `ReceiptIsRecoverable`.
Steps: `ReceiptOnlyWhenWhole`, `ApprovalOnlyWhenWhole`, `HoldLiftedBySuccess`.
Abstraction: `ImplementsChannel`; `StableChannel` has no jobs or records, only
units that show one release or are paused, never go back behind a completed
promotion, and in HOM only show what DEV approved.
Liveness: `CandidateIsSettled`, `ApprovalIsSettled`, `HoldIsLiftable`.  A job
that never freed its lock would violate the first two. `HoldIsLiftable` is checked
for HOM only, with an empty quarantine: a resume of a quarantined release is refused.

### Fairness

`FairSpec` assumes that the clock runs and a running job takes its next step
(weak fairness; `timeout-minutes` ends one that does not, and `Kill` is that),
and that the hourly cron obtains the lock again and again although other jobs
compete for it (strong fairness on `Schedule`, as each of these may have the
lock at the moment it asks). Nothing is assumed of dispatches. `OperatedSpec`
adds operators who keep asking for an explicit resume; without them a hold
stays for ever, which is what the design wants.

### Where the documents and the code disagree

- `WatermarkClaim`: ADR 0011 (lines 152-153) has "INV5 High-watermark
  monotônico". `publish_states` stores the new watermark of each member in turn;
  when a later put fails, the `except` clause writes back `before` with the old
  watermark (`lifecycle.py:212-215`). What does hold, and is proved, is
  `PassedKeepsWatermark`: no watermark falls below a release whose promotion
  *returned*.
- `ResumeClaim`: `docs/dev-hom-promotion.md:121-122` asks that automation resumes
  at or above the newest release promoted, and `promoted/` is said to prove a
  promotion. The receipt is stored before the watermarks
  (`lifecycle.py:192-200`); after a kill between them a resume of an older
  release is accepted and moves `stable` behind a receipt.

## 4. The evidence custody

### State and actions

`objects[k]` is content and version of the object under each key (payload keys
are content-addressed, so a payload is its own key); `seq` the version IDs
given out; `call[p]` the operation a process is in; `request[a]` what an
archiver has in hand (a confirmed payload version, then the frozen commit);
`answer[p]` the last result. `creators` and `seen` are history.

| Action | Code |
|---|---|
| `StorePayload`, `FreezeCommit` | `store_payload`; `manifest_bytes` with `freeze_commit` |
| `PutIfAbsent`, `CheckCreated`, `Reconcile` | `EvidenceStore.create_once` |
| `CommitRecord`, `Peek`, `Before` | `commit_record` up to its write |
| `Recover`, `GetCommit`, `ListPayloads`, `VerifyPayload` | `recover`, called by readers and at the end of `commit_record` |
| `Crash`, `PutForeign` | a death, with or without the frozen request; another tool that may write |

The ZIP, inventory and provenance checks of `_inspect` are a precondition
(`Payloads` are those that pass), the pinned HGC-03 script is the set `Sound`,
signatures are `Bundles` over one manifest and the trust policy is `Genuine`.
The authenticator is a function of what it is given; one that answers
differently during an outage is outside the model. Local trouble (an unsafe destination, a timeout of the
script) is a failed call and gives ERROR, never a verdict. Nothing is ever
deleted: the transport has no such call, and delete markers are left to a
storage policy (`docs/hgc04-evidence-custody.md:91-98`).

### Properties

`NothingPremature`, `ConfirmedIsComplete`, `ConflictIsReal`, `CreatedOnce`,
`ErrorIsExplained`, `VerdictWasTrue`, the refinement `ImplementsRegister`, and
under fairness `CommitSettles`.
`VerdictWasTrue` is the delicate one: `recover` reads the commit, the inventory
and the payload one after the other, and the property says each verdict was the
case at *some moment* of the call. A foreign commit record is excepted where the
promise rests on the order in which archivers write (`PARTIAL`,
`NothingPremature`).

`CommitRegister` is the custody without keys, versions, read-backs or partial
calls: a register that is written once, with a record fit for the release, and
answers that agree with it. The record takes effect at the successful
conditional create of `commit.json`, also when its response is lost or its
caller killed; `claims` is the right to be told CREATED, given at that moment to
the archiver whose create it was and to nobody again. Each verdict a caller
hears is then an answer about the register, not about the order of reads behind it.

`FairSpec` assumes that a call in progress goes on, and that an archiver which
still has its frozen request calls `commit_record` again: the module's own
rule is that frozen requests are reused across retries.

## 5. Publication and audited consumption

`PublicationGate` is one compiled pair (a runtime image and its `-dev`
companion, published together or not at all) from validation to the registry;
`AuditedConsumer` extends it with the promotion that moves the tags and an
application team that locks them, so that what the consumer trusts can be traced
to what was executed.

| Variable | In the code |
|---|---|
| `run[n]` | what GitHub keeps of a run: attempt, jobs still to do (`stage`, `rebuild`), the artifact `validated-oci-*` of each member (`oci`), per attempt the contract reports and the conclusion of their job (`producer`), the publication legs (`leg`) |
| `pushed`, `signed`, `sboms`, `provenance` | the registry: build tags of a run and attempt, signatures, SBOM attestations, provenance with its `invocationId` |
| `executed` | history: every contract that ran to a verdict, with its two digests |
| `stable` | the tags a consumer may resolve |
| `consumer` | one execution of `consume.sh`: level, kind of reference, release record, the digests and invocations verified so far, the build |

| Action | Code |
|---|---|
| `NewAttempt` | a run and its re-runs: failed jobs and what needs them; a contract that succeeded may be carried over |
| `Validate` | the reusable validation, which replaces an artifact only after its scan (`README.md:573`); external |
| `Certify`, `CertifyFails` | `runtime_images.run`: reports with digests, blank ones, none, or a lost upload |
| `Authorize` | `publication_gate`, `gate`, `contract_evidence.select` |
| `Push`, `Sign`, `AttestSboms`, `AttestProvenance`, `LegFails` | the steps of a leg in their order, any of which may fail |
| `Begin`, `Resolve`, `Check`, `Pair`, `Build` | `command_verify`; `check_dockerfile` with `build-args` and `record-consumption` |
| `Move`, `Leave` | a promotion; the end or failure of a consumer |

Two simplifications. `Build` is one step, while `consume.sh` checks the Dockerfile
(line 62) and a builder reads it again (line 79): in between the script writes
nothing to the checkout, and that nobody else does is assumed. And a file is given
as its stages: how `check_dockerfile` reads its text into stages (lines 620-665) is
taken as given, and the sources of `COPY --from`, `RUN --mount` and `ADD`
(690-696) are left out.

Properties. `PublishedIsCertified`: under a run and attempt, nothing is
published unless the newest execution of the contract up to then passed and was
an execution with this image. `LockIsCertified`: a full-policy lock names two
images that passed one contract together, although its tags are resolved one
after the other. `BuildUsesLock`: an accepted Dockerfile, given to a builder
with the lock's arguments, ends on the runtime of the lock and pulls nothing
else; the builder's own resolution of names (`Built`) is the reference
definition for `check_dockerfile`'s (`Root`, `Findings`).

What the translation makes visible:

- A re-run whose validation fails finds the artifact of an earlier attempt, and
  may publish it: the scan that failed was of an image that is not published.
- A report without digests (the OCI check failed before they were known) blocks
  every later publication of its run: `report_pair` reads all reports of the run
  and raises on it.
- A pair whose legs were published in different attempts shares no invocation.
  Each image is certified, and a full-policy consumer still refuses the pair.
- The simplified level does not compare the two images (`NOT_CHECKED` in its
  record): `LockIsCertified` is not promised there and not claimed.

## 6. The promotion batch

`PromotionBatch` has the registry (`images[f]`, the runs with an index in a
repository, `stable[f]`, `soaked`, `quarantined`), the job (`phase`, the members
it has not visited, `seen`, the inventory it read, `status` per unit, `barrier`,
`evidence[f]`), and what it leaves behind: `disk`, the files of the members and
the summary `promotion-batch.json`, and the `conclusion` of the job. An image is
named by its build run. `wrote` and `overtaken` are history: the tags this job
wrote, and those an administrator moved after the job had read them.
The actions follow `promote_batch` from top to bottom: `Start`, `Inventory`,
`Select`, `Trust`, `Scan`, `Barrier`, `BeginUnit`, `StartWrite`,
`WriteCompletes`, `WriteFails`, `ReadBack`, `UnitEnds`, `Finish`; the job dies
in `Die`; `Push`, `Soak`, `Move` and `Quarantine` are the world. The quarantine
file is the one of the job's checkout, so it changes between two jobs only.
Runs are numbered in the order of their first push.

`save()` writes one file per member and the summary last (lines 150-155). A save
is complete before the next call to the registry, so a whole one is part of the
step that follows it (`Saved`); one that a death ends leaves the files of some
first members new and the rest old (`Torn`), also the one of the `finally`. The
reports may then be uploaded, or lost; a cancelled job may upload them too.

`Counted` is the health run: the job concluded `success` or `failure`
(`operational_health.py:374-377`), its artifact is there (66-77), the barrier is
in the summary and every file agrees with it (`Inconsistent`, 131-198).

`WrittenUnitIsWhole`: a tag is written after the barrier and only of a unit that
was selected from one run, verified and scanned in full. `CountedIsPromoted`
relates three programs. What the health counts had all tags of its unit written
and confirmed by that attempt, and `verify_completed_pair` confirms it, whatever a
torn save or a partial pair left in the artifact; and what an attempt promoted is
counted unless the attempt was cancelled, its artifact is missing or its last save
was torn (the files of one damaged unit make the health count nothing of the attempt).
`MovesForward`: the tag is compared with the candidate in the inventory and written
minutes later without another look, so a batch can take a tag back; it does so only
when an administrator moved that tag in between.
`ImplementsPromotion` relates the tags to the run behind them: `UnitPromotion`
knows no phases or calls, only an *offer* of one soaked run to each unit, made
for all of them at once before anything is written. A tag moves to what its unit
was offered, is confirmed when it was seen there, and a unit counts with all its
tags or not at all. The offer is derived from the evidence (`Offered`): what the
barrier lets through.

No fairness and no liveness: no workflow starts this job, and so nothing is said
of a unit that waits to be promoted. What the health run reads today comes from
`lifecycle.health_evidence` (`lifecycle.py:352-370`, uploaded in
`promote-stable.yml:113-118`): the same files without `unit_results` and
`unit_status`. `lifecycle.py` writes them as not promoted before it touches a tag (line 330) and
again after `publish_states` (348), and the reader accepts them only of a job that
concluded `success` (`operational_health.py:390-391`).
`PromotionBatch` has the reader's branch for the batch's own evidence.

What the translation makes visible: after a half-written pair the next runs
fail the unit, as its members have different candidates, until a newer build
soaks; if that run is then quarantined, the divergent pair has no candidates and
is SKIPPED, which is not a failure. The two tags stay on different runs and only
the age of the promotion tells. A promotion whose reports were lost, or whose job
was cancelled, is in the registry and in no health report.

## 7. The alerts

`AlertDelivery` runs from a broken limit to an open issue and back. The world
is `broken` limits and `gone` pins; the tracker is the list of open `issues`,
oldest first, and the creates `inflight`; a cycle is `pc`, `delivery[e]`, `known`
(the events `open_alerts()` found), `current` (the event being created). An issue
that is closed leaves the list, and one that the cycle's page held is marked
`found`: those are the numbers `resolve()` closes, whatever was opened since. `HealthRun` makes
the reports and builds the events; `List`, `Update`, the `Create*` and
`Reconcile*` actions, `Resolve` and `Report` are one cycle; `LateCreate` is a
create that lands after its client gave up. An `event_id` is a digest of source,
metric and subject; the triple stands for it.

`DuplicateIsExplained`: two open issues of one event exist only because a create
landed after the run had looked, or the first was beyond the page that is read.
`CleanRunCovers`: when the program exits 0, each limit broken at its
measurement had an open alert during the run. `ClosingIsExplained`: an alert is
closed only when its report was read and did not name the condition, or, when the
report was lost or the pin could not be verified, somebody is told of that gap: the
alert of the gap was open during the run, or it was refused and the run fails on it.
`AlertsFollowConditions`
(fairness: health runs and delivery cycles go on, a person reconciles duplicates as
the adapter's message asks): whatever failed before, a limit that stays broken is
alerted again and again, and one that stays respected loses its alert. The health
run is on a cron (`pipeline-health.yml`); delivery has no job yet, as its adapter is
disabled (`policies/operations/alerting.json`), so the property is about the cycle
being run regularly once it is.

What the translation makes visible: a lost health report closes the alerts of its
limits, and a pin that cannot be verified closes the alert that it is
unavailable, both as "condition cleared" (`alert_delivery.py:167-176`), where
`docs/operational-alerting-contract.md:131` reserves RESOLVED for a condition that
is gone. Delivery comes first, and the close goes on although the alert of the gap
was refused; the exit code is then the only sign. An alert beyond the
first 100 open issues is neither updated nor closed; 408 and 429 are taken as
not processed and retried without a look. Acknowledgements are left out: they
change a comment of the next report and no issue.

## 8. SBOM analytics

A lot is taken in, its frozen plan published as a snapshot, and a round of SQL
run over the snapshot. Each hands the next something it does not change any
more and reads nothing back, so `AnalyticsLanding` composes the three as a
disjunction and checks each by itself: `subject` says which one a behaviour is
about.

| Module | State | Actions |
|---|---|---|
| `LotIntake` | the `lock` file, the `ledger` of committed entries and the `unread` ones, each process with its task and the entries it read | `Lock`, `Look`, `Describe`, `Acquire`, `Stage`, `Normalise`, `Deduplicate`, `Export`, `Commit`, `Verify`, `Unlock` of `process` and `register_closed`; `Refused`, `Kill`, `RemoveLock` (the operator's rule: no run is going), `EntryLost` |
| `SnapshotPublication` | the versions of each key (`store`), puts `inflight`, each run's `job` with the pass it is in and the versions it read | `Publish`, `Marker`, `PutLands`, `PutRefused` (412), `PutConflicts` (409), `PutUnknown` and `Reconcile` (5xx, timeouts), `Files`, `Inventory`, `Open`, `LatestManifest`, `PassEnds`; `Recover`; `LateLanding`, `Change` |
| `AthenaRound` | `remote` executions, one per token, what ended jobs uploaded (`archive`: the journal, how the job and its authentication ended), the dispatch that is going on with its journal (`run`), deadlines (`made`, `late`) | `FreshRound`, `FreshAgain`, `Resume`, `ResumeStale`, `Authenticate`, `Catalog`, `NextEntry`, `Start`, `Answer`, `Observe`, `Stop`, `Compare`, `Final`; `CallFails`, `Cancelled`, `RunnerLost`, `Completes`, `DeadlinePasses`, `SnapshotChanges` |

A publication has four passes: 1 publishes, 2 reads the snapshot, 3 publishes
again and may write nothing, 4 reads again; a recovery is passes 5 and 6. A deadline
is counted per journal entry, as a re-made entry has a new one. Dispatches of a
round are serial (`concurrency: distroless-sbom-analytics`); that Athena runs
one execution per token is Athena's promise.

Every job uploads its reports (`if: always()`), and `athena_restore` accepts those
of a run that concluded `failure` or `success`, not of one that was cancelled or ran
over its 45 minutes (line 118), whose credentials step succeeded (258-263), whose
upload step did (149-152; one that failed is `RunnerLost`) and whose journal is valid
and not empty (`Accepted`). What a cancelled job added to its journal is stranded. A
*fresh* round is refused on no account of what was uploaded: the program looks at the
local journal, the workflow at its inputs, and only the tables in the catalog stop
it (`Catalog`). So `FreshAgain` dispatches one over any history, and counts as
`strayed` when executions exist and none has left a table. An artifact that
GitHub expired after its 30 days is one that was lost.

Properties: `ArtifactIngestedOnce`, `CompleteMeansWhole`, `RoundIsSequential`,
`JournalKnows`; the refinement `ImplementsPromise`; under fairness
`PublishCompletes` and `RoundSettles`. `JournalKnows` and `RoundSettles` except a
round that `strayed`: its newest journal was lost with the runner or stranded in a
cancelled job, a stale one or none at all was resumed from, or the snapshot changed;
`RoundIsSequential` and the refinement except nothing. Fairness is that of an operator: a
dispatch goes on until it ends and is dispatched again until it succeeds, and
the deadline of an execution passes. Nothing is assumed of the intake, of late
puts or of the service.

`AnalyticsPromise` is the landing without locks, requests, versions or journals:
a task enters the ledger only if it overlaps with nothing there; the snapshot
becomes whole in one step, although its objects are put one by one, late and more
than once; a run confirms only a snapshot it has seen whole; and a statement runs
once, when all before it succeeded. The invariants say what the state is; the
refinement also says what may not happen between two states: an entry taken
back, an execution started over, a success withdrawn.

What the translation makes visible:

- `JournalClaim`: `docs/sbom-analytics-athena-lab-poc.md:128-129` says "A
  verified restart reads prior executions/results again without new Start
  calls." While it does, a VERIFIED entry is journaled as SUCCEEDED
  (`athena_run.py:608`); a call that fails then leaves a journal with a
  SUCCEEDED entry before the last, which `validate_journal` refuses. An older
  upload still serves, so `RoundSettles` holds with the newest *valid* journal
  and fails with the last one.
- The intake passes no declared `workflow` to its identity check, so a supplied
  `workflow_run_record` is always refused and a lot is never ELIGIBLE; the lock
  file that `normalize.export` makes per batch is not removed after a kill.
- A PREPARED entry that is resumed after its 120 seconds is submitted and then
  timed out. A lost or stranded journal fails closed once a table exists: it is
  foreign to a fresh round, and the round can be neither resumed nor started over.
  Before that a fresh round starts unaware of what was submitted; the frozen
  tokens alone keep it from being run twice.
- TIMED_OUT is journaled before the query is stopped; a job that dies in between
  leaves it running, and no later run stops it.

## 9. Runs and bounds

| Run | Instance | Distinct states | Shows |
|---|---|---|---|
| `promotion` | 2 releases of a pair, both destinations open, 1 tick, 2 faults, `FairSpec` | 140 602 | the whole path to HOM; refinement; liveness of the cron alone |
| `recovery` | 4 approved releases over a pair and a singleton (1: all, 2: singleton, 3 and 4: pair), 4 quarantined, HOM only, administrators, 2 faults | 1 562 652 | records, tags, holds and watermarks through promotion, recovery and resume |
| `resuming` | 2 approved releases, HOM only, 3 faults, `OperatedSpec` | 18 952 | every hold of HOM can be lifted |
| `watermark_claim`, `resume_claim` | 2 releases, HOM only, 1 fault | - | two disagreements with the documents |
| `custody` | 2 archivers (symmetric), 1 reader, a sound and a refused payload, 2 genuine and 1 forged signature, 3 foreign writes, 2 faults | 1 063 157 | all safety of the custody; refinement of the register |
| `custody_settling` | the same without readers and symmetry, `FairSpec` | 100 730 | every archiver learns what became of its commit |
| `supply` | one run of 2 attempts, 2 contents (symmetric), 1 fault, 2 tag moves, Dockerfiles of up to 3 stages | 1 940 080 | from the contract to the lock and the build |
| `batch` | a pair and a singleton, 2 build runs, 2 faults or administrative changes | 546 549 | units, barrier, evidence on disk and its readers, moved tags; refinement of the offer |
| `alerts` | one framework, one pin, a page of 2, 2 attempts, 2 faults, 2 changes, `FairSpec` | 358 426 | duplicates, coverage, closing, liveness |
| `analytics` | 2 intakes, 4 requests, 2 troubles; 2 publications of 2 objects, 2 put attempts, 2 faults, 1 change; 3 statements (the first creates a table), 2 mishaps; `FairSpec` | 456 320 | the three components; refinement of their promise |
| `journal_claim` | 3 statements, 2 mishaps | - | the disagreement with the guide |

Why these are enough to be interesting. A pair is the smallest unit that can be
half written; two releases are needed for "behind", and four over overlapping
member sets for a recovery that goes back on one unit and not on another; two
faults let a failure meet the failure of its own clean-up; one tick separates
"soaked" from "not yet". In custody two archivers race, the second signature
makes a real conflict, and the refused payload and the foreign writes (a record
with a version that does not exist, one with a forged signature, altered payload
bytes) exercise the error paths. In `supply` the second attempt is where old
and new evidence meet, two contents are enough for "another image", and the
gate treats attempts of one run and other runs alike; three stages allow a
name to be defined, shadowed and used. In `alerts` the page of 2 is overtaken by
the four events the instance can raise; `Suppressed` is empty there and matters
to `Level` only. In `analytics` three statements make a first, a middle and a
last, and the request set has a pair with one name and pairs that share an
artifact. The theorems cover every other size.

Bounds: `MaxClock` (in `Tick`), `MaxFaults` (in `Charge`, `Spend`; in the batch it
bounds administrators' changes too), `MaxTrouble`,
`MaxMishaps`, `MaxChanges`, `MaxMoves`, `MaxRun`, `MaxAttempt` (in `NewAttempt`,
`Push`), `PutAttempts` and `MaxAttempts` (limits of the code itself); version IDs
are bounded by the number of keys and changes. Where the bounds let everything
be done, deadlock is not an error and the configuration says
`CHECK_DEADLOCK FALSE`; in `alerts` and `batch` a new cycle or job may always start,
and they check it. Symmetry is used in `custody` and `supply` only, which have no liveness
property.

`TypeOK` is an invariant of the run `alerts`; for the lifecycle, the custody and the
batch it is proved, and part of the inductive invariants.

`resuming` and `recovery` open HOM only, with DEV's history seeded. For DEV the lifting
of a hold needs a newer release, as an approved one is no longer offered there:
that is why `HoldIsLiftable` is not checked with both destinations.

## 10. Proofs

All theorems are for every value of the constants that satisfies the named
assumptions of the modules: any finite set of releases and images, any
partition into units that releases respect, any policy, any number of faults;
any processes, payloads, signatures and foreign writes.

**Lifecycle.** The properties are not inductive on their own: whether a hold
may come off depends on how far the job is and on what it read before. `IInv`
adds `JobShape` (which stage carries what), `Snapshot` (the records of the
members at each stage, as a function of `before`), `InPlace` (after the final
read-back the tags are there), `BeforeIsRespected` (the watermarks to be
written back cover all that passed) and `HomJobArrived` (what a HOM job knows of
its release). The proof is in layers: types and shape, then per destination
`RestInv` and `JobInv`, where `Frame` dismisses the other destination
(`ReleaseProofs`); HOM and the receipts, then `Inductive` (`ReleaseTheorems`). The action properties follow from `IInv` by finding the one
action that can make each change (`PromotedBy`, `ApprovedBy`, `LiftedBy`).
`LargestElement` (`OrderLemmas`), that a finite set of numbers has a maximum, is
what the initial state needs (`LastSeeded`) and is proved from the finite
cardinality.

**Refinement.** `LifecycleImplementsChannel`: a unit shows the release of its
records, or nothing when one is on hold (`ShownValue`); writing one record
changes one unit only (`ShownLocal`). Only `PutHold`, `PutState`, `ReHold` and
`PutApproval` are steps of the channel, all others stutter.

**Custody.** `CustodyTheorems` first states for each action what it does to the
call, the request and the answer of its process (the *effect* lemmas), so that
the preservation proofs after them need not expand it. The strengthening
is `RequestsAreStored`, `CreationIsSound`, `ReadingIsSound`, `OneClaim` and
`SeenIsSound`. `GrowsKeeps` is the key fact: writes go to absent keys only, so
what was complete stays complete. `ConcludeInv` says what a verdict rests on.
The refinement (`CustodyImplementsRegister`) rests on the same invariant: only a
conditional create of `commit.json` that takes effect is a step of the register,
every answer is one of `Answer` because `CreationIsSound` and `OneClaim` tie it to
what is stored, and reads, payloads and read-backs stutter.

**Publication and consumption.** Of the gate, `IInv` says what a run may hold:
one verdict per attempt (`OneVerdict`), which jobs and reports an attempt can
have at its stage (`RunSound`), that history is of attempts that began
(`HistoryIsPast`), that a producer's success is backed by an execution that
passed, its own or the one it was carried over from (`SuccessIsBacked`), and that
a leg past its gate still holds what the gate saw (`LegsAreAuthorized`): nothing
it rests on changes while legs are going. Of the consumer: what it has seen is
attested (`SeenIsAttested`), its readings are of one digest (`OneReading`) and a
lock has one execution behind it (`LockIsOneExecution`, by `OneExecution`: two
images with one invocation passed one contract).

`BuildUsesLock` is about names: `check_dockerfile` follows them one way (`Root`), a
builder another (`Source`). Both are recursive over the stages of a file, of any
number. A stage links to an earlier one only (`LinksGoBack`); a function that
follows backward links exists and has the value its definition says
(`LinkedFunction`), which gives the defining equations of `Root` and `Source`;
`SourceFollowsRoot` then compares the two by strong induction. The induction is
over the set of the stages for which the claim holds, as the theorems of the library
take a predicate the provers cannot instantiate. `ConsumerConstants` asks no more
of a file than that its stages are a sequence of stages. `Consumed` puts the three
results together: from the record of a consumption back to one passed execution
of the contract.

**Analytics.** `AnalyticsProofs` has one inductive invariant per component, and
`subject` makes the steps of the others stutter. `IntakeInv`: one process at
most is inside the lock (`HoldsLock`), and the entries it read are the ledger
(`EntriesAreLedger`). `PubInv`: a manifest, stored or in flight, only names
versions that hold the frozen objects (`StoreOK`), versions are never taken back
(`Grows`), and a verification that began on a snapshot that was not whole still
has something in its way (`JobFine`). `RoundInv`: VERIFIED entries tell the truth
in every journal (`Truthful`), where a run is in its loop (`InPlace`), executions
in order (`InOrder`), and how the newest upload a restore accepts relates to the
journal of the run (`Known`): while the run still reads again what it restored, that
upload has the same entries (`AsKept`), so an end that uploads a journal nobody
accepts loses nothing; and a run with an empty journal follows no execution, or is
about to be stopped by a table (`Blank`). `JobEndKeeps` and `EndKeeps` settle the
ends of a job once for all ways to end. For `LandingImplementsPromise` each component
is mapped by itself while the others stutter: a put is `Appear` when it completes
the snapshot, which only a put to an absent key can do (`LandingAppears`); a change
from outside always leaves one that is not whole (`ChangeBreaks`); a look is `Sight` or
`Forget`; and of a round, submissions and ends of executions are steps, all of
journal, polling and comparison is not.

**Batch promotion.** `BatchInv`, for any frameworks and partition into units.
`GateInv`: what the barrier and each status say about the inventory, trust and
scan of every member. `TouchInv`: nothing is written or read back before the
barrier, and only in units that were cleared. `HandInv`: of the unit in hand,
which tags are written and which are read back at its phase. `OutcomeInv`: a
framework is promoted only with all of its unit. The unit in hand is the only one
whose evidence moves, so each step is settled for that unit and dismissed for the
others. Of what is on disk, `SavedInv` says that no file calls a
framework promoted that the job does not; `PromotedStays` keeps this through each
save, whole or torn, and what the job calls promoted was written and confirmed with
its unit (`PromotionsCount`). `TagsMoveForward` rests on `ForwardInv`: while the
inventory is read, what was read of a tag stands unless an administrator overtook it,
and from the selection on each tag not yet written is behind its candidate. `NewestIsMember` (a non-empty set of runs has a newest one, by counting
the older ones) makes the choice of a candidate a run that exists.

`BatchImplementsPromotion` needs two facts that `BatchInv` does not have and no
property asks for: what was selected had soaked when the job started (`SoakInv`:
`CandidateSoaked`, and time only moves on), and what is still to be read back was not
read before (`UnreadInv`), without which a second, failing read could take a
confirmation away. The barrier is the one step that offers (`BarrierRefines`):
before it nothing is, and after it no step changes a candidate or a gate
(`OfferKept`). A write that completes, fails with an effect or outlives its runner
is one and the same step of a tag (`TagRefines`); the end of a unit counts all
its members or none (`UnitEndsRefines`).

**Alerts.** `AlertInv`, for any page size, attempts and faults. `VerdictInv`: an
event without a verdict, or closed, is not in the reports of this run, and one
delivered was open during it; `AliveInv`: so was everything known. `CreateInv`: the
event being created is not done and not known. `LookedInv` is the key: each event
still to be created was looked for, so that an issue it has lies beyond the page
or landed late, except for the one the run is about to look for. `Shrinks` sums up
every step that creates nothing (the list only loses issues and keeps its order),
so that the properties of the list need two cases. `ClosingsAreExplained` is a step
property: when an alert is closed no event waits for delivery any more, so what was
routed is open or reported as failed (`RoutedIsTold`), and the events of a gap are routed
whenever there is one.

| Theorem | Property it establishes |
|---|---|
| `ReleaseProofs!TypeCorrect` | `TypeOK` |
| `ReleaseTheorems!Inductive` | `IInv`, the strengthening itself |
| `TagsAreRecorded`, `UnitsAreOneRelease`, `HoldsCoverWrites` | `UnheldTagIsRecorded`, `UnheldUnitIsOneRelease`, `EveryMemberHeldWhileWriting` |
| `WatermarksAreKept` | `PassedKeepsWatermark` |
| `HomIsSoaked`, `ReceiptsAreRecoverable` | `HomServesSoakedApprovals`, `ReceiptIsRecoverable` |
| `ReceiptsAreWhole`, `ApprovalsAreWhole`, `HoldsAreLiftedBySuccess` | `ReceiptOnlyWhenWhole`, `ApprovalOnlyWhenWhole`, `HoldLiftedBySuccess` |
| `LifecycleImplementsChannel` | `ImplementsChannel` |
| `CustodyTheorems!Inductive`, `TypeCorrect` | `IInv`, `TypeOK` of the custody |
| `RecordsAreNeverPremature`, `ConfirmationsAreComplete`, `ConflictsAreReal` | `NothingPremature`, `ConfirmedIsComplete`, `ConflictIsReal` |
| `AtMostOneCreated`, `ErrorsAreExplained`, `VerdictsWereTrue` | `CreatedOnce`, `ErrorIsExplained`, `VerdictWasTrue` |
| `CustodyImplementsRegister` | `ImplementsRegister` |
| `PromotionBatchProofs!BatchInductive`, `BatchTypeCorrect` | `BatchInv`, `TypeOK` of the batch |
| `WrittenUnitsAreWhole`, `PromotionsCount`, `TagsMoveForward` | `WrittenUnitIsWhole`, `CountedIsPromoted`, `MovesForward` |
| `BatchImplementsPromotion` | `ImplementsPromotion` |
| `AlertProofs!AlertInductive`, `AlertTypeCorrect` | `AlertInv`, `TypeOK` of the alerts |
| `DuplicatesAreExplained`, `CleanRunsCover`, `ClosingsAreExplained` | `DuplicateIsExplained`, `CleanRunCovers`, `ClosingIsExplained` |
| `SupplyProofs!Published`, `Locked` | `PublishedIsCertified`, `LockIsCertified` |
| `CheckedBuildsUseLock`, `BuiltFromLock` | what an accepted Dockerfile builds; `BuildUsesLock` |
| `Consumed` | `ConsumptionIsCertified`, from the two before it |
| `AnalyticsProofs!IngestedOnce`, `SnapshotComplete` | `ArtifactIngestedOnce`, `CompleteMeansWhole` |
| `AnalyticsProofs!Sequential`, `JournalIsComplete` | `RoundIsSequential`, `JournalKnows` |
| `LandingImplementsPromise` | `ImplementsPromise` |

Only model-checked: liveness (`CandidateIsSettled`, `ApprovalIsSettled`,
`HoldIsLiftable`, `CommitSettles`, `AlertsFollowConditions`,
`PublishCompletes`, `RoundSettles`), as fairness and ENABLED are out of the
prover's reach; and the three claims of the documents, which are refuted.

## 11. Limits and what is not modelled

- Artifact contents are abstract. Signatures, SBOMs, scans, consumer tests, rows
  of a query and policy parsing are verdicts; that a verdict is right is not
  modelled.
- GitHub's concurrency groups are taken at their word: one job per destination,
  one build run, one round at a time. A job that GitHub runs beside its lock would
  be an `AdminWrite` to the tags, and nothing covers its writes to the records.
- S3 and ECR are read-after-write consistent, as the code requires. A registry
  write of a client that was killed may take effect with its death
  (`Die`) but not later.
- When and how often a batch promotion or an alert delivery runs is not in the
  repository: no workflow starts either. What `lifecycle.health_evidence` writes and
  how the health run reads it without unit results is not modelled.
- `HoldIsLiftable` is checked for HOM and with an empty quarantine.
- The identity and digest checks of a restored artifact (`athena_restore.py:113-147`,
  the ZIP layout) are taken to hold for what the workflow itself uploaded.
- Between the check of a Dockerfile and its build the checkout is assumed to stay as
  it is.
- Interpreted images, whose contract has one member, are not in
  `PublicationGate`: they take the same gate with nothing to pair. Consumer
  policies without a build base, and `COPY --from`, `RUN --mount` and `ADD` of a
  Dockerfile, are not in `AuditedConsumer`.
- Alert acknowledgements and the metrics of the health report that are not a
  limit are not in `AlertDelivery`.
- The bootstrap of the Terraform bucket (`infra/backend.py`) is run once, by an
  operator, and refuses all but a whole result; its hazard is listed without a
  property.
- The rest has no shared or lasting state: normalisation, catalog and governance
  are functions of their input; build wrappers, certificates, registry login and
  the consumer application matrix call tools in order. They are left to unit
  tests.
