---------------------------- MODULE PromotionBatch ----------------------------
(***************************************************************************)
(* Promotion of a batch of frameworks to the stable tag of their           *)
(* repositories (promotion_batch.promote_batch), with the candidate        *)
(* selection, the pair binding and the read-back it calls, and the reader  *)
(* of its evidence (operational_health.batch_promotion_evidence).          *)
(*                                                                         *)
(* A unit is a compiled pair, runtime and dev, or one interpreted          *)
(* framework.  An image is named by the build run of its tag, and runs     *)
(* push in their order.  The registry is read once, before minutes of      *)
(* verification and scans, and the stable tags are written one by one: in  *)
(* between builds push, administrators move tags, calls fail, and the      *)
(* runner may be lost.  What the health reads is the attempt's artifact:   *)
(* one file per framework and the summary, which save() writes in turn.    *)
(*                                                                         *)
(* No workflow starts this job any more (ADR 0011 replaced it by the       *)
(* release lifecycle), so nothing is said of when or how often it runs.    *)
(***************************************************************************)
EXTENDS Naturals, FiniteSets

CONSTANTS
    Frameworks,
    UnitOf,      \* UnitOf[f]: the unit publication_contract() puts f in
    Rank,        \* Rank[f]: the place of f in the canonical order of the batch
    NoUnit,
    MaxRun,      \* bound on build runs
    MaxFaults    \* bound on calls that fail, runners lost, and tags moved and runs
                 \* quarantined by administrators, taken together

Units == {UnitOf[f] : f \in Frameworks}
Members(u) == {f \in Frameworks : UnitOf[f] = u}

ASSUME UnitAssumption == /\ DOMAIN UnitOf = Frameworks /\ NoUnit \notin Units
                         /\ Rank \in [Frameworks -> Nat]
ASSUME BoundAssumption == MaxRun \in Nat /\ MaxFaults \in Nat

Runs == 1..MaxRun
NoImage == 0

VARIABLES
    images,      \* images[f]: the runs with an index and a build tag in f's repository
    soaked,      \* runs up to this one were pushed at least soak_hours ago
    quarantined, \* runs in promotion-quarantine.json
    stable,      \* stable[f]: the run the tag points at
    phase,       \* of the job; "done" before the first and between two
    todo,        \* members the phase has not visited
    left,        \* units whose tags are still to be written
    unit,        \* the one being written and read back
    seen,        \* seen[f]: the inventory, read once, and no more after the selection
    cutoff,      \* soaked at the start of the job: `now` does not move until then
    status,      \* status[u] of unit_results
    barrier,     \* prewrite_barrier_complete
    evidence,    \* evidence[f] of the job, which save() writes to promotion-evidence.json
    disk,        \* the reports: the files of the members, and promotion-batch.json
    conclusion,  \* of the job: "none" while it runs
    faults,
    wrote,       \* history: tags this job's writes moved
    overtaken    \* history: tags administrators moved since the job under way read them

vars == <<images, soaked, quarantined, stable, phase, todo, left, unit, seen, cutoff,
          status, barrier, evidence, disk, conclusion, faults, wrote,
          overtaken>>
registry == <<images, soaked, quarantined>>
job == <<phase, todo, left, unit, seen, cutoff, status, barrier, evidence, disk, conclusion,
         wrote>>
reports == <<disk, conclusion>>

-----------------------------------------------------------------------------
(* Selection and binding.                                                  *)

Newest(S) == CHOOSE k \in S : \A j \in S : j <= k

\* Mutant: a candidate need not be newer than stable.
CandidatesAnyAge(inventory, upto, excluded) ==
    {k \in inventory.images : k <= upto /\ k # inventory.stable /\ k \notin excluded}

\* Soaked, newer than stable, not quarantined; the newest by push time.
Candidates(inventory, upto, excluded) ==
    {k \in inventory.images : k <= upto /\ k > inventory.stable /\ k \notin excluded}
Candidate(inventory, upto, excluded) ==
    LET eligible == Candidates(inventory, upto, excluded) IN
    IF eligible = {} THEN NoImage ELSE Newest(eligible)

Blank == [candidate |-> NoImage, skipped |-> FALSE, bound |-> FALSE, trust |-> FALSE,
          scan |-> FALSE, write |-> "not_run", readback |-> "not_run",
          observed |-> NoImage, promoted |-> FALSE]
Unread == [images |-> {}, stable |-> NoImage]

\* Mutant: a pair is bound as soon as one of its members has a candidate.
BoundLoosely(u, candidate) == \E f \in Members(u) : candidate[f] # NoImage

\* verify_pair(): every member has a candidate, and they come from one run.
Bound(u, candidate) ==
    /\ \A f \in Members(u) : candidate[f] # NoImage
    /\ \A f, g \in Members(u) : candidate[f] = candidate[g]

-----------------------------------------------------------------------------
(* The job.                                                                *)

Spend == faults < MaxFaults /\ faults' = faults + 1
Free == faults' = faults
Fail(u) == status' = [status EXCEPT ![u] = "FAILED"]
\* Members are visited in the order of the batch; those of a failed unit are not.
First(f, S) == f \in S /\ \A g \in S : Rank[f] <= Rank[g]
Visit(f) == First(f, todo) /\ todo' = todo \ {f}
Pending == {f \in Frameworks : status[UnitOf[f]] = "PENDING"}

\* What a whole save() writes.  Every save before the barrier leaves a summary
\* without it, which no reader accepts: those saves are left out.
Image == [evidence |-> evidence, unit |-> [f \in Frameworks |-> status[UnitOf[f]]],
          status |-> status, barrier |-> barrier,
          promoted |-> {u \in Units : \A f \in Members(u) : evidence[f].promoted}]
\* A save ended by a death: the files are written in the order of the batch and
\* the summary last; S are the members whose files are new.
Torn(S, whole) ==
    [evidence |-> [f \in Frameworks |-> IF f \in S THEN evidence[f] ELSE disk.evidence[f]],
     unit     |-> [f \in Frameworks |-> IF f \in S THEN status[UnitOf[f]] ELSE disk.unit[f]],
     status   |-> IF whole THEN status ELSE disk.status,
     barrier  |-> IF whole THEN barrier ELSE disk.barrier,
     promoted |-> IF whole THEN Image.promoted ELSE disk.promoted]
\* The reports of a job that has saved nothing a reader accepts, or lost them.
NoReport == [evidence |-> [f \in Frameworks |-> Blank], unit |-> [f \in Frameworks |-> "PENDING"],
             status |-> [u \in Units |-> "PENDING"], barrier |-> FALSE, promoted |-> {}]
\* The save that the last step ended with is complete before the job goes on.
Saved == disk' = Image /\ UNCHANGED conclusion

Init ==
    /\ images = [f \in Frameworks |-> {}] /\ soaked = 0 /\ quarantined = {}
    /\ stable = [f \in Frameworks |-> NoImage]
    /\ phase = "done" /\ todo = {} /\ left = {} /\ unit = NoUnit
    /\ seen = [f \in Frameworks |-> Unread] /\ cutoff = 0
    /\ status = [u \in Units |-> "PENDING"] /\ barrier = FALSE
    /\ evidence = [f \in Frameworks |-> Blank]
    /\ disk = NoReport /\ conclusion = "none"
    /\ faults = 0 /\ wrote = {} /\ overtaken = {}

Start ==
    /\ phase = "done"
    /\ phase' = "inventory" /\ todo' = Frameworks /\ left' = {} /\ unit' = NoUnit
    /\ seen' = [f \in Frameworks |-> Unread] /\ cutoff' = soaked
    /\ status' = [u \in Units |-> "PENDING"] /\ barrier' = FALSE
    /\ evidence' = [f \in Frameworks |-> Blank] /\ wrote' = {}
    /\ disk' = NoReport /\ conclusion' = "none"
    /\ UNCHANGED <<registry, stable, faults, overtaken>>

\* describe-images of one repository; its failure disqualifies the unit only.
Inventory(f) ==
    /\ phase = "inventory" /\ Visit(f)
    /\ \/ /\ seen' = [seen EXCEPT ![f] = [images |-> images[f], stable |-> stable[f]]]
          /\ Free /\ UNCHANGED status
       \/ Spend /\ Fail(UnitOf[f]) /\ UNCHANGED seen
    /\ UNCHANGED <<registry, stable, phase, left, unit, cutoff, barrier, evidence, reports,
                   wrote, overtaken>>

\* Selection and pair authorization read nothing but the inventories: a unit
\* with no candidate is SKIPPED, an incomplete or divergent pair FAILED.
Select ==
    /\ phase = "inventory" /\ todo = {}
    /\ LET candidate == [f \in Frameworks |->
               IF status[UnitOf[f]] = "FAILED" THEN NoImage
               ELSE Candidate(seen[f], cutoff, quarantined)]
       IN /\ evidence' = [f \in Frameworks |-> IF status[UnitOf[f]] = "FAILED" THEN Blank ELSE
                 [Blank EXCEPT !.candidate = candidate[f], !.skipped = candidate[f] = NoImage,
                               !.bound = Bound(UnitOf[f], candidate)]]
          /\ status' = [u \in Units |->
                 IF status[u] = "FAILED" THEN "FAILED"
                 ELSE IF \A f \in Members(u) : candidate[f] = NoImage THEN "SKIPPED"
                 ELSE IF Bound(u, candidate) THEN "PENDING" ELSE "FAILED"]
    /\ phase' = "trust" /\ todo' = Frameworks
    /\ seen' = [f \in Frameworks |-> Unread] /\ cutoff' = 0
    /\ UNCHANGED <<registry, stable, left, unit, barrier, reports, faults, wrote, overtaken>>

\* A gate that rejects a member takes its unit out of the phase.
Rejected(f) == /\ Spend /\ Fail(UnitOf[f])
               /\ todo' = todo \ Members(UnitOf[f]) /\ UNCHANGED evidence

\* Platforms, signature and provenance.
Trust(f) ==
    /\ phase = "trust" /\ First(f, todo \cap Pending)
    /\ \/ /\ Free /\ todo' = todo \ {f}
          /\ evidence' = [evidence EXCEPT ![f].trust = TRUE] /\ UNCHANGED status
       \/ Rejected(f)
    /\ UNCHANGED <<registry, stable, phase, left, unit, seen, cutoff, barrier, reports,
                   wrote, overtaken>>

\* The scans start when every trust evaluation has ended.
TrustEnds ==
    /\ phase = "trust" /\ todo \cap Pending = {}
    /\ phase' = "scan" /\ todo' = Frameworks
    /\ UNCHANGED <<registry, stable, left, unit, seen, cutoff, status, barrier, evidence, reports,
                   faults, wrote, overtaken>>

\* The last scan of a unit authorizes it.
Authorized(f) == IF Members(UnitOf[f]) \cap todo = {f}
                 THEN [status EXCEPT ![UnitOf[f]] = "AUTHORIZED"] ELSE status
Scan(f) ==
    /\ phase = "scan" /\ First(f, todo \cap Pending)
    /\ \/ /\ Free /\ todo' = todo \ {f}
          /\ evidence' = [evidence EXCEPT ![f].scan = TRUE] /\ status' = Authorized(f)
       \/ Rejected(f)
    /\ UNCHANGED <<registry, stable, phase, left, unit, seen, cutoff, barrier, reports,
                   wrote, overtaken>>

Ready == {u \in Units : status[u] = "AUTHORIZED"}

\* The barrier: every unit has settled before the first mutation.
Barrier ==
    /\ phase = "scan" /\ Pending = {}
    /\ barrier' = TRUE
    /\ phase' = "units" /\ left' = Ready /\ todo' = {}
    /\ UNCHANGED <<registry, stable, unit, seen, cutoff, status, evidence, reports, faults,
                   wrote, overtaken>>

-----------------------------------------------------------------------------
(* Writes and read-back, one unit after the other.                         *)

BeginUnit(u) ==
    /\ phase = "units" /\ u \in left
    /\ \E f \in Members(u) : First(f, {g \in Frameworks : UnitOf[g] \in left})
    /\ unit' = u /\ left' = left \ {u}
    /\ phase' = "write" /\ todo' = Members(u) /\ Saved
    /\ UNCHANGED <<registry, stable, seen, cutoff, status, barrier, evidence,
                   faults, wrote, overtaken>>

\* write_status is saved as started before the registry is called.
StartWrite(f) ==
    /\ phase = "write" /\ First(f, todo) /\ evidence[f].write = "not_run"
    /\ evidence' = [evidence EXCEPT ![f].write = "started"] /\ Saved
    /\ UNCHANGED <<registry, stable, phase, todo, left, unit, seen, cutoff, status, barrier,
                   faults, wrote, overtaken>>

Tagged(f) == /\ stable' = [stable EXCEPT ![f] = evidence[f].candidate]
             /\ wrote' = wrote \cup {f}

\* Mutant: the tags of every framework of the batch are observed.
ToReadBackAll == phase' = "readback" /\ todo' = Frameworks

ToReadBack == phase' = "readback" /\ todo' = Members(unit)

WriteCompletes(f) ==
    /\ phase = "write" /\ f \in todo /\ evidence[f].write = "started"
    /\ Tagged(f) /\ Saved
    /\ evidence' = [evidence EXCEPT ![f].write = "completed"]
    /\ IF todo = {f} THEN ToReadBack ELSE todo' = todo \ {f} /\ UNCHANGED phase
    /\ UNCHANGED <<registry, left, unit, seen, cutoff, status, barrier, faults, overtaken>>

\* A failure, with or without effect, ends the writes of the unit; all its tags
\* are observed all the same.
WriteFails(f) ==
    /\ phase = "write" /\ f \in todo /\ evidence[f].write = "started" /\ Spend /\ Saved
    /\ \/ Tagged(f)
       \/ UNCHANGED <<stable, wrote>>
    /\ evidence' = [evidence EXCEPT ![f].write = "failed"]
    /\ Fail(unit) /\ ToReadBack
    /\ UNCHANGED <<registry, left, unit, seen, cutoff, barrier, overtaken>>

\* verify_stable(): the tag is read again and compared with the candidate, and
\* what was seen goes into the file of that member alone.
ReadBack(f) ==
    /\ phase = "readback" /\ Visit(f)
    /\ \/ /\ Free /\ stable[f] = evidence[f].candidate
          /\ evidence' = [evidence EXCEPT ![f].readback = "confirmed", ![f].observed = stable[f]]
          /\ UNCHANGED status
       \/ /\ Free /\ stable[f] # evidence[f].candidate
          /\ evidence' = [evidence EXCEPT ![f].readback = "mismatch", ![f].observed = stable[f]]
          /\ Fail(unit)
       \/ /\ Spend
          /\ evidence' = [evidence EXCEPT ![f].readback = "failed"]
          /\ Fail(unit)
    /\ disk' = [IF todo = Members(unit) THEN Image ELSE disk EXCEPT !.evidence[f] = evidence'[f]]
    /\ UNCHANGED <<registry, stable, phase, left, unit, seen, cutoff, barrier, conclusion,
                   wrote, overtaken>>

\* Mutant: the outcome of the own write decides; the status of the unit is not asked.
PromotedByWrite(f) == evidence[f].write = "completed"

\* record_outcome(): a write alone is never a promotion.
Promoted(f) == /\ status[UnitOf[f]] = "AUTHORIZED"
               /\ evidence[f].readback = "confirmed"
               /\ evidence[f].observed = evidence[f].candidate

UnitEnds ==
    /\ phase = "readback" /\ todo = {}
    /\ evidence' = [f \in Frameworks |->
           IF f \in Members(unit) THEN [evidence[f] EXCEPT !.promoted = Promoted(f)]
           ELSE evidence[f]]
    /\ phase' = "units" /\ unit' = NoUnit
    /\ UNCHANGED <<registry, stable, todo, left, seen, cutoff, status, barrier, reports,
                   faults, wrote, overtaken>>

\* Failed units fail the run; what was promoted before stays promoted.  The
\* upload of the reports may fail.
Finish ==
    /\ phase = "units" /\ left = {}
    /\ phase' = "done"
    /\ \/ /\ Free /\ disk' = Image
          /\ conclusion' = IF \A u \in Units : status[u] # "FAILED" THEN "success" ELSE "failure"
       \/ Spend /\ disk' = NoReport /\ conclusion' = "failure"
    /\ overtaken' = {}
    /\ UNCHANGED <<registry, stable, todo, left, unit, seen, cutoff, status, barrier, evidence, wrote>>

\* The job is cancelled, a save fails, or the runner is lost: the reports are
\* what the save under way, or the one of the `finally`, left of them, or they are
\* lost or not to be read; a write that was started may still have taken effect.
Die ==
    /\ phase # "done" /\ Spend
    /\ phase' = "done" /\ todo' = {} /\ left' = {} /\ unit' = NoUnit
    /\ \/ UNCHANGED <<stable, wrote>>
       \/ \E f \in Frameworks : evidence[f].write = "started" /\ Tagged(f)
    /\ seen' = [f \in Frameworks |-> Unread] /\ cutoff' = 0
    /\ \/ conclusion' = "failure" /\ disk' = NoReport
       \/ /\ barrier /\ conclusion' \in {"failure", "cancelled"}
          /\ \E S \in SUBSET Frameworks, whole \in BOOLEAN :
                /\ \A f \in S, g \in Frameworks : Rank[g] <= Rank[f] => g \in S
                /\ whole => S = Frameworks
                /\ disk' = Torn(S, whole)
    /\ overtaken' = {}
    /\ UNCHANGED <<registry, status, barrier, evidence>>

Step == \/ Start \/ Select \/ TrustEnds \/ Barrier \/ UnitEnds \/ Finish
        \/ \E f \in Frameworks : \/ Inventory(f) \/ Trust(f) \/ Scan(f) \/ StartWrite(f)
                                 \/ WriteCompletes(f) \/ WriteFails(f) \/ ReadBack(f)
        \/ \E u \in Units : BeginUnit(u)

-----------------------------------------------------------------------------
(* The registry and the administrators.                                    *)

\* Runs are numbered by what they pushed: one that pushed nothing has no number.
Pushed(ks) == \A k \in ks : \E f \in Frameworks : k \in images[f]

Push(f, k) ==
    /\ k > soaked /\ \A j \in images[f] : j < k
    /\ Pushed(1..(k - 1))
    /\ images' = [images EXCEPT ![f] = @ \cup {k}]
    /\ UNCHANGED <<soaked, quarantined, stable, job, faults, overtaken>>

Soak == /\ soaked < MaxRun /\ soaked' = soaked + 1 /\ Pushed({soaked'})
        /\ UNCHANGED <<images, quarantined, stable, job, faults, overtaken>>

\* The tags that the job under way read in its inventory.
Read == CASE phase = "done" -> {} [] phase = "inventory" -> Frameworks \ todo [] OTHER -> Frameworks
Move(f, k) ==
    /\ Spend /\ k \in images[f] /\ k # stable[f]
    /\ stable' = [stable EXCEPT ![f] = k]
    /\ overtaken' = overtaken \cup ({f} \cap Read)
    /\ UNCHANGED <<registry, job>>

\* A job reads the file of its own checkout: what is added meanwhile is for the next.
Quarantine(k) ==
    /\ phase = "done" /\ Spend /\ Pushed({k})
    /\ quarantined' = quarantined \cup {k}
    /\ UNCHANGED <<images, soaked, stable, job, overtaken>>

Next == \/ Step \/ Die \/ Soak
        \/ \E k \in Runs : Quarantine(k) \/ \E f \in Frameworks : Push(f, k) \/ Move(f, k)

Spec == Init /\ [][Next]_vars

-----------------------------------------------------------------------------
(* The reader of the evidence of a finished attempt.                       *)

Complete(record) ==
    /\ record.promoted /\ record.trust /\ record.scan
    /\ record.write = "completed" /\ ~record.skipped
    /\ record.readback = "confirmed" /\ record.observed = record.candidate
AllPromoted(u) == \A f \in Members(u) : Complete(evidence[f])

\* What makes batch_promotion_evidence() raise, and the artifact count for nothing:
\* a file that is not of the summary, a skip that is not clean, a partial promotion.
Inconsistent(u) ==
    \/ \E f \in Members(u) : \/ disk.unit[f] # disk.status[u]
                            \/ disk.evidence[f].promoted # (u \in disk.promoted)
    \/ /\ disk.status[u] = "SKIPPED"
       /\ \/ u \in disk.promoted
          \/ \E f \in Members(u) : \/ ~disk.evidence[f].skipped
                                  \/ disk.evidence[f].write # "not_run"
                                  \/ disk.evidence[f].readback # "not_run"
    \/ /\ \E f \in Members(u) : disk.evidence[f].promoted
       /\ ~(/\ disk.status[u] = "AUTHORIZED"
            /\ \A f \in Members(u) : Complete(disk.evidence[f]) /\ disk.evidence[f].bound)

\* framework_health(): the attempt renews the age of f's stable tag.  The job has
\* ended by itself and its reports are in the artifact; the reports of a cancelled
\* job are not looked at.
Counted(f) == /\ phase = "done" /\ conclusion \in {"success", "failure"}
              /\ disk.barrier /\ \A u \in Units : ~Inconsistent(u)
              /\ disk.evidence[f].promoted

\* verify_completed_pair(), run over the same evidence after the job.
PairVerified(u) == Bound(u, [f \in Frameworks |-> evidence[f].candidate]) /\ AllPromoted(u)

-----------------------------------------------------------------------------
(* Properties.                                                             *)

Statuses == {"PENDING", "AUTHORIZED", "FAILED", "SKIPPED"}
Evidence == [candidate : 0..MaxRun, skipped : BOOLEAN, bound : BOOLEAN, trust : BOOLEAN,
             scan : BOOLEAN, write : {"not_run", "started", "completed", "failed"},
             readback : {"not_run", "confirmed", "mismatch", "failed"},
             observed : 0..MaxRun, promoted : BOOLEAN]
Reports == [evidence : [Frameworks -> Evidence], unit : [Frameworks -> Statuses],
            status : [Units -> Statuses], barrier : BOOLEAN, promoted : SUBSET Units]

\* The states of the registry, of the job and of its evidence; what is written
\* and read back belongs to the unit in hand.
JobTypeOK ==
    /\ images \in [Frameworks -> SUBSET Runs] /\ soaked \in 0..MaxRun
    /\ quarantined \subseteq Runs /\ stable \in [Frameworks -> 0..MaxRun]
    /\ phase \in {"done", "inventory", "trust", "scan", "units", "write", "readback"}
    /\ todo \subseteq Frameworks /\ left \subseteq Units /\ unit \in Units \cup {NoUnit}
    /\ seen \in [Frameworks -> [images : SUBSET Runs, stable : 0..MaxRun]]
    /\ cutoff \in 0..MaxRun
    /\ status \in [Units -> {"PENDING", "AUTHORIZED", "FAILED", "SKIPPED"}]
    /\ barrier \in BOOLEAN /\ evidence \in [Frameworks -> Evidence]
    /\ faults \in 0..MaxFaults
    /\ wrote \subseteq Frameworks
    /\ phase \in {"write", "readback"} => unit \in Units /\ todo \subseteq Members(unit)
ReportTypeOK ==
    /\ disk \in Reports /\ conclusion \in {"none", "success", "failure", "cancelled"}
    /\ overtaken \subseteq Frameworks
TypeOK == JobTypeOK /\ ReportTypeOK

OneRun(u) == \E k \in Runs : \A f \in Members(u) : evidence[f].candidate = k

\* A tag is written only after the barrier, and only when its whole unit was
\* selected from one run, verified and scanned (promotion_batch.py:223-225).
WrittenUnitIsWhole ==
    \A f \in wrote :
        /\ barrier /\ OneRun(UnitOf[f])
        /\ \A g \in Members(UnitOf[f]) : evidence[g].trust /\ evidence[g].scan

\* The health counts a framework only if every tag of its unit was written and
\* confirmed by that attempt, whatever a torn save, a lost answer or a partial
\* pair left in the artifact.  Conversely, what an attempt promoted is counted,
\* whatever it left behind about the other units, unless the attempt was
\* cancelled, its artifact is missing or its last save was torn.
CountedIsPromoted ==
    \A f \in Frameworks :
        /\ Counted(f) => Members(UnitOf[f]) \subseteq wrote /\ PairVerified(UnitOf[f])
        /\ /\ phase = "done" /\ conclusion \in {"success", "failure"} /\ disk = Image
           /\ evidence[f].promoted
           => Counted(f)

\* The tag is compared with the candidates once, in the inventory, and written
\* minutes later without another look (promotion_batch.py:164 and 249): a batch
\* moves a tag back only if an administrator moved it in between.
MovesForward ==
    [][\A f \in wrote' \ wrote : stable'[f] > stable[f] \/ f \in overtaken]_vars

-----------------------------------------------------------------------------
(* The abstract specification that the batch implements.                   *)

\* What the barrier lets through: selected from one run, verified and scanned.
Verified(u) == OneRun(u) /\ \A g \in Members(u) : evidence[g].trust /\ evidence[g].scan
CommonRun(u, e) == CHOOSE k \in Runs : \A f \in Members(u) : e[f].candidate = k
Offered == [u \in Units |-> IF barrier /\ Verified(u) THEN CommonRun(u, evidence) ELSE NoImage]

ConfirmedTags == {f \in Frameworks : evidence[f].readback = "confirmed"}
PromotedTags == {f \in Frameworks : evidence[f].promoted}

Promotion ==
    INSTANCE UnitPromotion WITH
        tag <- stable,
        offer <- Offered,
        written <- wrote,
        confirmed <- ConfirmedTags,
        counted <- PromotedTags

\* Through lost answers, partial writes, failed units and lost runners, a batch
\* moves tags only to the soaked run that their whole unit was offered at the
\* barrier, and promotes a unit only when it moved every tag of it and saw it there.
ImplementsPromotion == Promotion!Spec
=============================================================================
