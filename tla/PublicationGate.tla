---------------------------- MODULE PublicationGate ----------------------------
(***************************************************************************)
(* The build engine from validation to publication, for one runtime/-dev   *)
(* pair (.github/workflows/build-base-images.yml, scripts/pipeline/runtime/*)
(* runtime_images.py and contract_evidence.py, scripts/pipeline/release/   *)
(* verify_publication.py and publish_sboms.py).  A run validates both      *)
(* images, executes their functional contract and publishes each member in *)
(* a leg of its own; it may be re-run, in part, as further attempts that   *)
(* find the artifacts, reports and jobs of the earlier ones.               *)
(***************************************************************************)
EXTENDS Naturals, FiniteSets

CONSTANTS
  MaxRun, MaxAttempt,   \* bounds: runs of the workflow, attempts of each
  Contents,             \* what a build may produce; builds may reproduce each other
  NoImage,
  MaxFaults             \* bound: failed validations, contracts, uploads and legs

ASSUME GateConstants ==
  MaxRun \in Nat /\ MaxAttempt \in Nat /\ MaxFaults \in Nat /\ NoImage \notin Contents

VARIABLES
  run,          \* the state GitHub keeps of a run
  executed,     \* history: the contracts that ran to a verdict
  pushed,       \* the build tags of the registry, one per image, run and attempt
  signed,       \* <<framework, digest>> with a signature of the workflow
  sboms,        \* <<framework, digest>> with its SBOMs attested
  provenance,   \* [framework, digest, run, attempt] attested by the platform
  faults

registry == <<pushed, signed, sboms, provenance>>
gateVars == <<run, executed, registry, faults>>

Runs == 1..MaxRun
Attempts == 1..MaxAttempt
Frameworks == {"runtime", "dev"}
NoReport == [kind |-> "none", runtime |-> NoImage, dev |-> NoImage]
Blank == [NoReport EXCEPT !.kind = "blank"]
Unstarted ==
  [attempt |-> 0, stage |-> "ended", rebuild |-> {}, oci |-> [f \in Frameworks |-> NoImage],
   reports |-> [a \in Attempts |-> NoReport], producer |-> [a \in Attempts |-> "none"],
   leg |-> [f \in Frameworks |-> "idle"]]

Spend == faults < MaxFaults /\ faults' = faults + 1
Becomes(n, record) == run' = [run EXCEPT ![n] = record]
Image(n, f) == [framework |-> f, digest |-> run[n].oci[f], run |-> n, attempt |-> run[n].attempt]
Whole(r) == \A f \in Frameworks : r.oci[f] # NoImage

(***************************************************************************)
(* The gate (publication_gate, gate, select): it reads the validated images*)
(* of both members, the producer jobs and every report of the run.         *)
(***************************************************************************)
Newest(S) == CHOOSE a \in S : \A b \in S : b <= a
Listed(r) == {a \in Attempts : r.reports[a].kind # "none"}

(* Mutant of ProducerSucceeded: the newest job is not asked about. *)
ProducerOnce(r) == \E a \in Attempts : r.producer[a] = "success"

(* producers(): the newest job of this contract ended in success; one that   *)
(* GitHub carried over from an earlier attempt is listed with its conclusion.*)
ProducerSucceeded(r) ==
  LET jobs == {a \in Attempts : r.producer[a] # "none"} IN
  jobs # {} /\ r.producer[Newest(jobs)] = "success"

(* report_pair(): every report of the run must name the images it is about.  *)
WellFormed(r) == \A a \in Listed(r) : r.reports[a].kind # "blank"

(* The reports about the very pair that is to be published.                  *)
Compatible(r) ==
  {a \in Listed(r) : \A f \in Frameworks : r.reports[a][f] = r.oci[f]}

(* select(): the newest of them decides, with no fallback to an older one.   *)
Authorized(r) ==
  /\ Whole(r) /\ ProducerSucceeded(r) /\ WellFormed(r)
  /\ Compatible(r) # {}
  /\ LET a == Newest(Compatible(r)) IN
       r.reports[a].kind = "passed" /\ r.producer[a] = "success"

(***************************************************************************)
(* The run                                                                 *)
(***************************************************************************)

(* The first attempt runs every job.  A later one runs the jobs it is asked  *)
(* for, the failed ones and all that need them; a contract that succeeded and*)
(* is not run again is carried over.  Runs share one concurrency group, and   *)
(* are numbered in the order they start.                                     *)
NewAttempt(n) ==
  LET r == run[n]
      a == r.attempt + 1 IN
  /\ a \in Attempts
  /\ \A m \in Runs : run[m].stage = "ended" /\ (m < n => run[m].attempt > 0)
  /\ \E rebuild \in SUBSET Frameworks, certify \in BOOLEAN :
       /\ a = 1 => rebuild = Frameworks
       /\ rebuild # {} => certify
       /\ ~certify => r.producer[r.attempt] = "success"
       /\ Becomes(n, [r EXCEPT !.attempt = a, !.rebuild = rebuild,
                        !.stage = IF certify THEN "validate" ELSE "publish",
                        !.producer = [r.producer EXCEPT ![a] = IF certify THEN "none" ELSE "success"],
                        !.leg = [f \in Frameworks |-> "idle"]])
  /\ UNCHANGED <<executed, registry, faults>>

(* The image is built, scanned and uploaded in the place of an earlier one,  *)
(* or the scan fails and what an earlier attempt uploaded stays.             *)
Validate(n, f) ==
  LET r == run[n]
      rest == r.rebuild \ {f} IN
  /\ r.stage = "validate" /\ f \in r.rebuild
  /\ \/ \E c \in Contents : Becomes(n, [r EXCEPT !.rebuild = rest, !.oci = [r.oci EXCEPT ![f] = c]])
        /\ UNCHANGED faults
     \/ Becomes(n, [r EXCEPT !.rebuild = rest]) /\ Spend
  /\ UNCHANGED <<executed, registry>>

Certified(n, report, conclusion) ==
  LET r == run[n] IN
  Becomes(n, [r EXCEPT !.stage = "publish", !.reports = [r.reports EXCEPT ![r.attempt] = report],
                       !.producer = [r.producer EXCEPT ![r.attempt] = conclusion]])

(* run(): the contract is executed on both platforms with the images that are*)
(* there; the reports carry their digests and are uploaded.                  *)
Certify(n) ==
  LET r == run[n] IN
  /\ r.stage = "validate" /\ r.rebuild = {} /\ Whole(r)
  /\ \E passed, uploaded \in BOOLEAN :
       /\ executed' = executed \cup
            {[run |-> n, attempt |-> r.attempt, runtime |-> r.oci["runtime"], dev |-> r.oci["dev"],
              passed |-> passed]}
       /\ Certified(n, IF uploaded
                       THEN [kind |-> IF passed THEN "passed" ELSE "failed",
                             runtime |-> r.oci["runtime"], dev |-> r.oci["dev"]]
                       ELSE NoReport,
                    IF passed /\ uploaded THEN "success" ELSE "failure")
       /\ IF passed /\ uploaded THEN UNCHANGED faults ELSE Spend
  /\ UNCHANGED registry

(* An image is missing, or the set-up fails before their digests are known.  *)
CertifyFails(n) ==
  LET r == run[n] IN
  /\ r.stage = "validate" /\ r.rebuild = {}
  /\ \E report \in {NoReport, Blank} : Certified(n, report, "failure")
  /\ IF Whole(r) THEN Spend ELSE UNCHANGED faults
  /\ UNCHANGED <<executed, registry>>

(***************************************************************************)
(* A leg publishes one image: the gate, the copy and its read-back, the    *)
(* signature, the SBOMs and the provenance, in this order.                 *)
(***************************************************************************)
Leg(n, f, from, to) ==
  /\ run[n].stage = "publish" /\ run[n].leg[f] = from
  /\ Becomes(n, [run[n] EXCEPT !.leg = [run[n].leg EXCEPT ![f] = to]])

Authorize(n, f) ==
  /\ Leg(n, f, "idle", IF Authorized(run[n]) THEN "authorized" ELSE "refused")
  /\ UNCHANGED <<executed, registry, faults>>

Push(n, f) ==
  /\ Leg(n, f, "authorized", "pushed")
  /\ pushed' = pushed \cup {Image(n, f)}
  /\ UNCHANGED <<executed, signed, sboms, provenance, faults>>

(* verify_publication() has compared the copy with the scanned index.        *)
Sign(n, f) ==
  /\ Leg(n, f, "pushed", "signed")
  /\ signed' = signed \cup {<<f, run[n].oci[f]>>}
  /\ UNCHANGED <<executed, pushed, sboms, provenance, faults>>

AttestSboms(n, f) ==
  /\ Leg(n, f, "signed", "listed")
  /\ sboms' = sboms \cup {<<f, run[n].oci[f]>>}
  /\ UNCHANGED <<executed, pushed, signed, provenance, faults>>

AttestProvenance(n, f) ==
  /\ Leg(n, f, "listed", "published")
  /\ provenance' = provenance \cup {Image(n, f)}
  /\ UNCHANGED <<executed, pushed, signed, sboms, faults>>

(* A step fails or the job is killed; what it wrote to the registry stays.   *)
LegFails(n, f) ==
  /\ \E from \in {"authorized", "pushed", "signed", "listed"} : Leg(n, f, from, "failed")
  /\ Spend
  /\ UNCHANGED <<executed, registry>>

EndAttempt(n) ==
  LET r == run[n] IN
  /\ r.stage = "publish"
  /\ \A f \in Frameworks : r.leg[f] \in {"idle", "refused", "failed", "published"}
  /\ Becomes(n, [r EXCEPT !.stage = "ended"])
  /\ UNCHANGED <<executed, registry, faults>>

GateInit ==
  /\ run = [n \in Runs |-> Unstarted]
  /\ executed = {} /\ pushed = {} /\ signed = {} /\ sboms = {} /\ provenance = {}
  /\ faults = 0

GateNext ==
  \E n \in Runs :
    \/ NewAttempt(n) \/ Certify(n) \/ CertifyFails(n) \/ EndAttempt(n)
    \/ \E f \in Frameworks :
         \/ Validate(n, f) \/ Authorize(n, f) \/ Push(n, f) \/ Sign(n, f)
         \/ AttestSboms(n, f) \/ AttestProvenance(n, f) \/ LegFails(n, f)
================================================================================
