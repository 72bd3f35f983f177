------------------------------ MODULE SupplyProofs ------------------------------
(***************************************************************************)
(* Proofs about PublicationGate and AuditedConsumer, for every number of    *)
(* runs, attempts, contents, faults and moves of the tags.                  *)
(***************************************************************************)
EXTENDS AuditedConsumer, OrderLemmas, TLAPS

(***************************************************************************)
(* The gate.  Whatever is published was authorized in an attempt whose      *)
(* newest contract job succeeded, and that job, or the one it was carried   *)
(* over from, executed the contract with the images that are there now.     *)
(***************************************************************************)
Conclusions == {"none", "success", "failure"}
Reports == [kind : {"none", "blank", "passed", "failed"},
            runtime : Contents \cup {NoImage}, dev : Contents \cup {NoImage}]
Authorizing == {"authorized", "pushed", "signed", "listed"}
RunStates ==
  [attempt : 0..MaxAttempt, stage : {"ended", "validate", "publish"}, rebuild : SUBSET Frameworks,
   oci : [Frameworks -> Contents \cup {NoImage}], reports : [Attempts -> Reports],
   producer : [Attempts -> Conclusions],
   leg : [Frameworks -> {"idle", "refused", "failed", "published"} \cup Authorizing]]
Executions == [run : Runs, attempt : Attempts, runtime : Contents, dev : Contents, passed : BOOLEAN]
Images == [framework : Frameworks, digest : Contents, run : Runs, attempt : Attempts]

GateTypeOK ==
  /\ run \in [Runs -> RunStates]
  /\ executed \subseteq Executions /\ pushed \subseteq Images /\ provenance \subseteq pushed

OneVerdict == \A d, e \in executed : d.run = e.run /\ d.attempt = e.attempt => d = e

ImageOf(n, r, f) == [framework |-> f, digest |-> r.oci[f], run |-> n, attempt |-> r.attempt]

(* What is known of one run, from the contracts that ran and the images out.  *)
(* Its jobs are those of its attempts so far.                                 *)
JobsSoFar(r) ==
  /\ \A a \in Attempts : a > r.attempt => r.producer[a] = "none"
  /\ r.stage # "ended" => r.attempt \in Attempts
  /\ r.stage = "publish" => r.producer[r.attempt] # "none"

HistoryIsPast(n, r, ran, out) ==
  /\ \A e \in ran : e.run = n => e.attempt <= r.attempt /\ (r.stage = "validate" => e.attempt < r.attempt)
  /\ \A p \in out : p.run = n => p.attempt <= r.attempt /\ (r.stage = "validate" => p.attempt < r.attempt)

(* A job in success stands for an execution with the images that are there,   *)
(* the newest of the run.                                                     *)
SuccessIsBacked(n, r, ran) ==
  r.stage # "validate" /\ r.attempt \in Attempts /\ r.producer[r.attempt] = "success" =>
    \E e \in ran :
      /\ e.run = n /\ e.passed /\ e.runtime = r.oci["runtime"] /\ e.dev = r.oci["dev"]
      /\ \A d \in ran : d.run = n => d.attempt <= e.attempt

LegsAreAuthorized(n, r, out) ==
  \A f \in Frameworks : r.leg[f] \in Authorizing =>
    /\ r.stage = "publish" /\ r.producer[r.attempt] = "success" /\ r.oci[f] # NoImage
    /\ r.leg[f] # "authorized" => ImageOf(n, r, f) \in out

RunSound(n, r, ran, out) ==
  JobsSoFar(r) /\ HistoryIsPast(n, r, ran, out) /\ SuccessIsBacked(n, r, ran) /\ LegsAreAuthorized(n, r, out)

GateInv ==
  GateTypeOK /\ OneVerdict /\ PublishedIsCertified /\ \A n \in Runs : RunSound(n, run[n], executed, pushed)

(* A run that moves, with no contract executed and nothing pushed.            *)
LEMMA RunMoves ==
  ASSUME GateInv, NEW n \in Runs, NEW r \in RunStates, run' = [run EXCEPT ![n] = r],
         executed' = executed, pushed' = pushed, provenance' \subseteq pushed, RunSound(n, r, executed, pushed)
  PROVE  GateInv'
<1>1. run'[n] = r /\ \A m \in Runs : m # n => run'[m] = run[m]
  BY DEF GateInv, GateTypeOK
<1>2. GateTypeOK'
  BY DEF GateInv, GateTypeOK
<1>3. OneVerdict' /\ PublishedIsCertified'
  BY DEF GateInv, OneVerdict, PublishedIsCertified
<1>4. ASSUME NEW m \in Runs PROVE RunSound(m, run[m], executed, pushed)'
  <2>1. RunSound(m, run'[m], executed', pushed')
    BY <1>1 DEF GateInv
  <2> QED BY <2>1 DEF RunSound, JobsSoFar, HistoryIsPast, SuccessIsBacked, LegsAreAuthorized, ImageOf
<1> QED BY <1>2, <1>3, <1>4 DEF GateInv

(* What the invariant says of one run. *)
LEMMA OneRun ==
  ASSUME GateInv, NEW n \in Runs
  PROVE  /\ run[n] \in RunStates /\ RunSound(n, run[n], executed, pushed)
         /\ provenance \subseteq pushed
  BY DEF GateInv, GateTypeOK

(* An attempt that is carried over keeps its success and the images of it. *)
LEMMA NewAttemptKeeps ==
  ASSUME GateInv, NEW n \in Runs, NewAttempt(n)
  PROVE  GateInv'
<1> DEFINE r == run[n]
           a == r.attempt + 1
<1>1. PICK rebuild \in SUBSET Frameworks, certify \in BOOLEAN :
        /\ rebuild # {} => certify
        /\ ~certify => r.producer[r.attempt] = "success"
        /\ a = 1 => rebuild = Frameworks
        /\ run' = [run EXCEPT ![n] = [r EXCEPT !.attempt = a, !.rebuild = rebuild,
                        !.stage = IF certify THEN "validate" ELSE "publish",
                        !.producer = [r.producer EXCEPT ![a] = IF certify THEN "none" ELSE "success"],
                        !.leg = [f \in Frameworks |-> "idle"]]]
  BY DEF NewAttempt, Becomes
<1> DEFINE s == [r EXCEPT !.attempt = a, !.rebuild = rebuild,
                   !.stage = IF certify THEN "validate" ELSE "publish",
                   !.producer = [r.producer EXCEPT ![a] = IF certify THEN "none" ELSE "success"],
                   !.leg = [f \in Frameworks |-> "idle"]]
<1>2. r \in RunStates /\ RunSound(n, r, executed, pushed) /\ provenance \subseteq pushed
  BY OneRun
<1>3. a \in Attempts /\ a \in 0..MaxAttempt /\ r.stage = "ended" /\ r.attempt \in Nat
  BY <1>2, GateConstants DEF NewAttempt, Attempts, RunStates
<1>4. /\ executed' = executed /\ pushed' = pushed /\ provenance' = provenance
  BY DEF NewAttempt, registry
<1>5. s \in RunStates
  BY <1>2, <1>3 DEF RunStates, Conclusions
<1>6. /\ s.attempt = a /\ s.oci = r.oci /\ s.leg = [f \in Frameworks |-> "idle"]
      /\ s.stage = IF certify THEN "validate" ELSE "publish"
      /\ s.producer = [r.producer EXCEPT ![a] = IF certify THEN "none" ELSE "success"]
  BY <1>2 DEF RunStates
<1> HIDE DEF s
<1>7. s.producer[a] = (IF certify THEN "none" ELSE "success")
  BY <1>2, <1>3, <1>6 DEF RunStates
<1>8. JobsSoFar(s)
  BY <1>2, <1>3, <1>6, <1>7 DEF RunSound, JobsSoFar, RunStates, Attempts
<1>9. HistoryIsPast(n, s, executed, pushed)
  <2>1. \A e \in executed : e.attempt \in Nat
    BY DEF GateInv, GateTypeOK, Executions, Attempts
  <2>2. \A p \in pushed : p.attempt \in Nat
    BY DEF GateInv, GateTypeOK, Images, Attempts
  <2> QED BY <1>2, <1>3, <1>6, <2>1, <2>2 DEF RunSound, HistoryIsPast
<1>10. SuccessIsBacked(n, s, executed)
  <2>1. CASE certify
    BY <1>6, <2>1 DEF SuccessIsBacked
  <2>2. CASE ~certify
    <3>1. r.producer[r.attempt] = "success" /\ r.attempt # 0
      BY <1>1, <2>2 DEF Frameworks
    <3>2. r.attempt \in Attempts
      BY <1>2, <1>3, <3>1 DEF Attempts, RunStates
    <3> QED BY <1>2, <1>3, <1>6, <3>1, <3>2 DEF RunSound, SuccessIsBacked
  <2> QED BY <2>1, <2>2
<1>11. LegsAreAuthorized(n, s, pushed)
  BY <1>6 DEF LegsAreAuthorized, Authorizing
<1>12. RunSound(n, s, executed, pushed)
  BY <1>8, <1>9, <1>10, <1>11 DEF RunSound
<1>13. run' = [run EXCEPT ![n] = s]
  BY <1>1 DEF s
<1> QED BY <1>2, <1>4, <1>5, <1>12, <1>13, RunMoves

(* A rebuilt image takes the place of the one before, of an attempt still open. *)
LEMMA ValidateKeeps ==
  ASSUME GateInv, NEW n \in Runs, NEW f \in Frameworks, Validate(n, f)
  PROVE  GateInv'
<1> DEFINE r == run[n]
           rest == r.rebuild \ {f}
<1>1. r \in RunStates /\ RunSound(n, r, executed, pushed) /\ provenance \subseteq pushed
  BY OneRun
<1>2. r.stage = "validate" /\ executed' = executed /\ pushed' = pushed /\ provenance' = provenance
  BY DEF Validate, registry
<1>3. PICK oci : /\ oci = r.oci \/ \E c \in Contents : oci = [r.oci EXCEPT ![f] = c]
                 /\ run' = [run EXCEPT ![n] = [r EXCEPT !.rebuild = rest, !.oci = oci]]
  <2>1. r = [r EXCEPT !.oci = r.oci] /\ [r EXCEPT !.rebuild = rest] = [r EXCEPT !.rebuild = rest, !.oci = r.oci]
    BY <1>1 DEF RunStates
  <2> QED BY <2>1 DEF Validate, Becomes
<1> DEFINE s == [r EXCEPT !.rebuild = rest, !.oci = oci]
<1>4. s \in RunStates /\ s.stage = r.stage /\ s.attempt = r.attempt /\ s.producer = r.producer /\ s.leg = r.leg
  <2>1. oci \in [Frameworks -> Contents \cup {NoImage}]
    BY <1>1, <1>3 DEF RunStates
  <2>2. rest \in SUBSET Frameworks
    BY <1>1 DEF RunStates
  <2> QED BY <1>1, <2>1, <2>2 DEF RunStates
<1> HIDE DEF s
<1>5. RunSound(n, s, executed, pushed)
  BY <1>1, <1>2, <1>4 DEF RunSound, JobsSoFar, HistoryIsPast, SuccessIsBacked, LegsAreAuthorized
<1>6. run' = [run EXCEPT ![n] = s]
  BY <1>3 DEF s
<1> QED BY <1>1, <1>2, <1>4, <1>5, <1>6, RunMoves

(* A contract that ended without an execution is a job in failure. *)
LEMMA CertifyFailsKeeps ==
  ASSUME GateInv, NEW n \in Runs, CertifyFails(n)
  PROVE  GateInv'
<1> DEFINE r == run[n]
<1>1. r \in RunStates /\ RunSound(n, r, executed, pushed) /\ provenance \subseteq pushed
  BY OneRun
<1>2. r.stage = "validate" /\ executed' = executed /\ pushed' = pushed /\ provenance' = provenance
  BY DEF CertifyFails, registry
<1>3. PICK report \in {NoReport, Blank} : Certified(n, report, "failure")
  BY DEF CertifyFails
<1> DEFINE reports == [r.reports EXCEPT ![r.attempt] = report]
           producer == [r.producer EXCEPT ![r.attempt] = "failure"]
           s == [r EXCEPT !.stage = "publish", !.reports = reports, !.producer = producer]
<1>4. run' = [run EXCEPT ![n] = s]
  BY <1>3 DEF Certified, Becomes
<1>5. reports \in [Attempts -> Reports] /\ producer \in [Attempts -> Conclusions]
  <2>1. report \in Reports
    BY DEF Reports, NoReport, Blank
  <2>2. "failure" \in Conclusions
    BY DEF Conclusions
  <2> QED BY <1>1, <2>1, <2>2 DEF RunStates
<1>6. r.attempt \in Attempts /\ producer[r.attempt] = "failure"
      /\ \A a \in Attempts : a # r.attempt => producer[a] = r.producer[a]
  BY <1>1, <1>2 DEF RunStates, RunSound, JobsSoFar
<1> HIDE DEF reports, producer
<1>7. /\ s \in RunStates /\ s.stage = "publish" /\ s.attempt = r.attempt /\ s.producer = producer
      /\ s.leg = r.leg
  BY <1>1, <1>5 DEF RunStates
<1> HIDE DEF s
<1>8. JobsSoFar(s)
  BY <1>1, <1>6, <1>7 DEF RunSound, JobsSoFar, Attempts
<1>9. HistoryIsPast(n, s, executed, pushed) /\ SuccessIsBacked(n, s, executed)
  BY <1>1, <1>2, <1>6, <1>7 DEF RunSound, HistoryIsPast, SuccessIsBacked
<1>10. LegsAreAuthorized(n, s, pushed)
  BY <1>1, <1>2, <1>7 DEF RunSound, LegsAreAuthorized
<1>11. RunSound(n, s, executed, pushed)
  BY <1>8, <1>9, <1>10 DEF RunSound
<1> QED BY <1>1, <1>2, <1>4, <1>7, <1>11, RunMoves

(* An execution is the newest of its run; its success is backed by itself.    *)
LEMMA CertifyKeeps ==
  ASSUME GateInv, NEW n \in Runs, Certify(n)
  PROVE  GateInv'
<1> DEFINE r == run[n]
<1>1. r \in RunStates /\ RunSound(n, r, executed, pushed) /\ provenance \subseteq pushed
  BY OneRun
<1>2. r.stage = "validate" /\ Whole(r) /\ pushed' = pushed /\ provenance' = provenance
  BY DEF Certify, registry
<1>3. PICK passed \in BOOLEAN, uploaded \in BOOLEAN :
        /\ executed' = executed \cup
             {[run |-> n, attempt |-> r.attempt, runtime |-> r.oci["runtime"], dev |-> r.oci["dev"],
               passed |-> passed]}
        /\ Certified(n, IF uploaded
                        THEN [kind |-> IF passed THEN "passed" ELSE "failed",
                              runtime |-> r.oci["runtime"], dev |-> r.oci["dev"]]
                        ELSE NoReport,
                     IF passed /\ uploaded THEN "success" ELSE "failure")
  BY DEF Certify
<1> DEFINE e == [run |-> n, attempt |-> r.attempt, runtime |-> r.oci["runtime"], dev |-> r.oci["dev"],
                 passed |-> passed]
           report == IF uploaded
                     THEN [kind |-> IF passed THEN "passed" ELSE "failed",
                           runtime |-> r.oci["runtime"], dev |-> r.oci["dev"]]
                     ELSE NoReport
           conclusion == IF passed /\ uploaded THEN "success" ELSE "failure"
           reports == [r.reports EXCEPT ![r.attempt] = report]
           producer == [r.producer EXCEPT ![r.attempt] = conclusion]
           s == [r EXCEPT !.stage = "publish", !.reports = reports, !.producer = producer]
<1>4. run' = [run EXCEPT ![n] = s]
  BY <1>3 DEF Certified, Becomes
<1>5. /\ r.attempt \in Attempts /\ r.oci["runtime"] \in Contents /\ r.oci["dev"] \in Contents
      /\ \A f \in Frameworks : r.oci[f] \in Contents
  BY <1>1, <1>2 DEF RunStates, RunSound, JobsSoFar, Whole, Frameworks
<1>6. e \in Executions
  BY <1>5 DEF Executions
<1>7. report \in Reports
  BY <1>5 DEF Reports, NoReport
<1> HIDE DEF report
<1>8. reports \in [Attempts -> Reports]
  BY <1>1, <1>7 DEF RunStates
<1>9. conclusion \in Conclusions /\ conclusion # "none" /\ (conclusion = "success" => passed)
  BY DEF Conclusions
<1> HIDE DEF conclusion
<1>10. producer \in [Attempts -> Conclusions]
  BY <1>1, <1>9 DEF RunStates
<1>11. producer[r.attempt] = conclusion /\ \A a \in Attempts : a # r.attempt => producer[a] = r.producer[a]
  BY <1>1, <1>5 DEF RunStates
<1> HIDE DEF reports, producer
<1>12. /\ s \in RunStates /\ s.stage = "publish" /\ s.attempt = r.attempt /\ s.producer = producer
       /\ s.leg = r.leg /\ s.oci = r.oci
  BY <1>1, <1>8, <1>10 DEF RunStates
<1> HIDE DEF s
<1>13. run'[n] = s /\ \A m \in Runs : m # n => run'[m] = run[m]
  BY <1>4 DEF GateInv, GateTypeOK
<1>14. e.run = n /\ e.attempt = r.attempt /\ e.passed = passed
       /\ e.runtime = r.oci["runtime"] /\ e.dev = r.oci["dev"]
  OBVIOUS
<1>15. executed' = executed \cup {e}
  BY <1>3
<1> HIDE DEF e
<1>16. \A d \in executed : d.run = n => d.attempt < r.attempt
  BY <1>1, <1>2 DEF RunSound, HistoryIsPast
<1>17. GateTypeOK'
  BY <1>2, <1>4, <1>6, <1>12, <1>15 DEF GateInv, GateTypeOK
<1>18. r.attempt \in Nat /\ \A d \in executed : d.attempt \in Nat
  BY <1>5 DEF Attempts, GateInv, GateTypeOK, Executions
<1>19. OneVerdict'
  BY <1>14, <1>15, <1>16, <1>18 DEF GateInv, OneVerdict
<1>20. PublishedIsCertified'
  <2>1. ASSUME NEW p \in pushed
        PROVE  \E d \in executed' :
                 /\ d.run = p.run /\ d.attempt <= p.attempt /\ d.passed /\ d[p.framework] = p.digest
                 /\ \A c \in executed' : c.run = p.run /\ c.attempt \in d.attempt + 1 .. p.attempt => c = d
    <3>1. PICK d \in executed :
            /\ d.run = p.run /\ d.attempt <= p.attempt /\ d.passed /\ d[p.framework] = p.digest
            /\ \A c \in executed : c.run = p.run /\ c.attempt \in d.attempt + 1 .. p.attempt => c = d
      BY DEF GateInv, PublishedIsCertified
    <3>2. p.run = n => p.attempt < r.attempt
      BY <1>1, <1>2 DEF RunSound, HistoryIsPast
    <3>3. p.attempt \in Nat
      BY DEF GateInv, GateTypeOK, Images, Attempts
    <3>4. ~(e.run = p.run /\ e.attempt \in d.attempt + 1 .. p.attempt)
      BY <1>14, <1>18, <3>2, <3>3
    <3> QED BY <1>15, <3>1, <3>4
  <2> QED BY <1>2, <2>1 DEF PublishedIsCertified
<1>21. ASSUME NEW m \in Runs PROVE RunSound(m, run[m], executed, pushed)'
  <2> DEFINE q == run'[m]
  <2>1. CASE m # n
    <3>1. q = run[m] /\ RunSound(m, run[m], executed, pushed)
      BY <1>13, <2>1 DEF GateInv
    <3>2. \A d \in executed' : d.run = m => d \in executed
      BY <1>14, <1>15, <2>1
    <3>3. JobsSoFar(q) /\ HistoryIsPast(m, q, executed', pushed') /\ LegsAreAuthorized(m, q, pushed')
      BY <1>2, <3>1, <3>2 DEF RunSound, JobsSoFar, HistoryIsPast, LegsAreAuthorized, ImageOf
    <3>4. SuccessIsBacked(m, q, executed')
      BY <1>15, <3>1, <3>2 DEF RunSound, SuccessIsBacked
    <3> QED BY <3>3, <3>4 DEF RunSound, JobsSoFar
  <2>2. CASE m = n
    <3>1. q = s
      BY <1>13, <2>2
    <3>2. JobsSoFar(s)
      BY <1>1, <1>5, <1>9, <1>11, <1>12 DEF RunSound, JobsSoFar, Attempts
    <3>3. HistoryIsPast(n, s, executed', pushed')
      <4>1. \A p \in pushed : p.run = n => p.attempt <= s.attempt
        BY <1>1, <1>12 DEF RunSound, HistoryIsPast
      <4> QED BY <1>2, <1>12, <1>14, <1>15, <1>16, <1>18, <4>1, <3>1, <2>2 DEF HistoryIsPast
    <3>4. SuccessIsBacked(n, s, executed')
      <4>1. \A d \in executed' : d.run = n => d.attempt <= e.attempt
        BY <1>14, <1>15, <1>16, <1>18
      <4>2. s.producer[s.attempt] = "success" => e.passed
        BY <1>5, <1>9, <1>11, <1>12, <1>14
      <4> QED BY <1>12, <1>14, <1>15, <4>1, <4>2 DEF SuccessIsBacked
    <3>5. LegsAreAuthorized(n, s, pushed')
      BY <1>1, <1>2, <1>12, <3>1, <2>2 DEF RunSound, LegsAreAuthorized
    <3> QED BY <2>2, <3>1, <3>2, <3>3, <3>4, <3>5 DEF RunSound, JobsSoFar
  <2> QED BY <2>1, <2>2
<1> QED BY <1>17, <1>19, <1>20, <1>21 DEF GateInv

(* What the gate reads is the job of this attempt: there is one and there is  *)
(* none that is newer.                                                        *)
LEMMA AuthorizedMeans ==
  ASSUME NEW n \in Runs, NEW r \in RunStates, JobsSoFar(r), r.stage = "publish", Authorized(r)
  PROVE  r.producer[r.attempt] = "success" /\ \A f \in Frameworks : r.oci[f] # NoImage
<1> DEFINE jobs == {a \in Attempts : r.producer[a] # "none"}
<1>0. r.attempt \in Attempts /\ r.producer[r.attempt] # "none"
      /\ \A a \in Attempts : a > r.attempt => r.producer[a] = "none"
  BY DEF JobsSoFar
<1>2. jobs \subseteq Nat /\ r.attempt \in Nat
  BY <1>0 DEF Attempts
<1>1. r.attempt \in jobs /\ \A b \in jobs : b <= r.attempt
  <2>1. ASSUME NEW b \in jobs PROVE ~(b > r.attempt)
    BY <1>0
  <2>2. ASSUME NEW b \in jobs PROVE b <= r.attempt
    BY <1>2, <2>1
  <2> QED BY <1>0, <2>2
<1>3. r.producer[Newest(jobs)] = "success" /\ \A f \in Frameworks : r.oci[f] # NoImage
  BY DEF Authorized, ProducerSucceeded, Whole
<1> HIDE DEF jobs
<1>4. Newest(jobs) \in jobs /\ \A b \in jobs : b <= Newest(jobs)
  BY <1>1 DEF Newest
<1>5. Newest(jobs) = r.attempt
  <2> DEFINE newest == Newest(jobs)
  <2>1. newest \in Nat /\ newest <= r.attempt /\ r.attempt <= newest
    BY <1>1, <1>2, <1>4
  <2> HIDE DEF newest
  <2>2. newest = r.attempt
    BY <1>2, <2>1
  <2> QED BY <2>2 DEF newest
<1> QED BY <1>3, <1>5

(* A leg that moves on, and in the meantime nothing is pushed.                *)
LEMMA LegMoves ==
  ASSUME GateInv, NEW n \in Runs, NEW f \in Frameworks, NEW from, NEW to, Leg(n, f, from, to),
         to \in {"refused", "failed", "published"} \cup Authorizing,
         executed' = executed, pushed' = pushed, provenance' \subseteq pushed,
         to \in Authorizing =>
           /\ run[n].producer[run[n].attempt] = "success" /\ run[n].oci[f] # NoImage
           /\ to # "authorized" => ImageOf(n, run[n], f) \in pushed
  PROVE  GateInv'
<1> DEFINE r == run[n]
           leg == [r.leg EXCEPT ![f] = to]
           s == [r EXCEPT !.leg = leg]
<1>1. r \in RunStates /\ RunSound(n, r, executed, pushed)
  BY OneRun
<1>2. run' = [run EXCEPT ![n] = s] /\ r.stage = "publish"
  BY DEF Leg, Becomes
<1>3. /\ leg \in [Frameworks -> {"idle", "refused", "failed", "published"} \cup Authorizing]
      /\ leg[f] = to /\ \A g \in Frameworks : g # f => leg[g] = r.leg[g]
  BY <1>1 DEF RunStates
<1> HIDE DEF leg
<1>4. /\ s \in RunStates /\ s.stage = r.stage /\ s.attempt = r.attempt /\ s.producer = r.producer
      /\ s.oci = r.oci /\ s.leg = leg
  BY <1>1, <1>3 DEF RunStates
<1> HIDE DEF s
<1>5. JobsSoFar(s) /\ HistoryIsPast(n, s, executed, pushed) /\ SuccessIsBacked(n, s, executed)
  BY <1>1, <1>4 DEF RunSound, JobsSoFar, HistoryIsPast, SuccessIsBacked
<1>6. LegsAreAuthorized(n, s, pushed)
  BY <1>1, <1>2, <1>3, <1>4 DEF RunSound, LegsAreAuthorized, ImageOf
<1>7. RunSound(n, s, executed, pushed)
  BY <1>5, <1>6 DEF RunSound
<1> QED BY <1>2, <1>4, <1>7, RunMoves

(* The legs that push nothing. *)
LEMMA LegKeeps ==
  ASSUME GateInv, NEW n \in Runs, NEW f \in Frameworks,
         Authorize(n, f) \/ Sign(n, f) \/ AttestSboms(n, f) \/ AttestProvenance(n, f) \/ LegFails(n, f)
  PROVE  GateInv'
<1> DEFINE r == run[n]
<1>1. r \in RunStates /\ RunSound(n, r, executed, pushed) /\ provenance \subseteq pushed
  BY OneRun
<1>2. CASE Authorize(n, f)
  <2> DEFINE to == IF Authorized(r) THEN "authorized" ELSE "refused"
  <2>1. Leg(n, f, "idle", to) /\ r.stage = "publish"
    BY <1>2 DEF Authorize, Leg
  <2>2. to \in {"refused", "failed", "published"} \cup Authorizing /\ (to \in Authorizing => to = "authorized" /\ Authorized(r))
    BY DEF Authorizing
  <2>3. Authorized(r) => r.producer[r.attempt] = "success" /\ r.oci[f] # NoImage
    BY <1>1, <2>1, AuthorizedMeans DEF RunSound
  <2>4. executed' = executed /\ pushed' = pushed /\ provenance' = provenance
    BY <1>2 DEF Authorize, registry
  <2> HIDE DEF to
  <2> QED BY <1>1, <2>1, <2>2, <2>3, <2>4, LegMoves
<1>3. ASSUME NEW from \in Authorizing, r.leg[f] = from
      PROVE  /\ r.producer[r.attempt] = "success" /\ r.oci[f] # NoImage
             /\ from # "authorized" => ImageOf(n, r, f) \in pushed
  BY <1>1, <1>3 DEF RunSound, LegsAreAuthorized
<1>4. CASE Sign(n, f)
  <2>1. Leg(n, f, "pushed", "signed") /\ r.leg[f] = "pushed" /\ executed' = executed /\ pushed' = pushed /\ provenance' = provenance
    BY <1>4 DEF Sign, Leg
  <2> QED BY <1>1, <1>3, <2>1, LegMoves DEF Authorizing
<1>5. CASE AttestSboms(n, f)
  <2>1. Leg(n, f, "signed", "listed") /\ r.leg[f] = "signed" /\ executed' = executed /\ pushed' = pushed /\ provenance' = provenance
    BY <1>5 DEF AttestSboms, Leg
  <2> QED BY <1>1, <1>3, <2>1, LegMoves DEF Authorizing
<1>6. CASE AttestProvenance(n, f)
  <2>1. /\ Leg(n, f, "listed", "published") /\ r.leg[f] = "listed" /\ executed' = executed /\ pushed' = pushed
        /\ provenance' = provenance \cup {Image(n, f)}
    BY <1>6 DEF AttestProvenance, Leg
  <2>2. Image(n, f) \in pushed
    BY <1>3, <2>1 DEF Authorizing, Image, ImageOf
  <2> QED BY <1>1, <2>1, <2>2, LegMoves DEF Authorizing
<1>7. CASE LegFails(n, f)
  <2>1. PICK from : Leg(n, f, from, "failed")
    BY <1>7 DEF LegFails
  <2>2. executed' = executed /\ pushed' = pushed /\ provenance' = provenance
    BY <1>7 DEF LegFails, registry
  <2> QED BY <1>1, <2>1, <2>2, LegMoves DEF Authorizing
<1> QED BY <1>2, <1>4, <1>5, <1>6, <1>7

(* An image is pushed while its attempt is the newest of its run: the success *)
(* that let it through is backed by the newest execution.                     *)
LEMMA PushKeeps ==
  ASSUME GateInv, NEW n \in Runs, NEW f \in Frameworks, Push(n, f)
  PROVE  GateInv'
<1> DEFINE r == run[n]
           leg == [r.leg EXCEPT ![f] = "pushed"]
           s == [r EXCEPT !.leg = leg]
           p == ImageOf(n, r, f)
<1>1. r \in RunStates /\ RunSound(n, r, executed, pushed) /\ provenance \subseteq pushed
  BY OneRun
<1>2. /\ run' = [run EXCEPT ![n] = s] /\ r.stage = "publish" /\ r.leg[f] = "authorized"
      /\ executed' = executed /\ pushed' = pushed \cup {p} /\ provenance' = provenance
  BY DEF Push, Leg, Becomes, Image, ImageOf
<1>3. r.producer[r.attempt] = "success" /\ r.oci[f] # NoImage
  BY <1>1, <1>2 DEF RunSound, LegsAreAuthorized, Authorizing
<1>4. r.attempt \in Attempts
  BY <1>1, <1>2 DEF RunSound, JobsSoFar
<1>5. r.oci[f] \in Contents
  BY <1>1, <1>3 DEF RunStates
<1>6. p \in Images /\ p.run = n /\ p.attempt = r.attempt /\ p.framework = f /\ p.digest = r.oci[f]
  BY <1>4, <1>5 DEF ImageOf, Images
<1>7. /\ leg \in [Frameworks -> {"idle", "refused", "failed", "published"} \cup Authorizing]
      /\ leg[f] = "pushed" /\ \A g \in Frameworks : g # f => leg[g] = r.leg[g]
  BY <1>1 DEF RunStates, Authorizing
<1> HIDE DEF leg
<1>8. /\ s \in RunStates /\ s.stage = r.stage /\ s.attempt = r.attempt /\ s.producer = r.producer
      /\ s.oci = r.oci /\ s.leg = leg
  BY <1>1, <1>7 DEF RunStates
<1> HIDE DEF s
<1>9. run'[n] = s /\ \A m \in Runs : m # n => run'[m] = run[m]
  BY <1>2 DEF GateInv, GateTypeOK
<1>10. ImageOf(n, s, f) = p
  BY <1>8 DEF ImageOf
<1> HIDE DEF p
<1>11. GateTypeOK' /\ OneVerdict'
  BY <1>2, <1>6, <1>8 DEF GateInv, GateTypeOK, OneVerdict
<1>12. PICK e \in executed :
         /\ e.run = n /\ e.passed /\ e.runtime = r.oci["runtime"] /\ e.dev = r.oci["dev"]
         /\ \A d \in executed : d.run = n => d.attempt <= e.attempt
  BY <1>1, <1>2, <1>3, <1>4 DEF RunSound, SuccessIsBacked
<1>13. e[p.framework] = p.digest
  <2>1. CASE f = "runtime"
    BY <1>6, <1>12, <2>1
  <2>2. CASE f = "dev"
    BY <1>6, <1>12, <2>2
  <2> QED BY <2>1, <2>2 DEF Frameworks
<1>14. e.attempt <= p.attempt
  BY <1>1, <1>6, <1>12 DEF RunSound, HistoryIsPast
<1>15. \A d \in executed : ~(d.run = p.run /\ d.attempt \in e.attempt + 1 .. p.attempt)
  <2>1. \A d \in executed : d.attempt \in Nat
    BY DEF GateInv, GateTypeOK, Executions, Attempts
  <2> QED BY <1>6, <1>12, <2>1
<1>16. PublishedIsCertified'
  BY <1>2, <1>6, <1>12, <1>13, <1>14, <1>15 DEF GateInv, PublishedIsCertified
<1>17. ASSUME NEW m \in Runs PROVE RunSound(m, run[m], executed, pushed)'
  <2>1. CASE m # n
    <3>1. \A q \in pushed' : q.run = m => q \in pushed
      BY <1>2, <1>6, <2>1
    <3>2. run'[m] = run[m] /\ RunSound(m, run[m], executed, pushed)
      BY <1>9, <2>1 DEF GateInv
    <3>3. JobsSoFar(run'[m]) /\ SuccessIsBacked(m, run'[m], executed') /\ LegsAreAuthorized(m, run'[m], pushed')
      BY <1>2, <3>2 DEF RunSound, LegsAreAuthorized
    <3>4. HistoryIsPast(m, run'[m], executed', pushed')
      BY <1>2, <3>1, <3>2 DEF RunSound, HistoryIsPast
    <3> QED BY <3>3, <3>4 DEF RunSound, JobsSoFar
  <2>2. CASE m = n
    <3>1. JobsSoFar(s) /\ SuccessIsBacked(n, s, executed)
      BY <1>1, <1>8 DEF RunSound, JobsSoFar, SuccessIsBacked
    <3>2. HistoryIsPast(n, s, executed, pushed')
      <4>1. r.attempt <= r.attempt
        BY <1>4 DEF Attempts
      <4> QED BY <1>1, <1>2, <1>6, <1>8, <4>1 DEF RunSound, HistoryIsPast
    <3>3. LegsAreAuthorized(n, s, pushed')
      <4>1. ASSUME NEW g \in Frameworks, s.leg[g] \in Authorizing
            PROVE  /\ s.stage = "publish" /\ s.producer[s.attempt] = "success" /\ s.oci[g] # NoImage
                   /\ s.leg[g] # "authorized" => ImageOf(n, s, g) \in pushed'
        <5>1. CASE g = f
          BY <1>2, <1>3, <1>8, <1>10, <5>1
        <5>2. CASE g # f
          BY <1>1, <1>2, <1>7, <1>8, <4>1, <5>2 DEF RunSound, LegsAreAuthorized, ImageOf
        <5> QED BY <5>1, <5>2
      <4> QED BY <4>1 DEF LegsAreAuthorized
    <3> QED BY <1>2, <1>9, <2>2, <3>1, <3>2, <3>3 DEF RunSound, JobsSoFar
  <2> QED BY <2>1, <2>2
<1> QED BY <1>11, <1>16, <1>17 DEF GateInv

(* An attempt ends when no leg is on its way. *)
LEMMA EndAttemptKeeps ==
  ASSUME GateInv, NEW n \in Runs, EndAttempt(n)
  PROVE  GateInv'
<1> DEFINE r == run[n]
           s == [r EXCEPT !.stage = "ended"]
<1>1. r \in RunStates /\ RunSound(n, r, executed, pushed) /\ provenance \subseteq pushed
  BY OneRun
<1>2. /\ run' = [run EXCEPT ![n] = s] /\ r.stage = "publish"
      /\ \A f \in Frameworks : r.leg[f] \in {"idle", "refused", "failed", "published"}
      /\ executed' = executed /\ pushed' = pushed /\ provenance' = provenance
  BY DEF EndAttempt, Becomes, registry
<1>3. /\ s \in RunStates /\ s.stage = "ended" /\ s.attempt = r.attempt /\ s.producer = r.producer
      /\ s.oci = r.oci /\ s.leg = r.leg
  BY <1>1 DEF RunStates
<1> HIDE DEF s
<1>4. JobsSoFar(s) /\ HistoryIsPast(n, s, executed, pushed) /\ SuccessIsBacked(n, s, executed)
  BY <1>1, <1>2, <1>3 DEF RunSound, JobsSoFar, HistoryIsPast, SuccessIsBacked
<1>5. LegsAreAuthorized(n, s, pushed)
  BY <1>2, <1>3 DEF LegsAreAuthorized, Authorizing
<1>6. RunSound(n, s, executed, pushed)
  BY <1>4, <1>5 DEF RunSound
<1> QED BY <1>1, <1>2, <1>3, <1>6, RunMoves

(* Every step of the gate keeps its invariant. *)
LEMMA GateStep ==
  ASSUME GateInv, GateNext
  PROVE  GateInv'
BY NewAttemptKeeps, ValidateKeeps, CertifyKeeps, CertifyFailsKeeps, LegKeeps, PushKeeps, EndAttemptKeeps
   DEF GateNext

(* Nothing has run and nothing is out. *)
LEMMA GateStarts == GateInit => GateInv
<1> SUFFICES ASSUME GateInit PROVE GateInv
  OBVIOUS
<1> DEFINE producer == [a \in Attempts |-> "none"]
           reports == [a \in Attempts |-> NoReport]
           oci == [f \in Frameworks |-> NoImage]
           leg == [f \in Frameworks |-> "idle"]
<1>1. /\ producer \in [Attempts -> Conclusions] /\ reports \in [Attempts -> Reports]
      /\ oci \in [Frameworks -> Contents \cup {NoImage}]
      /\ leg \in [Frameworks -> {"idle", "refused", "failed", "published"} \cup Authorizing]
  BY DEF Conclusions, Reports, NoReport
<1>2. /\ Unstarted = [attempt |-> 0, stage |-> "ended", rebuild |-> {}, oci |-> oci, reports |-> reports,
                      producer |-> producer, leg |-> leg]
      /\ \A a \in Attempts : producer[a] = "none"
      /\ \A f \in Frameworks : leg[f] = "idle"
  BY DEF Unstarted
<1> HIDE DEF producer, reports, oci, leg
<1>3. Unstarted \in RunStates
  BY <1>1, <1>2, GateConstants DEF RunStates
<1>4. GateTypeOK /\ OneVerdict /\ PublishedIsCertified
  BY <1>3 DEF GateInit, GateTypeOK, OneVerdict, PublishedIsCertified
<1>5. ASSUME NEW n \in Runs PROVE RunSound(n, run[n], executed, pushed)
  <2>1. run[n] = Unstarted /\ executed = {} /\ pushed = {}
    BY DEF GateInit
  <2> QED BY <1>2, <2>1 DEF RunSound, JobsSoFar, HistoryIsPast, SuccessIsBacked, LegsAreAuthorized, Authorizing, Attempts
<1> QED BY <1>4, <1>5 DEF GateInv

(***************************************************************************)
(* The Dockerfile.  The check follows the names of the stages as a builder *)
(* does, so the stages it accepts are built from the lock, for files of any *)
(* length.                                                                 *)
(***************************************************************************)
RuntimeArg == [kind |-> "arg", name |-> "runtime"]

(* A file is a sequence of stages. *)
LEMMA StagesOf ==
  ASSUME NEW file \in Dockerfiles
  PROVE  /\ Len(file.stages) \in Nat /\ DOMAIN file.stages = 1..Len(file.stages)
         /\ file.stages = << >> <=> Len(file.stages) = 0
BY ConsumerConstants

(* The newest of the stages of a name is one of them, and an earlier stage.   *)
LEMMA LatestIsEarlier ==
  ASSUME NEW i \in Nat, NEW S \in SUBSET (1..i - 1), S # {}
  PROVE  Latest(S) \in S /\ Latest(S) \in 1..i - 1
<1>1. S \in SUBSET Nat /\ IsFiniteSet(S)
  <2>1. 1..i - 1 \subseteq Nat
    OBVIOUS
  <2>2. IsFiniteSet(1..i - 1)
    BY FS_Interval
  <2> QED BY <2>1, <2>2, FS_Subset
<1>2. \E x \in S : \A y \in S : y <= x
  BY <1>1, LargestElement
<1> QED BY <1>2 DEF Latest

(* Where a stage names an earlier one, and 0 where it does not.               *)
Link(stages) ==
  [i \in 1..Len(stages) |->
     IF stages[i].from.kind # "arg" /\ Named(stages, i, stages[i].from.name) # {}
     THEN Latest(Named(stages, i, stages[i].from.name)) ELSE 0]

(* Links go backwards. *)
LEMMA LinksGoBack ==
  ASSUME NEW file \in Dockerfiles
  PROVE  LET n == Len(file.stages)
             link == Link(file.stages) IN
         link \in [1..n -> 0..n] /\ \A i \in 1..n : link[i] < i
<1> DEFINE stages == file.stages
           n == Len(stages)
           link == Link(stages)
<1>1. n \in Nat
  BY StagesOf
<1>2. ASSUME NEW i \in 1..n
      PROVE  link[i] \in 0..i - 1
  <2> DEFINE earlier == Named(stages, i, stages[i].from.name)
  <2>1. earlier \in SUBSET (1..i - 1) /\ i \in Nat
    BY <1>1 DEF Named
  <2>2. link[i] = IF stages[i].from.kind # "arg" /\ earlier # {} THEN Latest(earlier) ELSE 0
    BY DEF Link
  <2>3. 0 \in 0..i - 1 /\ 1..i - 1 \subseteq 0..i - 1
    BY <1>1
  <2> HIDE DEF earlier
  <2>4. earlier # {} => Latest(earlier) \in 1..i - 1
    BY <2>1, LatestIsEarlier
  <2> QED BY <2>2, <2>3, <2>4
<1>3. link = [i \in 1..n |-> link[i]]
  BY DEF Link
<1> HIDE DEF link, n
<1>4. \A i \in 1..n : link[i] \in 0..n /\ link[i] < i
  BY <1>1, <1>2
<1>5. link \in [1..n -> 0..n]
  BY <1>3, <1>4
<1> QED BY <1>4, <1>5 DEF link, n

(* What the check computes for each stage exists and is what it says.         *)
LEMMA RootValue ==
  ASSUME NEW file \in Dockerfiles
  PROVE  LET stages == file.stages
             root == Root(file) IN
         root = [i \in DOMAIN stages |->
                   LET from == stages[i].from
                       earlier == Named(stages, i, from.name) IN
                   IF from.kind = "image" /\ earlier # {} THEN root[Latest(earlier)] ELSE from]
<1> DEFINE stages == file.stages
           n == Len(stages)
           link == Link(stages)
           base == [i \in 1..n |-> stages[i].from]
<1>1. n \in Nat /\ DOMAIN stages = 1..n
  BY StagesOf
<1>2. link \in [1..n -> 0..n] /\ \A i \in 1..n : link[i] < i
  BY LinksGoBack
<1>3. PICK g : Follows(g, n, base, link)
  <2> HIDE DEF n, link, base
  <2> QED BY <1>1, <1>2, LinkedFunction
<1>4. ASSUME NEW i \in 1..n
      PROVE  (IF link[i] = 0 THEN base[i] ELSE g[link[i]]) =
               LET from == stages[i].from
                   earlier == Named(stages, i, from.name) IN
               IF from.kind = "image" /\ earlier # {} THEN g[Latest(earlier)] ELSE from
  <2> DEFINE earlier == Named(stages, i, stages[i].from.name)
  <2>1. link[i] = IF stages[i].from.kind # "arg" /\ earlier # {} THEN Latest(earlier) ELSE 0
    BY DEF Link
  <2>2. earlier # {} => Latest(earlier) # 0
    <3>1. earlier \in SUBSET (1..i - 1) /\ i \in Nat
      BY <1>1 DEF Named
    <3> HIDE DEF earlier
    <3>2. earlier # {} => Latest(earlier) \in 1..i - 1
      BY <3>1, LatestIsEarlier
    <3> QED BY <3>1, <3>2
  <2>3. stages[i].from.kind # "arg" <=> stages[i].from.kind = "image"
    <3>1. stages \in Seq(Stages)
      BY ConsumerConstants
    <3>2. stages[i] \in Stages
      BY <1>1, <3>1
    <3> QED BY <3>2 DEF Stages
  <2> HIDE DEF link
  <2> QED BY <2>1, <2>2, <2>3
<1>5. g = [i \in DOMAIN stages |->
             LET from == stages[i].from
                 earlier == Named(stages, i, from.name) IN
             IF from.kind = "image" /\ earlier # {} THEN g[Latest(earlier)] ELSE from]
  <2> HIDE DEF link, base, n
  <2>1. g = [i \in 1..n |-> g[i]]
    BY <1>3 DEF Follows
  <2>2. ASSUME NEW i \in 1..n
        PROVE  g[i] = LET from == stages[i].from
                          earlier == Named(stages, i, from.name) IN
                      IF from.kind = "image" /\ earlier # {} THEN g[Latest(earlier)] ELSE from
    BY <1>3, <1>4 DEF Follows
  <2> QED BY <1>1, <2>1, <2>2
<1> QED BY <1>5 DEF Root

(* And so does what a builder makes of each stage.                            *)
LEMMA SourceValue ==
  ASSUME NEW file \in Dockerfiles
  PROVE  LET stages == file.stages
             source == Source(file) IN
         source = [i \in DOMAIN stages |->
                     LET from == stages[i].from
                         earlier == {j \in 1..i - 1 : stages[j].as = from.name} IN
                     IF from.kind = "arg"
                     THEN IF from.name \in Args /\ file.declared[from.name] # "missing"
                          THEN from.name ELSE "default"
                     ELSE IF earlier # {}
                          THEN source[CHOOSE j \in earlier : \A k \in earlier : k <= j]
                     ELSE IF from.name = "scratch" THEN "scratch" ELSE "external"]
<1> DEFINE stages == file.stages
           n == Len(stages)
           link == Link(stages)
           Pulled(from) ==
             IF from.kind = "arg"
             THEN IF from.name \in Args /\ file.declared[from.name] # "missing" THEN from.name ELSE "default"
             ELSE IF from.name = "scratch" THEN "scratch" ELSE "external"
           base == [i \in 1..n |-> Pulled(stages[i].from)]
<1>1. n \in Nat /\ DOMAIN stages = 1..n
  BY StagesOf
<1>2. link \in [1..n -> 0..n] /\ \A i \in 1..n : link[i] < i
  BY LinksGoBack
<1>3. PICK g : Follows(g, n, base, link)
  <2> HIDE DEF n, link, base
  <2> QED BY <1>1, <1>2, LinkedFunction
<1>4. ASSUME NEW i \in 1..n
      PROVE  (IF link[i] = 0 THEN base[i] ELSE g[link[i]]) =
               LET from == stages[i].from
                   earlier == {j \in 1..i - 1 : stages[j].as = from.name} IN
               IF from.kind = "arg"
               THEN IF from.name \in Args /\ file.declared[from.name] # "missing"
                    THEN from.name ELSE "default"
               ELSE IF earlier # {}
                    THEN g[CHOOSE j \in earlier : \A k \in earlier : k <= j]
               ELSE IF from.name = "scratch" THEN "scratch" ELSE "external"
  <2> DEFINE earlier == Named(stages, i, stages[i].from.name)
  <2>1. link[i] = IF stages[i].from.kind # "arg" /\ earlier # {} THEN Latest(earlier) ELSE 0
    BY DEF Link
  <2>2. earlier # {} => Latest(earlier) # 0
    <3>1. earlier \in SUBSET (1..i - 1) /\ i \in Nat
      BY <1>1 DEF Named
    <3> HIDE DEF earlier
    <3>2. earlier # {} => Latest(earlier) \in 1..i - 1
      BY <3>1, LatestIsEarlier
    <3> QED BY <3>1, <3>2
  <2>3. /\ earlier = {j \in 1..i - 1 : stages[j].as = stages[i].from.name}
        /\ Latest(earlier) = CHOOSE j \in earlier : \A k \in earlier : k <= j
    BY DEF Named, Latest
  <2>4. base[i] = Pulled(stages[i].from)
    OBVIOUS
  <2> HIDE DEF link, base, earlier
  <2> QED BY <2>1, <2>2, <2>3, <2>4
<1>5. g = [i \in DOMAIN stages |->
             LET from == stages[i].from
                 earlier == {j \in 1..i - 1 : stages[j].as = from.name} IN
             IF from.kind = "arg"
             THEN IF from.name \in Args /\ file.declared[from.name] # "missing"
                  THEN from.name ELSE "default"
             ELSE IF earlier # {}
                  THEN g[CHOOSE j \in earlier : \A k \in earlier : k <= j]
             ELSE IF from.name = "scratch" THEN "scratch" ELSE "external"]
  <2> HIDE DEF link, base, n
  <2>1. g = [i \in 1..n |-> g[i]]
    BY <1>3 DEF Follows
  <2>2. ASSUME NEW i \in 1..n
        PROVE  g[i] = LET from == stages[i].from
                          earlier == {j \in 1..i - 1 : stages[j].as = from.name} IN
                      IF from.kind = "arg"
                      THEN IF from.name \in Args /\ file.declared[from.name] # "missing"
                           THEN from.name ELSE "default"
                      ELSE IF earlier # {}
                           THEN g[CHOOSE j \in earlier : \A k \in earlier : k <= j]
                      ELSE IF from.name = "scratch" THEN "scratch" ELSE "external"
    BY <1>3, <1>4 DEF Follows
  <2> QED BY <1>1, <2>1, <2>2
<1> QED BY <1>5 DEF Source

(* Without a finding every stage is built from the lock or from nothing, and  *)
(* one that the check derives from the runtime is built from the runtime.     *)
LEMMA SourceFollowsRoot ==
  ASSUME NEW file \in Dockerfiles, Findings(file) = {}, NEW i \in 1..Len(file.stages)
  PROVE  /\ Source(file)[i] \in Args \cup {"scratch"}
         /\ Root(file)[i] = RuntimeArg => Source(file)[i] = "runtime"
<1> DEFINE stages == file.stages
           n == Len(stages)
           root == Root(file)
           source == Source(file)
           S == {k \in 1..n : /\ source[k] \in Args \cup {"scratch"}
                              /\ root[k] = RuntimeArg => source[k] = "runtime"}
<1>1. n \in Nat /\ DOMAIN stages = 1..n
  BY StagesOf
<1>2. ASSUME NEW k \in 1..n, \A j \in 1..k - 1 : j \in S
      PROVE  k \in S
  <2> DEFINE from == stages[k].from
             earlier == Named(stages, k, from.name)
  <2>1. from \in [kind : {"arg", "image"}, name : STRING]
    <3>1. stages \in Seq(Stages)
      BY ConsumerConstants
    <3>2. stages[k] \in Stages
      BY <1>1, <3>1
    <3> QED BY <3>2 DEF Stages
  <2>2. IF from.kind = "arg" THEN from.name \in Args /\ file.declared[from.name] = "bare"
        ELSE from.name = "scratch" \/ earlier # {}
    BY <1>1 DEF Findings
  <2>3. root[k] = IF from.kind = "image" /\ earlier # {} THEN root[Latest(earlier)] ELSE from
    <3> HIDE DEF n
    <3> QED BY <1>1, RootValue
  <2>4. source[k] = IF from.kind = "arg"
                    THEN IF from.name \in Args /\ file.declared[from.name] # "missing"
                         THEN from.name ELSE "default"
                    ELSE IF earlier # {} THEN source[Latest(earlier)]
                    ELSE IF from.name = "scratch" THEN "scratch" ELSE "external"
    <3> HIDE DEF n
    <3> QED BY <1>1, SourceValue DEF Named, Latest
  <2>5. earlier # {} => Latest(earlier) \in S
    <3>1. earlier \in SUBSET (1..k - 1) /\ k \in Nat
      BY <1>1 DEF Named
    <3> HIDE DEF earlier, S
    <3>2. earlier # {} => Latest(earlier) \in 1..k - 1
      BY <3>1, LatestIsEarlier
    <3> QED BY <1>2, <3>2
  <2> HIDE DEF from, earlier, root, source
  <2>6. CASE from.kind = "arg"
    <3>1. source[k] = from.name /\ from.name \in Args /\ root[k] = from
      BY <2>2, <2>3, <2>4, <2>6
    <3>2. root[k] = RuntimeArg => from.name = "runtime"
      BY <3>1 DEF RuntimeArg
    <3> QED BY <3>1, <3>2
  <2>7. CASE from.kind = "image" /\ earlier # {}
    BY <2>3, <2>4, <2>5, <2>7
  <2>8. CASE from.kind = "image" /\ earlier = {}
    <3>1. source[k] = "scratch" /\ root[k] = from
      BY <2>2, <2>3, <2>4, <2>8
    <3>2. root[k] # RuntimeArg
      BY <2>8, <3>1 DEF RuntimeArg
    <3> QED BY <3>1, <3>2
  <2> QED BY <2>1, <2>6, <2>7, <2>8
<1>3. \A k \in 1..n : k \in S
  <2> HIDE DEF S, n
  <2> QED BY <1>1, <1>2, StrongInduction
<1> QED BY <1>3

(* A file that passes the check is built on the runtime of the lock, and its  *)
(* stages pull nothing that the lock does not name.                           *)
THEOREM CheckedBuildsUseLock ==
  ASSUME NEW build \in Builds
  PROVE  build.final = "runtime" /\ build.pulled \subseteq Args
<1>1. PICK file \in Dockerfiles : Passes(file) /\ build = Built(file)
  BY DEF Builds
<1> DEFINE n == Len(file.stages)
<1>2. n \in Nat /\ n # 0 /\ DOMAIN file.stages = 1..n
  BY <1>1, StagesOf DEF Passes, FinalIsRuntime
<1>3. Findings(file) = {} /\ Root(file)[n] = RuntimeArg
  BY <1>1 DEF Passes, FinalIsRuntime, RuntimeArg
<1>4. build.final = Source(file)[n]
      /\ build.pulled = {Source(file)[i] : i \in DOMAIN file.stages} \ {"scratch"}
  BY <1>1 DEF Built
<1>5. \A i \in 1..n : /\ Source(file)[i] \in Args \cup {"scratch"}
                      /\ Root(file)[i] = RuntimeArg => Source(file)[i] = "runtime"
  BY <1>3, SourceFollowsRoot
<1> HIDE DEF n
<1>6. n \in 1..n
  BY <1>2
<1> QED BY <1>2, <1>3, <1>4, <1>5, <1>6

(***************************************************************************)
(* The consumer.  What it has seen of a base stays true, as provenance only *)
(* grows, and two images of one run and attempt stand on one execution.     *)
(***************************************************************************)
ConsumerStates ==
  [pc : {"idle", "resolve", "check", "pair", "locked", "recorded"},
   level : {"none", "simplified", "full-policy"}, release : Releases \cup {NoRelease},
   by : {"none", "tag", "digest", "record"}, base : Frameworks,
   digest : [Frameworks -> Contents \cup {NoImage}], seen : [Frameworks -> SUBSET Releases],
   build : Builds \cup {NoBuild}]

(* What a consumer c has verified, with the invocations that provenance holds *)
(* of each image.                                                             *)
SeenIsAttested(c) == \A f \in Frameworks : c.seen[f] \subseteq Invocations(f, c.digest[f])
OneReading(c) ==
  c.pc \in {"resolve", "check"} => c.by # "none" /\ c.seen[c.base] = {} /\ c.seen["dev"] = {}
LockIsOneExecution(c) ==
  c.pc \in {"locked", "recorded"} /\ c.level = "full-policy" =>
    Invocations("runtime", c.digest["runtime"]) \cap Invocations("dev", c.digest["dev"]) # {}
BuildIsChecked(c) == c.pc = "recorded" => c.build \in Builds

ConsumerInv ==
  /\ consumer \in ConsumerStates /\ stable \in [Frameworks -> Contents \cup {NoImage}]
  /\ SeenIsAttested(consumer) /\ OneReading(consumer) /\ LockIsOneExecution(consumer)
  /\ BuildIsChecked(consumer)

IInv == GateInv /\ ConsumerInv

(* No step takes an attestation back. *)
LEMMA ProvenanceGrows == GateNext => provenance \subseteq provenance'
BY DEF GateNext, NewAttempt, Certify, CertifyFails, EndAttempt, Validate, Authorize, Push, Sign,
       AttestSboms, AttestProvenance, LegFails, registry

(* While the consumer waits, what it has seen only becomes more.              *)
LEMMA ConsumerStays ==
  ASSUME ConsumerInv, consumer' = consumer, stable' \in [Frameworks -> Contents \cup {NoImage}],
         provenance \subseteq provenance'
  PROVE  ConsumerInv'
<1>1. \A f, d : Invocations(f, d) \subseteq Invocations(f, d)'
  BY DEF Invocations
<1>2. SeenIsAttested(consumer)'
  BY <1>1 DEF ConsumerInv, SeenIsAttested
<1>3. LockIsOneExecution(consumer)'
  BY <1>1 DEF ConsumerInv, LockIsOneExecution
<1> QED BY <1>2, <1>3 DEF ConsumerInv, OneReading, BuildIsChecked, ConsumerStates

(* What the gate knows rests on four variables. *)
LEMMA GateStays ==
  ASSUME GateInv, UNCHANGED <<run, executed, pushed, provenance>>
  PROVE  GateInv'
<1>1. GateTypeOK' /\ OneVerdict' /\ PublishedIsCertified'
  BY DEF GateInv, GateTypeOK, OneVerdict, PublishedIsCertified
<1>2. \A n \in Runs : RunSound(n, run[n], executed, pushed)'
  BY DEF GateInv, RunSound, JobsSoFar, HistoryIsPast, SuccessIsBacked, LegsAreAuthorized
<1> QED BY <1>1, <1>2 DEF GateInv

(* A step of the consumer touches nothing else.                               *)
LEMMA ConsumerMoves ==
  ASSUME IInv, NEW c \in ConsumerStates, Continues(c),
         SeenIsAttested(c), OneReading(c), LockIsOneExecution(c), BuildIsChecked(c)
  PROVE  IInv'
<1>1. /\ consumer' = c /\ stable' = stable
      /\ UNCHANGED <<run, executed, pushed, provenance>>
  BY DEF Continues, gateVars, registry
<1>2. \A f, d : Invocations(f, d)' = Invocations(f, d)
  BY <1>1 DEF Invocations
<1>3. ConsumerInv'
  BY <1>1, <1>2 DEF IInv, ConsumerInv, SeenIsAttested, OneReading, LockIsOneExecution, BuildIsChecked
<1>4. GateInv'
  BY <1>1, GateStays DEF IInv
<1> QED BY <1>3, <1>4 DEF IInv

(* A consumer that waits has verified nothing. *)
LEMMA WaitingIsSound ==
  Waiting \in ConsumerStates /\ SeenIsAttested(Waiting) /\ OneReading(Waiting)
  /\ LockIsOneExecution(Waiting) /\ BuildIsChecked(Waiting)
<1>1. Waiting.seen = [f \in Frameworks |-> {}] /\ Waiting.pc = "idle"
  BY DEF Waiting
<1>2. Waiting \in ConsumerStates
  BY DEF Waiting, ConsumerStates, Frameworks
<1> QED BY <1>1, <1>2 DEF SeenIsAttested, OneReading, LockIsOneExecution, BuildIsChecked

(* A refusal leaves a consumer that waits. *)
LEMMA BlockedKeeps ==
  ASSUME IInv, Blocked
  PROVE  IInv'
BY WaitingIsSound, ConsumerMoves DEF Blocked

(* An execution starts with nothing seen. *)
LEMMA BeginKeeps ==
  ASSUME IInv, Begin
  PROVE  IInv'
<1>1. PICK level \in {"simplified", "full-policy"}, by \in {"tag", "digest", "record"},
           release \in Releases \cup {NoRelease} :
        Continues([Waiting EXCEPT !.pc = "resolve", !.level = level, !.by = by, !.release = release])
  BY DEF Begin
<1> DEFINE c == [Waiting EXCEPT !.pc = "resolve", !.level = level, !.by = by, !.release = release]
<1>2. c \in ConsumerStates /\ c.pc = "resolve" /\ c.seen = Waiting.seen /\ c.by = by
  BY WaitingIsSound DEF ConsumerStates
<1>3. Waiting.seen = [f \in Frameworks |-> {}]
  BY DEF Waiting
<1> HIDE DEF c
<1>4. SeenIsAttested(c) /\ OneReading(c) /\ LockIsOneExecution(c) /\ BuildIsChecked(c)
  <2>1. c.base \in Frameworks /\ by # "none"
    BY <1>2 DEF ConsumerStates
  <2> QED BY <1>2, <1>3, <2>1 DEF SeenIsAttested, OneReading, LockIsOneExecution, BuildIsChecked, Frameworks
<1>5. Continues(c)
  BY <1>1 DEF c
<1> QED BY <1>2, <1>4, <1>5, ConsumerMoves

(* A tag, a digest or a record leads to an image of the registry, if to any. *)
LEMMA ReferredIsImage ==
  ASSUME IInv, NEW f \in Frameworks, consumer.by \in {"tag", "digest", "record"}
  PROVE  Referred(f) \subseteq Contents
<1>1. \A p \in pushed : p.digest \in Contents
  BY DEF IInv, GateInv, GateTypeOK, Images
<1>2. stable[f] # NoImage => stable[f] \in Contents
  BY DEF IInv, ConsumerInv
<1> QED BY <1>1, <1>2 DEF Referred, Pushed

(* Resolving a base sets its digest before anything is seen of it. *)
LEMMA ResolveKeeps ==
  ASSUME IInv, Resolve
  PROVE  IInv'
<1> DEFINE f == consumer.base
<1>1. consumer \in ConsumerStates /\ consumer.pc = "resolve" /\ SeenIsAttested(consumer) /\ consumer.seen[f] = {}
      /\ consumer.seen["dev"] = {} /\ consumer.by # "none"
  BY DEF IInv, ConsumerInv, Resolve, Consumer, OneReading
<1>2. f \in Frameworks /\ consumer.by \in {"tag", "digest", "record"}
  BY <1>1 DEF ConsumerStates
<1>3. ASSUME NEW digest \in Referred(f), Continues([consumer EXCEPT !.pc = "check", !.digest[f] = digest])
      PROVE  IInv'
  <2> DEFINE digests == [consumer.digest EXCEPT ![f] = digest]
             c == [consumer EXCEPT !.pc = "check", !.digest = digests]
  <2>1. /\ digests \in [Frameworks -> Contents \cup {NoImage}]
        /\ \A g \in Frameworks : g # f => digests[g] = consumer.digest[g]
    BY <1>1, <1>2, ReferredIsImage DEF ConsumerStates
  <2>2. [consumer EXCEPT !.pc = "check", !.digest[f] = digest] = c
    BY <1>1 DEF ConsumerStates
  <2> HIDE DEF digests
  <2>3. c \in ConsumerStates /\ c.pc = "check" /\ c.digest = digests /\ c.seen = consumer.seen /\ c.base = f
        /\ c.by = consumer.by
    BY <1>1, <2>1 DEF ConsumerStates
  <2> HIDE DEF c
  <2>4. SeenIsAttested(c) /\ OneReading(c) /\ LockIsOneExecution(c) /\ BuildIsChecked(c)
    BY <1>1, <2>1, <2>3 DEF SeenIsAttested, OneReading, LockIsOneExecution, BuildIsChecked
  <2> QED BY <1>3, <2>2, <2>3, <2>4, ConsumerMoves
<1>4. \/ Blocked
      \/ \E digest \in Referred(f) : Continues([consumer EXCEPT !.pc = "check", !.digest[f] = digest])
  BY DEF Resolve
<1> QED BY <1>3, <1>4, BlockedKeeps

(* What is seen of a base is what provenance holds of its digest. *)
LEMMA CheckKeeps ==
  ASSUME IInv, Check
  PROVE  IInv'
<1> DEFINE f == consumer.base
           invocations == Invocations(f, consumer.digest[f])
           seen == [consumer.seen EXCEPT ![f] = invocations]
           next == IF f = "runtime" THEN "resolve" ELSE "pair"
           c == [consumer EXCEPT !.seen = seen, !.base = "dev", !.pc = next]
<1>1. consumer \in ConsumerStates /\ consumer.pc = "check" /\ SeenIsAttested(consumer) /\ consumer.seen[f] = {}
      /\ consumer.seen["dev"] = {} /\ consumer.by # "none"
  BY DEF IInv, ConsumerInv, Check, Consumer, OneReading
<1>2. f \in Frameworks
  BY <1>1 DEF ConsumerStates
<1>3. invocations \subseteq Releases
  BY DEF IInv, GateInv, GateTypeOK, Images, Invocations, Releases
<1>4. Blocked \/ Continues([consumer EXCEPT !.seen[f] = invocations, !.base = "dev", !.pc = next])
  BY DEF Check
<1>5. seen \in [Frameworks -> SUBSET Releases] /\ seen[f] = invocations
      /\ \A g \in Frameworks : g # f => seen[g] = consumer.seen[g]
  BY <1>1, <1>2, <1>3 DEF ConsumerStates
<1>6. [consumer EXCEPT !.seen[f] = invocations, !.base = "dev", !.pc = next] = c
  BY <1>1 DEF ConsumerStates
<1>7. next \in {"resolve", "pair"} /\ (next = "resolve" => f = "runtime")
  OBVIOUS
<1> HIDE DEF seen, next
<1>8. /\ c \in ConsumerStates /\ c.pc = next /\ c.digest = consumer.digest /\ c.seen = seen
      /\ c.base = "dev" /\ c.by = consumer.by
  BY <1>1, <1>5, <1>7 DEF ConsumerStates, Frameworks
<1> HIDE DEF c
<1>9. SeenIsAttested(c) /\ LockIsOneExecution(c) /\ BuildIsChecked(c)
  BY <1>1, <1>5, <1>7, <1>8 DEF SeenIsAttested, LockIsOneExecution, BuildIsChecked
<1>10. OneReading(c)
  BY <1>1, <1>5, <1>7, <1>8 DEF OneReading, Frameworks
<1> QED BY <1>4, <1>6, <1>8, <1>9, <1>10, BlockedKeeps, ConsumerMoves

(* Under the full policy the lock is only taken on a common invocation.       *)
LEMMA PairKeeps ==
  ASSUME IInv, Pair
  PROVE  IInv'
<1> DEFINE c == [Waiting EXCEPT !.pc = "locked", !.level = consumer.level, !.digest = consumer.digest]
<1>1. consumer \in ConsumerStates /\ SeenIsAttested(consumer)
  BY DEF IInv, ConsumerInv
<1>2. Blocked \/ (SameExecution /\ Continues(c))
  BY DEF Pair
<1>3. c \in ConsumerStates /\ c.pc = "locked" /\ c.level = consumer.level /\ c.digest = consumer.digest
      /\ c.seen = Waiting.seen
  BY <1>1, WaitingIsSound DEF ConsumerStates
<1>4. Waiting.seen = [f \in Frameworks |-> {}]
  BY DEF Waiting
<1> HIDE DEF c
<1>5. SeenIsAttested(c) /\ OneReading(c) /\ BuildIsChecked(c)
  BY <1>3, <1>4 DEF SeenIsAttested, OneReading, BuildIsChecked
<1>6. SameExecution => LockIsOneExecution(c)
  <2> SUFFICES ASSUME SameExecution, c.level = "full-policy"
               PROVE  Invocations("runtime", c.digest["runtime"]) \cap Invocations("dev", c.digest["dev"]) # {}
    BY DEF LockIsOneExecution
  <2>1. consumer.seen["runtime"] \cap consumer.seen["dev"] # {}
    BY <1>3 DEF SameExecution
  <2>2. /\ consumer.seen["runtime"] \subseteq Invocations("runtime", c.digest["runtime"])
        /\ consumer.seen["dev"] \subseteq Invocations("dev", c.digest["dev"])
    BY <1>1, <1>3 DEF SeenIsAttested, Frameworks
  <2> QED BY <2>1, <2>2
<1> QED BY <1>2, <1>3, <1>5, <1>6, BlockedKeeps, ConsumerMoves

(* A build leaves the lock as it is. *)
LEMMA BuildKeeps ==
  ASSUME IInv, Build
  PROVE  IInv'
<1>1. PICK build \in Builds : Continues([consumer EXCEPT !.pc = "recorded", !.build = build])
  BY DEF Build
<1> DEFINE c == [consumer EXCEPT !.pc = "recorded", !.build = build]
<1>2. /\ consumer \in ConsumerStates /\ consumer.pc = "locked"
      /\ SeenIsAttested(consumer) /\ LockIsOneExecution(consumer)
  BY DEF IInv, ConsumerInv, Build, Consumer
<1>3. /\ c \in ConsumerStates /\ c.pc = "recorded" /\ c.level = consumer.level /\ c.digest = consumer.digest
      /\ c.seen = consumer.seen /\ c.build = build
  BY <1>2 DEF ConsumerStates
<1> HIDE DEF c
<1>4. SeenIsAttested(c) /\ OneReading(c) /\ LockIsOneExecution(c) /\ BuildIsChecked(c)
  BY <1>2, <1>3 DEF SeenIsAttested, OneReading, LockIsOneExecution, BuildIsChecked
<1>5. Continues(c)
  BY <1>1 DEF c
<1> QED BY <1>3, <1>4, <1>5, ConsumerMoves

(* A tag moves to an image that was pushed.                                   *)
LEMMA MoveKeeps ==
  ASSUME IInv, NEW f \in Frameworks, Move(f)
  PROVE  IInv'
<1>1. PICK p \in pushed : stable' = [stable EXCEPT ![f] = p.digest]
  BY DEF Move
<1>2. consumer' = consumer /\ UNCHANGED <<run, executed, pushed, provenance>>
  BY DEF Move, gateVars, registry
<1>3. p.digest \in Contents
  BY DEF IInv, GateInv, GateTypeOK, Images
<1>4. stable' \in [Frameworks -> Contents \cup {NoImage}]
  BY <1>1, <1>3 DEF IInv, ConsumerInv
<1> QED BY <1>2, <1>4, GateStays, ConsumerStays DEF IInv

(* The invariant holds in the initial states. *)
LEMMA IInvStarts == Init => IInv
<1> SUFFICES ASSUME Init PROVE IInv
  OBVIOUS
<1>1. GateInv
  BY GateStarts DEF Init
<1>2. ConsumerInv
  BY WaitingIsSound DEF Init, ConsumerInv
<1> QED BY <1>1, <1>2 DEF IInv

(* Every step of the gate, the consumer and the tags keeps the invariant. *)
LEMMA IInvStep == IInv /\ [Next]_vars => IInv'
<1> SUFFICES ASSUME IInv, [Next]_vars PROVE IInv'
  OBVIOUS
<1>1. CASE GateNext /\ UNCHANGED <<stable, moves, consumer>>
  <2>1. stable' \in [Frameworks -> Contents \cup {NoImage}] /\ consumer' = consumer
    BY <1>1 DEF IInv, ConsumerInv
  <2> QED BY <1>1, <2>1, GateStep, ProvenanceGrows, ConsumerStays DEF IInv
<1>2. CASE Begin \/ Resolve \/ Check \/ Pair \/ Build
  BY <1>2, BeginKeeps, ResolveKeeps, CheckKeeps, PairKeeps, BuildKeeps
<1>3. CASE Leave
  BY <1>3, BlockedKeeps DEF Leave
<1>4. CASE \E f \in Frameworks : Move(f)
  BY <1>4, MoveKeeps
<1>5. CASE UNCHANGED vars
  <2>1. consumer' = consumer /\ stable' = stable /\ UNCHANGED <<run, executed, pushed, provenance>>
    BY <1>5 DEF vars, gateVars, registry
  <2>2. stable' \in [Frameworks -> Contents \cup {NoImage}]
    BY <2>1 DEF IInv, ConsumerInv
  <2> QED BY <2>1, <2>2, GateStays, ConsumerStays DEF IInv
<1> QED BY <1>1, <1>2, <1>3, <1>4, <1>5 DEF Next

(* Two images of one run and attempt stand on the same execution.             *)
LEMMA OneExecution ==
  ASSUME GateInv, NEW p \in pushed, NEW q \in pushed, p.run = q.run, p.attempt = q.attempt
  PROVE  \E e \in executed : e.passed /\ e[p.framework] = p.digest /\ e[q.framework] = q.digest
<1>1. PICK e \in executed :
        /\ e.run = p.run /\ e.attempt <= p.attempt /\ e.passed /\ e[p.framework] = p.digest
        /\ \A d \in executed : d.run = p.run /\ d.attempt \in e.attempt + 1 .. p.attempt => d = e
  BY DEF GateInv, PublishedIsCertified
<1>2. PICK d \in executed :
        /\ d.run = q.run /\ d.attempt <= q.attempt /\ d.passed /\ d[q.framework] = q.digest
        /\ \A c \in executed : c.run = q.run /\ c.attempt \in d.attempt + 1 .. q.attempt => c = d
  BY DEF GateInv, PublishedIsCertified
<1>3. e.attempt \in Nat /\ d.attempt \in Nat /\ p.attempt \in Nat
  BY DEF GateInv, GateTypeOK, Executions, Images, Attempts
<1>4. e = d
  <2>1. CASE e.attempt = d.attempt
    BY <1>1, <1>2, <2>1 DEF GateInv, OneVerdict
  <2>2. CASE e.attempt < d.attempt
    <3>1. d.attempt \in e.attempt + 1 .. p.attempt
      BY <1>2, <1>3, <2>2
    <3> QED BY <1>1, <1>2, <3>1
  <2>3. CASE d.attempt < e.attempt
    <3>1. e.attempt \in d.attempt + 1 .. q.attempt
      BY <1>1, <1>3, <2>3
    <3> QED BY <1>1, <1>2, <3>1
  <2> QED BY <1>3, <2>1, <2>2, <2>3
<1> QED BY <1>1, <1>2, <1>4

(* A common invocation of both images is one execution of their contract. *)
LEMMA LockFollows == IInv => LockIsCertified
<1> SUFFICES ASSUME IInv, consumer.pc \in {"locked", "recorded"}, consumer.level = "full-policy"
             PROVE  \E e \in executed : e.passed /\ \A f \in Frameworks : e[f] = consumer.digest[f]
  BY DEF LockIsCertified
<1>1. PICK i : /\ i \in Invocations("runtime", consumer.digest["runtime"])
               /\ i \in Invocations("dev", consumer.digest["dev"])
  BY DEF IInv, ConsumerInv, LockIsOneExecution
<1>2. PICK p \in provenance : /\ p.framework = "runtime" /\ p.digest = consumer.digest["runtime"]
                              /\ i = [run |-> p.run, attempt |-> p.attempt]
  BY <1>1 DEF Invocations
<1>3. PICK q \in provenance : /\ q.framework = "dev" /\ q.digest = consumer.digest["dev"]
                              /\ i = [run |-> q.run, attempt |-> q.attempt]
  BY <1>1 DEF Invocations
<1>4. p.run = q.run /\ p.attempt = q.attempt
  BY <1>2, <1>3
<1>5. p \in pushed /\ q \in pushed
  BY DEF IInv, GateInv, GateTypeOK
<1>6. PICK e \in executed : e.passed /\ e[p.framework] = p.digest /\ e[q.framework] = q.digest
  BY <1>4, <1>5, OneExecution DEF IInv
<1> QED BY <1>2, <1>3, <1>6 DEF Frameworks

(* PublishedIsCertified: nothing is published on an older success of its run  *)
(* when a newer execution failed or had other images, through any number of   *)
(* attempts, rebuilds, lost uploads and carried-over jobs.                    *)
THEOREM Published == Spec => []PublishedIsCertified
<1>1. IInv => PublishedIsCertified
  BY DEF IInv, GateInv
<1> QED BY <1>1, IInvStarts, IInvStep, PTL DEF Spec

(* LockIsCertified: the two images of a full-policy lock passed their contract*)
(* together, wherever the tags were when each of them was resolved.           *)
THEOREM Locked == Spec => []LockIsCertified
BY LockFollows, IInvStarts, IInvStep, PTL DEF Spec

(* BuildUsesLock: what is recorded as consumed has its final image on the     *)
(* runtime of the lock and pulls nothing the lock does not name, for files of *)
(* any number of stages and any names.                                        *)
THEOREM BuiltFromLock == Spec => []BuildUsesLock
<1>1. IInv => BuildUsesLock
  BY CheckedBuildsUseLock DEF IInv, ConsumerInv, BuildIsChecked, BuildUsesLock
<1> QED BY <1>1, IInvStarts, IInvStep, PTL DEF Spec

(* From the record of a consumption back to the contract: what was built      *)
(* under the full policy pulled nothing but images that one execution of the  *)
(* contract was passed with, and ends on the runtime of them.                 *)
ConsumptionIsCertified ==
  consumer.pc = "recorded" /\ consumer.level = "full-policy" =>
    \E e \in executed :
      /\ e.passed
      /\ e["runtime"] = consumer.digest[consumer.build.final]
      /\ \A a \in consumer.build.pulled : a \in Frameworks /\ e[a] = consumer.digest[a]

(* ConsumptionIsCertified, through publication, lock, check and build.        *)
THEOREM Consumed == Spec => []ConsumptionIsCertified
<1>1. LockIsCertified /\ BuildUsesLock => ConsumptionIsCertified
  <2> SUFFICES ASSUME LockIsCertified, BuildUsesLock,
                      consumer.pc = "recorded", consumer.level = "full-policy"
               PROVE  \E e \in executed :
                        /\ e.passed
                        /\ e["runtime"] = consumer.digest[consumer.build.final]
                        /\ \A a \in consumer.build.pulled :
                             a \in Frameworks /\ e[a] = consumer.digest[a]
    BY DEF ConsumptionIsCertified
  <2>1. consumer.build.final = "runtime" /\ consumer.build.pulled \subseteq Frameworks
    BY DEF BuildUsesLock, Args
  <2>2. PICK e \in executed : e.passed /\ \A f \in Frameworks : e[f] = consumer.digest[f]
    BY DEF LockIsCertified
  <2>3. e["runtime"] = consumer.digest["runtime"]
    BY <2>2 DEF Frameworks
  <2> QED BY <2>1, <2>2, <2>3
<1> QED BY <1>1, Locked, BuiltFromLock, PTL

================================================================================
