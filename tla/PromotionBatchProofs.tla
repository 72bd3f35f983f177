-------------------------- MODULE PromotionBatchProofs --------------------------
(***************************************************************************)
(* The safety of PromotionBatch for every set of frameworks and units.     *)
(* The properties speak of the evidence an attempt leaves behind; the      *)
(* inductive invariant says what each phase of the attempt has already put *)
(* there: nothing is touched before the barrier, what is touched belongs   *)
(* to a unit all of whose members were cleared, and the unit in hand is    *)
(* the only one whose tags and outcome may still change.                   *)
(***************************************************************************)
EXTENDS PromotionBatch, OrderLemmas, TLAPS

-----------------------------------------------------------------------------
(* Selection.                                                              *)

\* A non-empty set of runs has a newest one.
LEMMA NewestIsMember ==
    ASSUME NEW S \in SUBSET Runs, S # {}
    PROVE  Newest(S) \in S
<1>1. S \in SUBSET Nat /\ IsFiniteSet(S)
  <2>1. IsFiniteSet(Runs) /\ Runs \subseteq Nat
    BY FS_Interval, BoundAssumption DEF Runs
  <2>. QED BY <2>1, FS_Subset
<1>2. \E x \in S : \A y \in S : y <= x
  BY <1>1, LargestElement
<1>. QED BY <1>2 DEF Newest

\* What is selected from an inventory is a run of it, or no image at all.
LEMMA CandidateType ==
    ASSUME NEW inventory \in [images : SUBSET Runs, stable : 0..MaxRun], NEW upto, NEW excluded
    PROVE  Candidate(inventory, upto, excluded) \in 0..MaxRun
<1>. DEFINE S == Candidates(inventory, upto, excluded)
<1>1. S \in SUBSET Runs
  BY DEF Candidates
<1>2. CASE S = {}
  BY <1>2, BoundAssumption DEF Candidate, NoImage
<1>3. CASE S # {}
  <2>1. Newest(S) \in Runs
    BY <1>1, <1>3, NewestIsMember
  <2>. QED BY <2>1, <1>3, BoundAssumption DEF Candidate, Runs
<1>. QED BY <1>2, <1>3

\* The members of a unit, and the unit of a framework.
LEMMA UnitsAndMembers ==
    /\ \A f \in Frameworks : UnitOf[f] \in Units /\ f \in Members(UnitOf[f])
    /\ \A u \in Units : /\ Members(u) \subseteq Frameworks /\ Members(u) # {}
                        /\ \A f \in Members(u) : UnitOf[f] = u
    /\ NoUnit \notin Units
BY UnitAssumption DEF Units, Members

-----------------------------------------------------------------------------
(* The inductive invariant.                                                *)

\* What a unit must be before one of its tags may change.
Chosen(u) == OneRun(u) /\ \A g \in Members(u) : evidence[g].bound /\ ~evidence[g].skipped
Cleared(u) == Chosen(u) /\ \A g \in Members(u) : evidence[g].trust /\ evidence[g].scan

Untouched(f) == /\ f \notin wrote /\ ~evidence[f].promoted
                /\ evidence[f].write = "not_run" /\ evidence[f].readback = "not_run"

\* Nothing is touched before the barrier, and then nothing but cleared units.
TouchInv ==
    /\ \A f \in Frameworks : ~Untouched(f) => barrier /\ Cleared(UnitOf[f])
    /\ phase \in {"inventory", "trust", "scan"} => ~barrier
    /\ phase \in {"units", "write", "readback"} => barrier

\* How far the selection and the gates have taken each unit.
GateInv ==
    \A u \in Units :
        /\ status[u] = "AUTHORIZED" => Cleared(u)
        /\ status[u] = "SKIPPED" => \A g \in Members(u) : evidence[g].skipped
        /\ phase = "inventory" =>
               /\ status[u] \in {"PENDING", "FAILED"}
               /\ \A g \in Members(u) : evidence[g] = Blank
        /\ phase = "trust" /\ status[u] = "PENDING" =>
               Chosen(u) /\ \A g \in Members(u) : g \in todo \/ evidence[g].trust
        /\ phase = "scan" /\ status[u] = "PENDING" =>
               Chosen(u) /\ \A g \in Members(u) :
                   evidence[g].trust /\ (g \in todo \/ evidence[g].scan)

\* The units still to be written are authorized; of the one in hand, the members
\* behind the cursor are written and, while it is not failed, confirmed.
HandInv ==
    /\ \A u \in left : status[u] = "AUTHORIZED"
    /\ phase \in {"write", "readback"} => unit \notin left /\ Cleared(unit)
    /\ phase = "write" =>
           /\ status[unit] = "AUTHORIZED"
           /\ \A g \in Members(unit) : g \in todo \/ evidence[g].write = "completed"
    /\ phase = "readback" /\ status[unit] = "AUTHORIZED" =>
           \A g \in Members(unit) :
               /\ evidence[g].write = "completed"
               /\ \/ g \in todo
                  \/ /\ evidence[g].readback = "confirmed"
                     /\ evidence[g].observed = evidence[g].candidate

\* A completed write moved its tag, and a promoted unit is a whole one that this
\* attempt does not come back to.
OutcomeInv ==
    \A f \in Frameworks :
        /\ evidence[f].write = "completed" => f \in wrote
        /\ evidence[f].promoted =>
               /\ status[UnitOf[f]] = "AUTHORIZED" /\ AllPromoted(UnitOf[f])
               /\ UnitOf[f] \notin left /\ UnitOf[f] # unit

BatchInv == JobTypeOK /\ TouchInv /\ GateInv /\ HandInv /\ OutcomeInv

-----------------------------------------------------------------------------
(* Types.                                                                  *)

\* A blank record and the fields the phases write are well typed.
LEMMA EvidenceTypes ==
    ASSUME evidence \in [Frameworks -> Evidence], NEW f \in Frameworks
    PROVE  /\ Blank \in Evidence /\ evidence[f].candidate \in 0..MaxRun
           /\ [evidence EXCEPT ![f].trust = TRUE] \in [Frameworks -> Evidence]
           /\ [evidence EXCEPT ![f].scan = TRUE] \in [Frameworks -> Evidence]
           /\ \A w \in {"started", "completed", "failed"} :
                  [evidence EXCEPT ![f].write = w] \in [Frameworks -> Evidence]
           /\ [evidence EXCEPT ![f].readback = "failed"] \in [Frameworks -> Evidence]
           /\ \A r \in {"confirmed", "mismatch"}, n \in 0..MaxRun :
                  [evidence EXCEPT ![f].readback = r, ![f].observed = n] \in [Frameworks -> Evidence]
           /\ \A b \in BOOLEAN : [evidence[f] EXCEPT !.promoted = b] \in Evidence
<1>1. Blank \in Evidence /\ evidence[f].candidate \in 0..MaxRun
  BY BoundAssumption DEF Blank, Evidence, NoImage
<1>2. evidence[f] \in Evidence
  OBVIOUS
<1>3. ASSUME NEW e \in Evidence PROVE [evidence EXCEPT ![f] = e] \in [Frameworks -> Evidence]
  OBVIOUS
<1>4. /\ [evidence[f] EXCEPT !.trust = TRUE] \in Evidence
      /\ [evidence[f] EXCEPT !.scan = TRUE] \in Evidence
      /\ [evidence[f] EXCEPT !.readback = "failed"] \in Evidence
  BY <1>2 DEF Evidence
<1>5. \A w \in {"started", "completed", "failed"} : [evidence[f] EXCEPT !.write = w] \in Evidence
  BY <1>2 DEF Evidence
<1>6. \A r \in {"confirmed", "mismatch"}, n \in 0..MaxRun :
          [evidence[f] EXCEPT !.readback = r, !.observed = n] \in Evidence
  BY <1>2 DEF Evidence
<1>7. \A b \in BOOLEAN : [evidence[f] EXCEPT !.promoted = b] \in Evidence
  BY <1>2 DEF Evidence
<1>8. /\ [evidence EXCEPT ![f].trust = TRUE] \in [Frameworks -> Evidence]
      /\ [evidence EXCEPT ![f].scan = TRUE] \in [Frameworks -> Evidence]
      /\ [evidence EXCEPT ![f].readback = "failed"] \in [Frameworks -> Evidence]
  BY <1>3, <1>4
<1>9. \A w \in {"started", "completed", "failed"} :
          [evidence EXCEPT ![f].write = w] \in [Frameworks -> Evidence]
  BY <1>3, <1>5
<1>10. \A r \in {"confirmed", "mismatch"}, n \in 0..MaxRun :
           [evidence EXCEPT ![f].readback = r, ![f].observed = n] \in [Frameworks -> Evidence]
  <2>1. \A r, n : [evidence EXCEPT ![f].readback = r, ![f].observed = n]
                   = [evidence EXCEPT ![f] = [evidence[f] EXCEPT !.readback = r, !.observed = n]]
    OBVIOUS
  <2>. QED BY <1>3, <1>6, <2>1
<1>. QED BY <1>1, <1>7, <1>8, <1>9, <1>10

\* The selection leaves the registry and the counters alone.
LEMMA SelectRest ==
    Select => /\ phase' = "trust" /\ todo' = Frameworks /\ cutoff' = 0
              /\ seen' = [f \in Frameworks |-> Unread]
              /\ UNCHANGED <<registry, stable, left, unit, barrier, faults, wrote>>
BY Zenon DEF Select

\* A selection that keeps to the candidates of the inventories is well typed.
LEMMA SelectTypes ==
    ASSUME JobTypeOK, Select
    PROVE  evidence' \in [Frameworks -> Evidence] /\ status' \in [Units -> {"PENDING", "FAILED", "SKIPPED"}]
<1>. DEFINE candidate == [f \in Frameworks |-> IF status[UnitOf[f]] = "FAILED" THEN NoImage
                                              ELSE Candidate(seen[f], cutoff, quarantined)]
<1>1. candidate \in [Frameworks -> 0..MaxRun]
  <2>1. \A f \in Frameworks : Candidate(seen[f], cutoff, quarantined) \in 0..MaxRun
    BY CandidateType DEF JobTypeOK
  <2>. QED BY <2>1, BoundAssumption DEF NoImage
<1>2. /\ evidence' = [f \in Frameworks |-> IF status[UnitOf[f]] = "FAILED" THEN Blank ELSE
             [Blank EXCEPT !.candidate = candidate[f], !.skipped = candidate[f] = NoImage,
                           !.bound = Bound(UnitOf[f], candidate)]]
      /\ status' = [u \in Units |->
             IF status[u] = "FAILED" THEN "FAILED"
             ELSE IF \A f \in Members(u) : candidate[f] = NoImage THEN "SKIPPED"
             ELSE IF Bound(u, candidate) THEN "PENDING" ELSE "FAILED"]
  BY DEF Select
<1>. HIDE DEF candidate
<1>3. Blank \in Evidence
  BY BoundAssumption DEF Blank, Evidence, NoImage
<1>4. ASSUME NEW f \in Frameworks PROVE evidence'[f] \in Evidence
  <2>1. Bound(UnitOf[f], candidate) \in BOOLEAN
    BY DEF Bound
  <2>2. candidate[f] \in 0..MaxRun /\ (candidate[f] = NoImage) \in BOOLEAN
    BY <1>1
  <2>. QED BY <1>2, <1>3, <2>1, <2>2 DEF Evidence, Blank
<1>. QED BY <1>2, <1>4

\* A read-back writes the outcome of one member, and may fail its unit.
LEMMA ReadBackShape ==
    ASSUME NEW f, ReadBack(f)
    PROVE  /\ phase = "readback" /\ f \in todo /\ todo' = todo \ {f}
           /\ \/ evidence' = [evidence EXCEPT ![f].readback = "failed"]
              \/ evidence' = [evidence EXCEPT ![f].readback = "confirmed", ![f].observed = stable[f]]
              \/ evidence' = [evidence EXCEPT ![f].readback = "mismatch", ![f].observed = stable[f]]
           /\ status' = status \/ status' = [status EXCEPT ![unit] = "FAILED"]
           /\ UNCHANGED <<registry, stable, phase, left, unit, seen, cutoff, barrier, wrote>>
BY Zenon DEF ReadBack, Visit, First, Fail

\* A read-back leaves the other members' outcomes alone.
LEMMA ReadBackOfOne ==
    ASSUME evidence \in [Frameworks -> Evidence], NEW f \in Frameworks, ReadBack(f)
    PROVE  \A g \in Frameworks \ {f} : evidence'[g] = evidence[g]
<1>1. ASSUME NEW r, evidence' = [evidence EXCEPT ![f].readback = r, ![f].observed = stable[f]]
      PROVE  \A g \in Frameworks \ {f} : evidence'[g] = evidence[g]
  BY <1>1
<1>2. CASE evidence' = [evidence EXCEPT ![f].readback = "failed"]
  BY <1>2
<1>. QED BY <1>1, <1>2, ReadBackShape

\* Every step keeps the types.
LEMMA TypeStep == JobTypeOK /\ [Next]_vars => JobTypeOK'
<1>. SUFFICES ASSUME JobTypeOK, [Next]_vars PROVE JobTypeOK'
  OBVIOUS
<1>. USE BoundAssumption DEF JobTypeOK, Spend, Free, Fail, First, Visit, registry, Unread, NoImage
<1>1. CASE Start
  <2>1. evidence' \in [Frameworks -> Evidence]
    BY <1>1 DEF Start, Blank, Evidence
  <2>2. seen' \in [Frameworks -> [images : SUBSET Runs, stable : 0..MaxRun]]
    BY <1>1 DEF Start
  <2>. QED BY <1>1, <2>1, <2>2 DEF Start
<1>2. CASE Select
  <2>1. /\ evidence' \in [Frameworks -> Evidence]
        /\ status' \in [Units -> {"PENDING", "AUTHORIZED", "FAILED", "SKIPPED"}]
    BY <1>2, SelectTypes
  <2>. QED BY <1>2, <2>1, SelectRest
<1>3. CASE TrustEnds
  BY <1>3 DEF TrustEnds
<1>4. CASE Barrier
  BY <1>4 DEF Barrier, Ready
<1>5. CASE UnitEnds
  <2>1. \A f \in Frameworks : Promoted(f) \in BOOLEAN
    BY DEF Promoted
  <2>2. evidence' \in [Frameworks -> Evidence]
    <3>1. evidence' = [f \in Frameworks |->
                          IF f \in Members(unit) THEN [evidence[f] EXCEPT !.promoted = Promoted(f)]
                          ELSE evidence[f]]
      BY <1>5 DEF UnitEnds
    <3>2. \A f \in Frameworks : [evidence[f] EXCEPT !.promoted = Promoted(f)] \in Evidence
      BY <2>1, EvidenceTypes
    <3>. QED BY <3>1, <3>2
  <2>. QED BY <1>5, <2>2 DEF UnitEnds
<1>6. CASE Finish
  BY <1>6 DEF Finish
<1>7. ASSUME NEW f \in Frameworks, Inventory(f) PROVE JobTypeOK'
  <2>1. seen' \in [Frameworks -> [images : SUBSET Runs, stable : 0..MaxRun]]
    BY <1>7 DEF Inventory
  <2>. QED BY <1>7, <2>1, UnitsAndMembers DEF Inventory
<1>8. ASSUME NEW f \in Frameworks, Trust(f) PROVE JobTypeOK'
  <2>1. evidence' \in [Frameworks -> Evidence]
    <3>1. evidence' = evidence \/ evidence' = [evidence EXCEPT ![f].trust = TRUE]
      BY <1>8 DEF Trust, Rejected
    <3>2. [evidence EXCEPT ![f].trust = TRUE] \in [Frameworks -> Evidence]
      BY EvidenceTypes
    <3>. QED BY <3>1, <3>2
  <2>2. status' \in [Units -> {"PENDING", "AUTHORIZED", "FAILED", "SKIPPED"}]
    <3>1. status' = status \/ status' = [status EXCEPT ![UnitOf[f]] = "FAILED"]
      BY <1>8 DEF Trust, Rejected
    <3>. QED BY <3>1
  <2>3. /\ UNCHANGED <<images, soaked, quarantined, stable, phase, left, unit, seen, cutoff, barrier,
                       wrote>>
        /\ phase = "trust" /\ todo' \subseteq todo /\ faults' \in 0..MaxFaults
    BY <1>8 DEF Trust, Rejected
  <2>. QED BY <2>1, <2>2, <2>3
<1>9. ASSUME NEW f \in Frameworks, Scan(f) PROVE JobTypeOK'
  <2>1. evidence' \in [Frameworks -> Evidence]
    <3>1. evidence' = evidence \/ evidence' = [evidence EXCEPT ![f].scan = TRUE]
      BY <1>9 DEF Scan, Rejected
    <3>2. [evidence EXCEPT ![f].scan = TRUE] \in [Frameworks -> Evidence]
      BY EvidenceTypes
    <3>. QED BY <3>1, <3>2
  <2>2. status' \in [Units -> {"PENDING", "AUTHORIZED", "FAILED", "SKIPPED"}]
    <3>1. \/ status' = status
          \/ \E v \in {"AUTHORIZED", "FAILED"} : status' = [status EXCEPT ![UnitOf[f]] = v]
      BY <1>9 DEF Scan, Rejected, Authorized
    <3>. QED BY <3>1
  <2>3. /\ UNCHANGED <<images, soaked, quarantined, stable, phase, left, unit, seen, cutoff, barrier,
                       wrote>>
        /\ phase = "scan" /\ todo' \subseteq todo /\ faults' \in 0..MaxFaults
    BY <1>9 DEF Scan, Rejected
  <2>. QED BY <2>1, <2>2, <2>3
<1>10. ASSUME NEW f \in Frameworks, StartWrite(f) PROVE JobTypeOK'
  <2>1. evidence' \in [Frameworks -> Evidence]
    BY <1>10, EvidenceTypes DEF StartWrite
  <2>. QED BY <1>10, <2>1, UnitsAndMembers DEF StartWrite
<1>11. ASSUME NEW f \in Frameworks, WriteCompletes(f) PROVE JobTypeOK'
  <2>1. evidence' \in [Frameworks -> Evidence]
    BY <1>11, EvidenceTypes DEF WriteCompletes
  <2>2. evidence[f].candidate \in 0..MaxRun
    BY EvidenceTypes
  <2>. QED BY <1>11, <2>1, <2>2, UnitsAndMembers DEF WriteCompletes, Tagged, ToReadBack
<1>12. ASSUME NEW f \in Frameworks, WriteFails(f) PROVE JobTypeOK'
  <2>1. evidence' \in [Frameworks -> Evidence]
    BY <1>12, EvidenceTypes DEF WriteFails
  <2>2. evidence[f].candidate \in 0..MaxRun
    BY EvidenceTypes
  <2>. QED BY <1>12, <2>1, <2>2, UnitsAndMembers DEF WriteFails, Tagged, ToReadBack
<1>13. ASSUME NEW f \in Frameworks, ReadBack(f) PROVE JobTypeOK'
  <2>1. evidence' \in [Frameworks -> Evidence]
    <3>1. /\ [evidence EXCEPT ![f].readback = "failed"] \in [Frameworks -> Evidence]
          /\ [evidence EXCEPT ![f].readback = "confirmed", ![f].observed = stable[f]]
                 \in [Frameworks -> Evidence]
          /\ [evidence EXCEPT ![f].readback = "mismatch", ![f].observed = stable[f]]
                 \in [Frameworks -> Evidence]
      BY EvidenceTypes
    <3>. QED BY <1>13, <3>1, ReadBackShape, Zenon
  <2>2. status' \in [Units -> {"PENDING", "AUTHORIZED", "FAILED", "SKIPPED"}]
    BY <1>13, ReadBackShape
  <2>3. /\ UNCHANGED <<images, soaked, quarantined, stable, phase, left, unit, seen, cutoff, barrier,
                       wrote>>
        /\ todo' \subseteq todo /\ faults' \in 0..MaxFaults
    BY <1>13 DEF ReadBack
  <2>. QED BY <2>1, <2>2, <2>3
<1>14. ASSUME NEW u \in Units, BeginUnit(u) PROVE JobTypeOK'
  BY <1>14, UnitsAndMembers DEF BeginUnit
<1>15. CASE Die
  BY <1>15 DEF Die, Tagged, Evidence
<1>16. CASE Soak
  BY <1>16 DEF Soak, job
<1>17. ASSUME NEW k \in Runs, Quarantine(k) PROVE JobTypeOK'
  BY <1>17 DEF Quarantine, job
<1>18. ASSUME NEW k \in Runs, NEW f \in Frameworks, Push(f, k) PROVE JobTypeOK'
  BY <1>18 DEF Push, job
<1>19. ASSUME NEW k \in Runs, NEW f \in Frameworks, Move(f, k) PROVE JobTypeOK'
  BY <1>19 DEF Move, job, Runs
<1>20. CASE UNCHANGED vars
  BY <1>20 DEF vars
<1>. QED
  BY <1>1, <1>2, <1>3, <1>4, <1>5, <1>6, <1>7, <1>8, <1>9, <1>10, <1>11, <1>12, <1>13, <1>14,
     <1>15, <1>16, <1>17, <1>18, <1>19, <1>20 DEF Next, Step

-----------------------------------------------------------------------------
(* What a step leaves of the evidence.                                     *)

\* After the selection its outcome stands, and a gate that was passed.
SelectionKept ==
    \A g \in Frameworks :
        /\ evidence'[g].candidate = evidence[g].candidate
        /\ evidence'[g].bound = evidence[g].bound
        /\ evidence'[g].skipped = evidence[g].skipped
        /\ evidence[g].trust => evidence'[g].trust
        /\ evidence[g].scan => evidence'[g].scan

\* What the writes and the read-back left there.
WritesKept ==
    \A g \in Frameworks :
        /\ evidence'[g].write = evidence[g].write
        /\ evidence'[g].readback = evidence[g].readback
        /\ evidence'[g].observed = evidence[g].observed
        /\ evidence'[g].promoted = evidence[g].promoted

\* Only the start of a job and its selection disturb the selection.
LEMMA SelectionStays == JobTypeOK /\ [Next]_vars => Start \/ Select \/ SelectionKept
<1>. SUFFICES ASSUME JobTypeOK, [Next]_vars, ~Start, ~Select PROVE SelectionKept
  OBVIOUS
<1>. USE DEF SelectionKept
<1>1. ASSUME evidence' = evidence PROVE SelectionKept
  BY <1>1
<1>2. CASE UnitEnds
  BY <1>2 DEF UnitEnds, JobTypeOK, Evidence
<1>3. ASSUME NEW f \in Frameworks, Trust(f) PROVE SelectionKept
  <2>1. evidence' = evidence \/ evidence' = [evidence EXCEPT ![f].trust = TRUE]
    BY <1>3 DEF Trust, Rejected
  <2>2. evidence \in [Frameworks -> Evidence]
    BY DEF JobTypeOK
  <2>. QED BY <1>1, <2>1, <2>2 DEF Evidence
<1>4. ASSUME NEW f \in Frameworks, Scan(f) PROVE SelectionKept
  <2>1. evidence' = evidence \/ evidence' = [evidence EXCEPT ![f].scan = TRUE]
    BY <1>4 DEF Scan, Rejected
  <2>2. evidence \in [Frameworks -> Evidence]
    BY DEF JobTypeOK
  <2>. QED BY <1>1, <2>1, <2>2 DEF Evidence
<1>5. ASSUME NEW f \in Frameworks, StartWrite(f) \/ WriteCompletes(f) \/ WriteFails(f)
      PROVE  SelectionKept
  <2>1. \E w \in {"started", "completed", "failed"} : evidence' = [evidence EXCEPT ![f].write = w]
    BY <1>5 DEF StartWrite, WriteCompletes, WriteFails
  <2>2. evidence \in [Frameworks -> Evidence]
    BY DEF JobTypeOK
  <2>. QED BY <2>1, <2>2 DEF Evidence
<1>6. ASSUME NEW f \in Frameworks, ReadBack(f) PROVE SelectionKept
  <2>1. \/ evidence' = [evidence EXCEPT ![f].readback = "failed"]
        \/ \E w \in {"confirmed", "mismatch"} :
               evidence' = [evidence EXCEPT ![f].readback = w, ![f].observed = stable[f]]
    BY <1>6 DEF ReadBack
  <2>2. evidence \in [Frameworks -> Evidence]
    BY DEF JobTypeOK
  <2>. QED BY <2>1, <2>2 DEF Evidence
<1>7. ASSUME \/ TrustEnds \/ Barrier \/ Finish \/ Die \/ Soak \/ UNCHANGED vars
             \/ \E f \in Frameworks : Inventory(f)
             \/ \E u \in Units : BeginUnit(u)
             \/ \E k \in Runs : Quarantine(k) \/ \E f \in Frameworks : Push(f, k) \/ Move(f, k)
      PROVE  evidence' = evidence
  BY <1>7 DEF TrustEnds, Barrier, Finish, Die, Soak, vars, Inventory, BeginUnit, Quarantine, Push, Move, job
<1>. QED BY <1>1, <1>2, <1>3, <1>4, <1>5, <1>6, <1>7 DEF Next, Step

\* A cleared unit stays cleared.
LEMMA ClearedStays ==
    ASSUME NEW u \in Units, SelectionKept
    PROVE  (Chosen(u) => Chosen(u)') /\ (Cleared(u) => Cleared(u)')
BY UnitsAndMembers DEF SelectionKept, Chosen, Cleared, OneRun

\* What an unselected attempt looks like.
LEMMA SelectedIsBlank ==
    ASSUME Select, NEW f \in Frameworks
    PROVE  /\ evidence'[f].write = "not_run" /\ evidence'[f].readback = "not_run"
           /\ ~evidence'[f].promoted
BY DEF Select, Blank

-----------------------------------------------------------------------------
(* Nothing is touched before the barrier.                                  *)

\* What was touched stays cleared; a step has to account for what it touches.
LEMMA TouchStays ==
    ASSUME TouchInv, SelectionKept, barrier' = barrier,
           \A f \in Frameworks : ~Untouched(f)' => ~Untouched(f) \/ (barrier /\ Cleared(UnitOf[f]))
    PROVE  \A f \in Frameworks : ~Untouched(f)' => barrier' /\ Cleared(UnitOf[f])'
<1>. TAKE f \in Frameworks
<1>1. Cleared(UnitOf[f]) => Cleared(UnitOf[f])'
  BY ClearedStays, UnitsAndMembers
<1>. QED BY <1>1 DEF TouchInv

\* The step lemma of TouchInv.
LEMMA TouchStep == BatchInv /\ [Next]_vars => TouchInv'
<1>. SUFFICES ASSUME BatchInv, [Next]_vars PROVE TouchInv'
  OBVIOUS
<1>0. JobTypeOK /\ TouchInv /\ HandInv
  BY DEF BatchInv
<1>1. CASE Start
  BY <1>1 DEF Start, TouchInv, Untouched, Blank
<1>2. CASE Select
  <2>1. /\ phase = "inventory" /\ phase' = "trust" /\ wrote' = wrote /\ barrier' = barrier
    BY <1>2, SelectRest DEF Select
  <2>2. ~barrier /\ wrote \cap Frameworks = {}
    BY <1>0, <2>1 DEF TouchInv, Untouched
  <2>3. \A f \in Frameworks : Untouched(f)'
    BY <1>2, <2>1, <2>2, SelectedIsBlank DEF Untouched
  <2>. QED BY <2>1, <2>2, <2>3 DEF TouchInv
<1>3. ASSUME SelectionKept, WritesKept, wrote' = wrote, barrier' = barrier,
             \/ phase' \in {phase, "done"}
             \/ phase = "trust" /\ phase' = "scan"
             \/ phase \in {"units", "write", "readback"} /\ phase' \in {"units", "write", "readback"}
      PROVE  TouchInv'
  <2>1. \A f \in Frameworks : Untouched(f)' = Untouched(f)
    BY <1>3 DEF WritesKept, Untouched
  <2>. QED BY <1>0, <1>3, <2>1, TouchStays DEF TouchInv
<1>4. CASE Barrier
  <2>1. ~barrier /\ evidence' = evidence /\ wrote' = wrote /\ phase' = "units" /\ barrier'
    BY <1>0, <1>4 DEF Barrier, TouchInv
  <2>. QED BY <1>0, <2>1 DEF TouchInv, Untouched
<1>5. ASSUME NEW f \in Frameworks, StartWrite(f) \/ WriteCompletes(f) \/ WriteFails(f) \/ ReadBack(f)
      PROVE  TouchInv'
  <2>1. /\ phase \in {"write", "readback"} /\ phase' \in {"write", "readback"}
        /\ f \in todo /\ barrier' = barrier
    BY <1>5 DEF StartWrite, WriteCompletes, WriteFails, ReadBack, ToReadBack, First, Visit
  <2>2. barrier /\ Cleared(UnitOf[f])
    BY <1>0, <2>1, UnitsAndMembers DEF JobTypeOK, TouchInv, HandInv
  <2>3. \A g \in Frameworks \ {f} : evidence'[g] = evidence[g] /\ (g \in wrote' => g \in wrote)
    BY <1>0, <1>5 DEF StartWrite, WriteCompletes, WriteFails, ReadBack, Tagged, JobTypeOK
  <2>4. \A g \in Frameworks : ~Untouched(g)' => ~Untouched(g) \/ (barrier /\ Cleared(UnitOf[g]))
    BY <2>2, <2>3 DEF Untouched
  <2>5. SelectionKept
    <3>1. ~Start /\ ~Select
      BY <2>1 DEF Start, Select
    <3>. QED BY <1>0, <3>1, SelectionStays
  <2>. QED BY <1>0, <2>1, <2>2, <2>4, <2>5, TouchStays DEF TouchInv
<1>6. CASE UnitEnds
  <2>1. /\ phase = "readback" /\ phase' = "units" /\ barrier' = barrier /\ wrote' = wrote
    BY <1>6 DEF UnitEnds
  <2>2. barrier /\ unit \in Units /\ Cleared(unit)
    BY <1>0, <2>1 DEF JobTypeOK, TouchInv, HandInv
  <2>3. \A g \in Frameworks : UnitOf[g] # unit => evidence'[g] = evidence[g]
    BY <1>6, <2>2, UnitsAndMembers DEF UnitEnds
  <2>4. \A g \in Frameworks : ~Untouched(g)' => ~Untouched(g) \/ (barrier /\ Cleared(UnitOf[g]))
    BY <2>1, <2>2, <2>3 DEF Untouched
  <2>5. SelectionKept
    <3>1. ~Start /\ ~Select
      BY <2>1 DEF Start, Select
    <3>. QED BY <1>0, <3>1, SelectionStays
  <2>. QED BY <1>0, <2>1, <2>2, <2>4, <2>5, TouchStays DEF TouchInv
<1>7. CASE Die
  <2>1. /\ evidence' = evidence /\ barrier' = barrier /\ phase' = "done"
        /\ \A g \in wrote' : g \in wrote \/ evidence[g].write = "started"
    BY <1>7 DEF Die, Tagged
  <2>2. \A g \in Frameworks : ~Untouched(g)' => ~Untouched(g)
    BY <2>1 DEF Untouched
  <2>3. SelectionKept
    BY <2>1 DEF SelectionKept
  <2>. QED BY <1>0, <2>1, <2>2, <2>3, TouchStays DEF TouchInv
<1>8. ASSUME NEW f \in Frameworks, Trust(f) \/ Scan(f) PROVE TouchInv'
  <2>1. SelectionKept
    <3>1. ~Start /\ ~Select
      BY <1>8 DEF Start, Select, Trust, Scan
    <3>. QED BY <1>0, <3>1, SelectionStays
  <2>2. WritesKept
    <3>1. \/ evidence' = evidence
          \/ evidence' = [evidence EXCEPT ![f].trust = TRUE]
          \/ evidence' = [evidence EXCEPT ![f].scan = TRUE]
      BY <1>8 DEF Trust, Scan, Rejected
    <3>2. evidence \in [Frameworks -> Evidence]
      BY <1>0 DEF JobTypeOK
    <3>. QED BY <3>1, <3>2 DEF Evidence, WritesKept
  <2>. QED BY <1>3, <1>8, <2>1, <2>2 DEF Trust, Scan
<1>9. ASSUME \/ TrustEnds \/ Finish \/ Soak \/ UNCHANGED vars
             \/ \E f \in Frameworks : Inventory(f)
             \/ \E u \in Units : BeginUnit(u)
             \/ \E k \in Runs : Quarantine(k) \/ \E f \in Frameworks : Push(f, k) \/ Move(f, k)
      PROVE  TouchInv'
  <2>1. /\ evidence' = evidence /\ wrote' = wrote /\ barrier' = barrier
        /\ \/ phase' \in {phase, "done"}
           \/ phase = "trust" /\ phase' = "scan"
           \/ phase = "units" /\ phase' = "write"
    BY <1>9 DEF TrustEnds, Finish, Soak, vars, Inventory, BeginUnit, Quarantine, Push, Move, job
  <2>2. SelectionKept /\ WritesKept
    BY <2>1 DEF SelectionKept, WritesKept
  <2>. QED BY <1>3, <2>1, <2>2
<1>. QED BY <1>1, <1>2, <1>4, <1>5, <1>6, <1>7, <1>8, <1>9 DEF Next, Step

-----------------------------------------------------------------------------
(* The gates.                                                              *)

\* A unit the selection leaves pending was chosen from one run.
LEMMA SelectedIsChosen ==
    ASSUME JobTypeOK, Select, NEW u \in Units
    PROVE  /\ status'[u] \in {"PENDING", "FAILED", "SKIPPED"}
           /\ status'[u] = "PENDING" => Chosen(u)'
           /\ status'[u] = "SKIPPED" => \A g \in Members(u) : evidence'[g].skipped
<1>. DEFINE candidate == [f \in Frameworks |-> IF status[UnitOf[f]] = "FAILED" THEN NoImage
                                              ELSE Candidate(seen[f], cutoff, quarantined)]
<1>1. /\ evidence' = [f \in Frameworks |-> IF status[UnitOf[f]] = "FAILED" THEN Blank ELSE
             [Blank EXCEPT !.candidate = candidate[f], !.skipped = candidate[f] = NoImage,
                           !.bound = Bound(UnitOf[f], candidate)]]
      /\ status' = [v \in Units |->
             IF status[v] = "FAILED" THEN "FAILED"
             ELSE IF \A f \in Members(v) : candidate[f] = NoImage THEN "SKIPPED"
             ELSE IF Bound(v, candidate) THEN "PENDING" ELSE "FAILED"]
  BY DEF Select
<1>2. candidate \in [Frameworks -> 0..MaxRun]
  <2>1. \A f \in Frameworks : Candidate(seen[f], cutoff, quarantined) \in 0..MaxRun
    BY CandidateType DEF JobTypeOK
  <2>. QED BY <2>1, BoundAssumption DEF NoImage
<1>. HIDE DEF candidate
<1>3. ASSUME NEW g \in Members(u), status[u] # "FAILED"
      PROVE  /\ evidence'[g].candidate = candidate[g]
             /\ evidence'[g].skipped = (candidate[g] = NoImage)
             /\ evidence'[g].bound = Bound(u, candidate)
  <2>1. g \in Frameworks /\ UnitOf[g] = u
    BY UnitsAndMembers
  <2>2. evidence'[g] = [Blank EXCEPT !.candidate = candidate[g], !.skipped = candidate[g] = NoImage,
                                     !.bound = Bound(u, candidate)]
    BY <1>1, <1>3, <2>1
  <2>. QED BY <2>2 DEF Blank
<1>4. ASSUME status'[u] = "SKIPPED" PROVE \A g \in Members(u) : evidence'[g].skipped
  BY <1>1, <1>3, <1>4
<1>5. ASSUME status'[u] = "PENDING" PROVE Chosen(u)'
  <2>1. status[u] # "FAILED" /\ Bound(u, candidate)
    BY <1>1, <1>5
  <2>2. PICK m \in Members(u) : m \in Frameworks
    BY UnitsAndMembers
  <2>3. candidate[m] \in Runs /\ \A g \in Members(u) : evidence'[g].candidate = candidate[m]
    <3>1. candidate[m] \in 0..MaxRun /\ candidate[m] # 0
      BY <1>2, <2>1, <2>2 DEF Bound, NoImage
    <3>2. ASSUME NEW g \in Members(u) PROVE evidence'[g].candidate = candidate[m]
      BY <1>3, <2>1 DEF Bound
    <3>. QED BY <3>1, <3>2, BoundAssumption DEF Runs
  <2>4. OneRun(u)'
    BY <2>3 DEF OneRun
  <2>5. \A g \in Members(u) : evidence'[g].bound /\ ~evidence'[g].skipped
    BY <1>3, <2>1 DEF Bound
  <2>. QED BY <2>4, <2>5 DEF Chosen
<1>. QED BY <1>1, <1>4, <1>5

\* A step after the gates can only fail units.
LEMMA GateStays ==
    ASSUME GateInv, SelectionKept, phase' \notin {"inventory", "trust", "scan"},
           \A u \in Units : status'[u] \in {status[u], "FAILED"}
    PROVE  GateInv'
<1>. SUFFICES ASSUME NEW u \in Units
              PROVE  /\ status'[u] = "AUTHORIZED" => Cleared(u)'
                     /\ status'[u] = "SKIPPED" => \A g \in Members(u) : evidence'[g].skipped
  BY DEF GateInv
<1>1. Cleared(u) => Cleared(u)'
  BY ClearedStays
<1>2. \A g \in Members(u) : evidence'[g].skipped = evidence[g].skipped
  BY UnitsAndMembers DEF SelectionKept
<1>. QED BY <1>1, <1>2 DEF GateInv

\* The step lemma of GateInv.
LEMMA GateStep == BatchInv /\ [Next]_vars => GateInv'
<1>. SUFFICES ASSUME BatchInv, [Next]_vars PROVE GateInv'
  OBVIOUS
<1>0. JobTypeOK /\ GateInv
  BY DEF BatchInv
<1>1. CASE Start
  BY <1>1, UnitsAndMembers DEF Start, GateInv
<1>2. CASE Select
  <2>1. phase' = "trust" /\ todo' = Frameworks
    BY <1>2, SelectRest
  <2>. SUFFICES ASSUME NEW u \in Units
                PROVE  /\ status'[u] # "AUTHORIZED"
                       /\ status'[u] = "SKIPPED" => \A g \in Members(u) : evidence'[g].skipped
                       /\ status'[u] = "PENDING" => Chosen(u)'
    BY <2>1, UnitsAndMembers DEF GateInv
  <2>. QED BY <1>0, <1>2, SelectedIsChosen
<1>3. ASSUME NEW f \in Frameworks, Inventory(f) PROVE GateInv'
  <2>1. /\ phase = "inventory" /\ phase' = "inventory" /\ evidence' = evidence
        /\ \A u \in Units : status'[u] \in {status[u], "FAILED"}
    BY <1>0, <1>3 DEF Inventory, Fail, JobTypeOK
  <2>2. SelectionKept
    BY <2>1 DEF SelectionKept
  <2>. QED BY <1>0, <2>1, <2>2 DEF GateInv
<1>4. ASSUME NEW f \in Frameworks, Trust(f) PROVE GateInv'
  <2>0. phase = "trust" /\ phase' = "trust" /\ f \in todo /\ status[UnitOf[f]] = "PENDING"
    BY <1>4 DEF Trust, First, Pending
  <2>1. SelectionKept
    <3>1. ~Start /\ ~Select
      BY <2>0 DEF Start, Select
    <3>. QED BY <1>0, <3>1, SelectionStays
  <2>2. /\ \A u \in Units : status'[u] \in {status[u], "FAILED"}
        /\ \/ todo' = todo \ {f} /\ evidence'[f].trust
           \/ todo' = todo \ Members(UnitOf[f]) /\ status'[UnitOf[f]] = "FAILED"
    BY <1>0, <1>4, UnitsAndMembers DEF Trust, Rejected, Fail, JobTypeOK, Evidence
  <2>. SUFFICES ASSUME NEW u \in Units
                PROVE  /\ status'[u] = "AUTHORIZED" => Cleared(u)'
                       /\ status'[u] = "SKIPPED" => \A g \in Members(u) : evidence'[g].skipped
                       /\ status'[u] = "PENDING" =>
                              Chosen(u)' /\ \A g \in Members(u) : g \in todo' \/ evidence'[g].trust
    BY <2>0 DEF GateInv
  <2>3. (Chosen(u) => Chosen(u)') /\ (Cleared(u) => Cleared(u)')
    BY <2>1, ClearedStays
  <2>4. ASSUME NEW g \in Members(u), status'[u] = "PENDING" PROVE g \in todo' \/ evidence'[g].trust
    <3>1. status[u] = "PENDING" /\ (g \in todo \/ evidence[g].trust) /\ g \in Frameworks /\ UnitOf[g] = u
      BY <1>0, <2>0, <2>2, <2>4, UnitsAndMembers DEF GateInv
    <3>2. evidence[g].trust => evidence'[g].trust
      BY <2>1, <3>1 DEF SelectionKept
    <3>3. g # f /\ g \in todo => g \in todo'
      BY <2>2, <2>4, <3>1 DEF Members
    <3>4. g = f => evidence'[g].trust
      BY <2>2, <2>4, <3>1
    <3>. QED BY <3>1, <3>2, <3>3, <3>4
  <2>5. \A g \in Members(u) : evidence'[g].skipped = evidence[g].skipped
    BY <2>1, UnitsAndMembers DEF SelectionKept
  <2>. QED BY <1>0, <2>0, <2>2, <2>3, <2>4, <2>5 DEF GateInv
<1>5. CASE TrustEnds
  <2>1. /\ phase = "trust" /\ phase' = "scan" /\ todo' = Frameworks
        /\ evidence' = evidence /\ status' = status
        /\ \A g \in Frameworks : status[UnitOf[g]] = "PENDING" => g \notin todo
    BY <1>5 DEF TrustEnds, Pending
  <2>2. SelectionKept
    BY <2>1 DEF SelectionKept
  <2>. SUFFICES ASSUME NEW u \in Units
                PROVE  /\ status'[u] = "AUTHORIZED" => Cleared(u)'
                       /\ status'[u] = "SKIPPED" => \A g \in Members(u) : evidence'[g].skipped
                       /\ status'[u] = "PENDING" =>
                              Chosen(u)' /\ \A g \in Members(u) : evidence'[g].trust /\ g \in todo'
    BY <2>1 DEF GateInv
  <2>3. (Chosen(u) => Chosen(u)') /\ (Cleared(u) => Cleared(u)')
    BY <2>2, ClearedStays
  <2>. QED BY <1>0, <2>1, <2>3, UnitsAndMembers DEF GateInv
<1>6. ASSUME NEW f \in Frameworks, Scan(f) PROVE GateInv'
  <2>0. phase = "scan" /\ phase' = "scan" /\ f \in todo /\ status[UnitOf[f]] = "PENDING"
    BY <1>6 DEF Scan, First, Pending
  <2>1. SelectionKept
    <3>1. ~Start /\ ~Select
      BY <2>0 DEF Start, Select
    <3>. QED BY <1>0, <3>1, SelectionStays
  <2>2. \/ /\ todo' = todo \ {f} /\ evidence'[f].scan
           /\ \A u \in Units : \/ status'[u] = status[u]
                               \/ u = UnitOf[f] /\ Members(u) \cap todo = {f}
        \/ /\ todo' = todo \ Members(UnitOf[f]) /\ status'[UnitOf[f]] = "FAILED"
           /\ \A u \in Units : u # UnitOf[f] => status'[u] = status[u]
    BY <1>0, <1>6, UnitsAndMembers DEF Scan, Rejected, Fail, Authorized, JobTypeOK, Evidence
  <2>. SUFFICES ASSUME NEW u \in Units
                PROVE  /\ status'[u] = "AUTHORIZED" => Cleared(u)'
                       /\ status'[u] = "SKIPPED" => \A g \in Members(u) : evidence'[g].skipped
                       /\ status'[u] = "PENDING" =>
                              Chosen(u)' /\ \A g \in Members(u) :
                                  evidence'[g].trust /\ (g \in todo' \/ evidence'[g].scan)
    BY <2>0 DEF GateInv
  <2>3. (Chosen(u) => Chosen(u)') /\ (Cleared(u) => Cleared(u)')
    BY <2>1, ClearedStays
  <2>4. ASSUME status[u] = "PENDING", status'[u] # "FAILED"
        PROVE  /\ Chosen(u)'
               /\ \A g \in Members(u) : evidence'[g].trust /\ (g \in todo' \/ evidence'[g].scan)
    <3>1. Chosen(u) /\ \A g \in Members(u) : evidence[g].trust /\ (g \in todo \/ evidence[g].scan)
      BY <1>0, <2>0, <2>4 DEF GateInv
    <3>2. ASSUME NEW g \in Members(u) PROVE evidence'[g].trust /\ (g \in todo' \/ evidence'[g].scan)
      <4>1. /\ g \in Frameworks /\ UnitOf[g] = u
            /\ (evidence[g].trust => evidence'[g].trust) /\ (evidence[g].scan => evidence'[g].scan)
        BY <2>1, UnitsAndMembers DEF SelectionKept
      <4>2. g # f /\ g \in todo => g \in todo'
        BY <2>2, <2>4, <4>1 DEF Members
      <4>3. g = f => evidence'[g].scan
        BY <2>2, <2>4, <4>1
      <4>. QED BY <3>1, <4>1, <4>2, <4>3
    <3>. QED BY <2>3, <3>1, <3>2
  <2>5. ASSUME status'[u] # status[u], status'[u] # "FAILED" PROVE Cleared(u)'
    <3>1. u = UnitOf[f] /\ Members(u) \cap todo = {f} /\ todo' = todo \ {f} /\ status[u] = "PENDING"
      BY <2>0, <2>2, <2>5
    <3>2. \A g \in Members(u) : g \notin todo'
      BY <3>1
    <3>. QED BY <2>4, <2>5, <3>1, <3>2 DEF Cleared
  <2>6. \A g \in Members(u) : evidence'[g].skipped = evidence[g].skipped
    BY <2>1, UnitsAndMembers DEF SelectionKept
  <2>7. CASE status'[u] = status[u]
    BY <1>0, <2>3, <2>4, <2>6, <2>7 DEF GateInv
  <2>8. CASE status'[u] # status[u]
    <3>1. status'[u] \in {"AUTHORIZED", "FAILED"}
      BY <1>0, <1>6, <2>8, UnitsAndMembers DEF Scan, Rejected, Fail, Authorized, JobTypeOK
    <3>. QED BY <2>5, <2>8, <3>1
  <2>. QED BY <2>7, <2>8
<1>7. ASSUME NEW f \in Frameworks, StartWrite(f) \/ WriteCompletes(f) \/ WriteFails(f) \/ ReadBack(f)
      PROVE  GateInv'
  <2>1. /\ phase \in {"write", "readback"} /\ phase' \in {"write", "readback"}
        /\ \A u \in Units : status'[u] \in {status[u], "FAILED"}
    BY <1>0, <1>7 DEF StartWrite, WriteCompletes, WriteFails, ReadBack, ToReadBack, Fail, JobTypeOK
  <2>2. SelectionKept
    <3>1. ~Start /\ ~Select
      BY <2>1 DEF Start, Select
    <3>. QED BY <1>0, <3>1, SelectionStays
  <2>. QED BY <1>0, <2>1, <2>2, GateStays
<1>8. ASSUME Barrier \/ UnitEnds \/ Finish \/ Die \/ \E u \in Units : BeginUnit(u) PROVE GateInv'
  <2>1. /\ phase' \in {"units", "done", "write"} /\ status' = status
    BY <1>8 DEF Barrier, UnitEnds, Finish, Die, BeginUnit
  <2>2. SelectionKept
    <3>1. ~Start /\ ~Select
      BY <1>8, <2>1, SelectRest DEF Start
    <3>. QED BY <1>0, <3>1, SelectionStays
  <2>. QED BY <1>0, <2>1, <2>2, GateStays
<1>9. ASSUME \/ Soak \/ UNCHANGED vars
             \/ \E k \in Runs : Quarantine(k) \/ \E f \in Frameworks : Push(f, k) \/ Move(f, k)
      PROVE  GateInv'
  <2>1. UNCHANGED <<phase, todo, status, evidence>>
    BY <1>9 DEF Soak, vars, Quarantine, Push, Move, job
  <2>. QED BY <1>0, <2>1 DEF GateInv, Cleared, Chosen, OneRun
<1>. QED BY <1>1, <1>2, <1>3, <1>4, <1>5, <1>6, <1>7, <1>8, <1>9 DEF Next, Step

-----------------------------------------------------------------------------
(* The unit in hand.                                                       *)

\* The step lemma of HandInv.
LEMMA HandStep == BatchInv /\ [Next]_vars => HandInv'
<1>. SUFFICES ASSUME BatchInv, [Next]_vars PROVE HandInv'
  OBVIOUS
<1>0. JobTypeOK /\ GateInv /\ HandInv
  BY DEF BatchInv
<1>1. ASSUME left' = {}, phase' \notin {"write", "readback"} PROVE HandInv'
  BY <1>1 DEF HandInv
<1>2. CASE Start \/ Die
  BY <1>1, <1>2 DEF Start, Die
<1>3. CASE Barrier
  BY <1>3 DEF Barrier, Ready, HandInv
<1>4. ASSUME left' \subseteq left, \A u \in left : status'[u] = status[u] \/ status[u] # "AUTHORIZED",
             phase' \notin {"write", "readback"}
      PROVE  HandInv'
  BY <1>0, <1>4 DEF HandInv
<1>5. CASE Finish
  BY <1>4, <1>5 DEF Finish
<1>6. CASE UnitEnds
  BY <1>4, <1>6 DEF UnitEnds
<1>7. CASE TrustEnds
  BY <1>4, <1>7 DEF TrustEnds
<1>8. CASE Select
  <2>1. left' = left /\ phase = "inventory" /\ phase' = "trust"
    BY <1>8, SelectRest DEF Select
  <2>2. \A u \in left : status[u] # "AUTHORIZED"
    BY <1>0, <2>1 DEF GateInv, JobTypeOK
  <2>. QED BY <1>4, <2>1, <2>2
<1>9. ASSUME NEW f \in Frameworks, Inventory(f) PROVE HandInv'
  <2>1. left' = left /\ phase = "inventory" /\ phase' = "inventory"
    BY <1>9 DEF Inventory
  <2>2. \A u \in left : status[u] # "AUTHORIZED"
    BY <1>0, <2>1 DEF GateInv, JobTypeOK
  <2>. QED BY <1>4, <2>1, <2>2
<1>10. ASSUME NEW f \in Frameworks, Trust(f) \/ Scan(f) PROVE HandInv'
  <2>1. /\ left' = left /\ phase' \in {"trust", "scan"} /\ status[UnitOf[f]] = "PENDING"
        /\ \A u \in Units : u # UnitOf[f] => status'[u] = status[u]
    BY <1>0, <1>10, UnitsAndMembers
       DEF Trust, Scan, Rejected, Fail, Authorized, First, Pending, JobTypeOK
  <2>. QED BY <1>0, <1>4, <2>1 DEF JobTypeOK
<1>11. ASSUME NEW u \in Units, BeginUnit(u) PROVE HandInv'
  <2>1. /\ u \in left /\ unit' = u /\ left' = left \ {u} /\ phase' = "write" /\ todo' = Members(u)
        /\ status' = status /\ evidence' = evidence
    BY <1>11 DEF BeginUnit
  <2>2. status[u] = "AUTHORIZED" /\ Cleared(u)
    BY <1>0, <2>1 DEF HandInv, GateInv
  <2>3. SelectionKept
    BY <2>1 DEF SelectionKept
  <2>4. Cleared(u)'
    BY <2>2, <2>3, ClearedStays
  <2>5. Cleared(unit)'
    BY <2>1, <2>4 DEF Cleared, Chosen, OneRun
  <2>. QED BY <1>0, <2>1, <2>2, <2>5 DEF HandInv
<1>12. ASSUME NEW f \in Frameworks, StartWrite(f) \/ WriteCompletes(f) \/ WriteFails(f) \/ ReadBack(f)
       PROVE  HandInv'
  <2>1. /\ phase \in {"write", "readback"} /\ phase' \in {"write", "readback"}
        /\ left' = left /\ unit' = unit /\ unit \in Units
        /\ f \in todo /\ f \in Members(unit) /\ todo' \subseteq Members(unit)
    BY <1>0, <1>12 DEF StartWrite, WriteCompletes, WriteFails, ReadBack, ToReadBack, First, Visit, JobTypeOK
  <2>2. SelectionKept
    <3>1. ~Start /\ ~Select
      BY <2>1 DEF Start, Select
    <3>. QED BY <1>0, <3>1, SelectionStays
  <2>3. unit' \notin left' /\ Cleared(unit)'
    <3>1. Cleared(unit) /\ unit \notin left
      BY <1>0, <2>1 DEF HandInv
    <3>2. \A u \in Units : Cleared(u) => Cleared(u)'
      BY <2>2, ClearedStays
    <3>3. unit' = unit
      BY <2>1
    <3>. QED BY <2>1, <3>1, <3>2, <3>3 DEF Cleared, Chosen, OneRun
  <2>4. \A u \in left' : status'[u] = "AUTHORIZED"
    <3>1. \A u \in Units : u # unit => status'[u] = status[u]
      BY <1>0, <1>12 DEF StartWrite, WriteCompletes, WriteFails, ReadBack, Fail, JobTypeOK
    <3>. QED BY <1>0, <2>1, <3>1 DEF HandInv, JobTypeOK
  <2>5. \A g \in Frameworks \ {f} : evidence'[g] = evidence[g]
    BY <1>0, <1>12 DEF StartWrite, WriteCompletes, WriteFails, ReadBack, JobTypeOK
  <2>6. CASE StartWrite(f)
    <3>1. phase = "write" /\ phase' = "write" /\ todo' = todo /\ status' = status
      BY <2>6 DEF StartWrite
    <3>. QED BY <1>0, <2>1, <2>3, <2>4, <2>5, <3>1, UnitsAndMembers DEF HandInv
  <2>7. CASE WriteCompletes(f)
    <3>1. /\ phase = "write" /\ status' = status /\ evidence'[f].write = "completed"
          /\ \/ todo = {f} /\ phase' = "readback" /\ todo' = Members(unit)
             \/ phase' = "write" /\ todo' = todo \ {f}
      BY <1>0, <2>7 DEF WriteCompletes, ToReadBack, JobTypeOK, Evidence
    <3>2. \A g \in Members(unit) : g \in todo \ {f} \/ evidence'[g].write = "completed"
      BY <1>0, <2>1, <2>5, <3>1, UnitsAndMembers DEF HandInv
    <3>. QED BY <1>0, <2>1, <2>3, <2>4, <3>1, <3>2 DEF HandInv
  <2>8. CASE WriteFails(f)
    <3>1. phase' = "readback" /\ status'[unit] = "FAILED"
      BY <1>0, <2>1, <2>8 DEF WriteFails, ToReadBack, Fail, JobTypeOK
    <3>. QED BY <2>1, <2>3, <2>4, <3>1 DEF HandInv
  <2>9. CASE ReadBack(f)
    <3>1. /\ phase = "readback" /\ phase' = "readback" /\ todo' = todo \ {f}
          /\ evidence'[f].write = evidence[f].write
          /\ \/ status'[unit] = "FAILED"
             \/ /\ status' = status /\ evidence'[f].readback = "confirmed"
                /\ evidence'[f].observed = evidence'[f].candidate
      BY <1>0, <2>1, <2>9 DEF ReadBack, Visit, Fail, JobTypeOK, Evidence
    <3>. QED BY <1>0, <2>1, <2>3, <2>4, <2>5, <3>1, UnitsAndMembers DEF HandInv
  <2>. QED BY <1>12, <2>6, <2>7, <2>8, <2>9
<1>13. ASSUME \/ Soak \/ UNCHANGED vars
              \/ \E k \in Runs : Quarantine(k) \/ \E f \in Frameworks : Push(f, k) \/ Move(f, k)
       PROVE  HandInv'
  <2>1. UNCHANGED job
    BY <1>13 DEF Soak, vars, Quarantine, Push, Move, job
  <2>. QED BY <1>0, <2>1 DEF HandInv, Cleared, Chosen, OneRun, job
<1>. QED BY <1>2, <1>3, <1>5, <1>6, <1>7, <1>8, <1>9, <1>10, <1>11, <1>12, <1>13 DEF Next, Step

-----------------------------------------------------------------------------
(* The outcome.                                                            *)

\* Nothing of a promoted unit changes as long as its members' records do not.
LEMMA OutcomeStays ==
    ASSUME OutcomeInv, SelectionKept, WritesKept, wrote \subseteq wrote',
           \A f \in Frameworks : evidence[f].promoted =>
               /\ status'[UnitOf[f]] = "AUTHORIZED"
               /\ UnitOf[f] \notin left' /\ UnitOf[f] # unit'
    PROVE  OutcomeInv'
<1>. SUFFICES ASSUME NEW f \in Frameworks
              PROVE  /\ evidence'[f].write = "completed" => f \in wrote'
                     /\ evidence'[f].promoted =>
                            /\ status'[UnitOf[f]] = "AUTHORIZED" /\ AllPromoted(UnitOf[f])'
                            /\ UnitOf[f] \notin left' /\ UnitOf[f] # unit'
  BY DEF OutcomeInv
<1>1. AllPromoted(UnitOf[f]) => AllPromoted(UnitOf[f])'
  BY UnitsAndMembers DEF AllPromoted, Complete, SelectionKept, WritesKept
<1>. QED BY <1>1 DEF OutcomeInv, WritesKept

\* Before the barrier nothing is promoted and no write has completed.
LEMMA NothingBefore ==
    ASSUME TouchInv, phase \in {"inventory", "trust", "scan"}, NEW f \in Frameworks
    PROVE  ~evidence[f].promoted /\ evidence[f].write = "not_run"
BY DEF TouchInv, Untouched

\* The step lemma of OutcomeInv.
LEMMA OutcomeStep == BatchInv /\ [Next]_vars => OutcomeInv'
<1>. SUFFICES ASSUME BatchInv, [Next]_vars PROVE OutcomeInv'
  OBVIOUS
<1>0. JobTypeOK /\ TouchInv /\ GateInv /\ HandInv /\ OutcomeInv
  BY DEF BatchInv
<1>1. CASE Start
  BY <1>1 DEF Start, OutcomeInv, Blank
<1>2. CASE Select
  <2>1. \A f \in Frameworks : ~evidence'[f].promoted /\ evidence'[f].write = "not_run"
    BY <1>2, SelectedIsBlank
  <2>. QED BY <2>1 DEF OutcomeInv
<1>3. ASSUME NEW f \in Frameworks, Trust(f) \/ Scan(f) PROVE OutcomeInv'
  <2>1. /\ phase \in {"trust", "scan"} /\ wrote' = wrote
        /\ \/ evidence' = evidence
           \/ evidence' = [evidence EXCEPT ![f].trust = TRUE]
           \/ evidence' = [evidence EXCEPT ![f].scan = TRUE]
    BY <1>3 DEF Trust, Scan, Rejected
  <2>2. SelectionKept
    <3>1. ~Start /\ ~Select
      BY <2>1 DEF Start, Select
    <3>. QED BY <1>0, <3>1, SelectionStays
  <2>3. WritesKept
    <3>1. evidence \in [Frameworks -> Evidence]
      BY <1>0 DEF JobTypeOK
    <3>. QED BY <2>1, <3>1 DEF Evidence, WritesKept
  <2>4. \A g \in Frameworks : ~evidence[g].promoted
    BY <1>0, <2>1, NothingBefore
  <2>. QED BY <1>0, <2>1, <2>2, <2>3, <2>4, OutcomeStays
<1>4. ASSUME \/ TrustEnds \/ Barrier \/ Finish \/ Die
             \/ \E f \in Frameworks : Inventory(f)
             \/ \E u \in Units : BeginUnit(u)
      PROVE  OutcomeInv'
  <2>1. /\ evidence' = evidence /\ wrote \subseteq wrote'
        /\ \/ phase \in {"inventory", "trust", "scan"}
           \/ /\ status' = status /\ left' \subseteq left
              /\ unit' \in left \cup {unit, NoUnit}
    BY <1>4 DEF TrustEnds, Barrier, Finish, Die, Inventory, BeginUnit, Tagged
  <2>2. SelectionKept /\ WritesKept
    BY <2>1 DEF SelectionKept, WritesKept
  <2>3. ASSUME NEW f \in Frameworks, evidence[f].promoted
        PROVE  /\ status'[UnitOf[f]] = "AUTHORIZED"
               /\ UnitOf[f] \notin left' /\ UnitOf[f] # unit'
    <3>1. phase \notin {"inventory", "trust", "scan"}
      BY <1>0, <2>3, NothingBefore
    <3>2. /\ status[UnitOf[f]] = "AUTHORIZED" /\ UnitOf[f] \notin left /\ UnitOf[f] # unit
          /\ UnitOf[f] # NoUnit
      BY <1>0, <2>3, UnitsAndMembers DEF OutcomeInv
    <3>. QED BY <2>1, <3>1, <3>2
  <2>. QED BY <1>0, <2>1, <2>2, <2>3, OutcomeStays
<1>5. ASSUME NEW f \in Frameworks, StartWrite(f) \/ WriteCompletes(f) \/ WriteFails(f) \/ ReadBack(f)
      PROVE  OutcomeInv'
  <2>1. /\ phase \in {"write", "readback"} /\ left' = left /\ unit' = unit /\ unit \in Units
        /\ f \in Members(unit) /\ UnitOf[f] = unit /\ wrote \subseteq wrote'
    BY <1>0, <1>5, UnitsAndMembers
       DEF StartWrite, WriteCompletes, WriteFails, ReadBack, Tagged, First, Visit, JobTypeOK
  <2>2. /\ \A g \in Frameworks \ {f} : evidence'[g] = evidence[g]
        /\ \A u \in Units : u # unit => status'[u] = status[u]
    BY <1>0, <1>5 DEF StartWrite, WriteCompletes, WriteFails, ReadBack, Fail, JobTypeOK
  <2>3. /\ evidence'[f].promoted = evidence[f].promoted
        /\ evidence'[f].write = "completed" => evidence[f].write = "completed" \/ f \in wrote'
    BY <1>0, <1>5 DEF StartWrite, WriteCompletes, WriteFails, ReadBack, Tagged, JobTypeOK, Evidence
  <2>. SUFFICES ASSUME NEW g \in Frameworks
                PROVE  /\ evidence'[g].write = "completed" => g \in wrote'
                       /\ evidence'[g].promoted =>
                              /\ status'[UnitOf[g]] = "AUTHORIZED" /\ AllPromoted(UnitOf[g])'
                              /\ UnitOf[g] \notin left' /\ UnitOf[g] # unit'
    BY DEF OutcomeInv
  <2>4. evidence'[g].write = "completed" => g \in wrote'
    BY <1>0, <2>1, <2>2, <2>3 DEF OutcomeInv
  <2>5. ASSUME evidence'[g].promoted
        PROVE  /\ status'[UnitOf[g]] = "AUTHORIZED" /\ AllPromoted(UnitOf[g])'
               /\ UnitOf[g] \notin left' /\ UnitOf[g] # unit'
    <3>1. /\ status[UnitOf[g]] = "AUTHORIZED" /\ AllPromoted(UnitOf[g])
          /\ UnitOf[g] \notin left /\ UnitOf[g] # unit
      BY <1>0, <2>2, <2>3, <2>5 DEF OutcomeInv
    <3>2. \A h \in Members(UnitOf[g]) : evidence'[h] = evidence[h]
      BY <2>1, <2>2, <3>1, UnitsAndMembers
    <3>. QED BY <2>1, <2>2, <3>1, <3>2, UnitsAndMembers DEF AllPromoted, Complete
  <2>. QED BY <2>4, <2>5
<1>6. CASE UnitEnds
  <2>1. /\ phase = "readback" /\ todo = {} /\ left' = left /\ unit' = NoUnit
        /\ status' = status /\ wrote' = wrote /\ unit \in Units
        /\ \A g \in Frameworks : evidence'[g] = IF g \in Members(unit)
                                              THEN [evidence[g] EXCEPT !.promoted = Promoted(g)]
                                              ELSE evidence[g]
    BY <1>0, <1>6 DEF UnitEnds, JobTypeOK
  <2>2. \A g \in Frameworks : evidence'[g].write = evidence[g].write
    BY <1>0, <2>1 DEF JobTypeOK, Evidence
  <2>3. ASSUME NEW g \in Frameworks, UnitOf[g] # unit, evidence'[g].promoted
        PROVE  /\ status'[UnitOf[g]] = "AUTHORIZED" /\ AllPromoted(UnitOf[g])'
               /\ UnitOf[g] \notin left' /\ UnitOf[g] # unit'
    <3>1. \A h \in Members(UnitOf[g]) : evidence'[h] = evidence[h]
      BY <2>1, <2>3, UnitsAndMembers
    <3>2. g \in Members(UnitOf[g]) /\ UnitOf[g] # NoUnit
      BY UnitsAndMembers
    <3>3. /\ status[UnitOf[g]] = "AUTHORIZED" /\ AllPromoted(UnitOf[g]) /\ UnitOf[g] \notin left
      BY <1>0, <2>3, <3>1, <3>2 DEF OutcomeInv
    <3>. QED BY <2>1, <3>1, <3>2, <3>3 DEF AllPromoted, Complete
  <2>4. ASSUME NEW g \in Members(unit), evidence'[g].promoted
        PROVE  /\ status'[UnitOf[g]] = "AUTHORIZED" /\ AllPromoted(UnitOf[g])'
               /\ UnitOf[g] \notin left' /\ UnitOf[g] # unit'
    <3>1. g \in Frameworks /\ UnitOf[g] = unit /\ unit # NoUnit
      BY <2>1, UnitsAndMembers
    <3>2. status[unit] = "AUTHORIZED"
      BY <1>0, <2>1, <2>4, <3>1 DEF Promoted, JobTypeOK, Evidence
    <3>3. ASSUME NEW h \in Members(unit)
          PROVE  /\ evidence'[h].promoted /\ evidence'[h].trust /\ evidence'[h].scan
                 /\ evidence'[h].write = "completed" /\ ~evidence'[h].skipped
                 /\ evidence'[h].readback = "confirmed"
                 /\ evidence'[h].observed = evidence'[h].candidate
      <4>1. h \in Frameworks /\ UnitOf[h] = unit
        BY <2>1, UnitsAndMembers
      <4>2. /\ evidence[h].write = "completed" /\ evidence[h].readback = "confirmed"
            /\ evidence[h].observed = evidence[h].candidate
        BY <1>0, <2>1, <3>2 DEF HandInv
      <4>3. Promoted(h)
        BY <3>2, <4>1, <4>2 DEF Promoted
      <4>4. evidence[h].trust /\ evidence[h].scan /\ ~evidence[h].skipped
        BY <1>0, <2>1 DEF HandInv, Cleared, Chosen
      <4>. QED BY <1>0, <2>1, <4>1, <4>2, <4>3, <4>4 DEF JobTypeOK, Evidence
    <3>4. AllPromoted(UnitOf[g])'
      BY <3>1, <3>3 DEF AllPromoted, Complete
    <3>5. unit \notin left
      BY <1>0, <2>1 DEF HandInv
    <3>. QED BY <2>1, <3>1, <3>2, <3>4, <3>5
  <2>. SUFFICES ASSUME NEW g \in Frameworks
                PROVE  /\ evidence'[g].write = "completed" => g \in wrote'
                       /\ evidence'[g].promoted =>
                              /\ status'[UnitOf[g]] = "AUTHORIZED" /\ AllPromoted(UnitOf[g])'
                              /\ UnitOf[g] \notin left' /\ UnitOf[g] # unit'
    BY DEF OutcomeInv
  <2>5. evidence'[g].write = "completed" => g \in wrote'
    BY <1>0, <2>1, <2>2 DEF OutcomeInv
  <2>6. UnitOf[g] = unit => g \in Members(unit)
    BY UnitsAndMembers
  <2>. QED BY <2>3, <2>4, <2>5, <2>6
<1>7. ASSUME \/ Soak \/ UNCHANGED vars
             \/ \E k \in Runs : Quarantine(k) \/ \E f \in Frameworks : Push(f, k) \/ Move(f, k)
      PROVE  OutcomeInv'
  <2>1. UNCHANGED job
    BY <1>7 DEF Soak, vars, Quarantine, Push, Move, job
  <2>. QED BY <1>0, <2>1 DEF OutcomeInv, AllPromoted, Complete, job
<1>. QED BY <1>1, <1>2, <1>3, <1>4, <1>5, <1>6, <1>7 DEF Next, Step

-----------------------------------------------------------------------------
(* The theorems.                                                           *)

\* The invariant holds before the first job.
LEMMA BatchInit == Init => BatchInv
<1>. SUFFICES ASSUME Init PROVE BatchInv
  OBVIOUS
<1>1. JobTypeOK
  <2>1. evidence \in [Frameworks -> Evidence]
    BY BoundAssumption DEF Init, Blank, Evidence, NoImage
  <2>2. /\ seen \in [Frameworks -> [images : SUBSET Runs, stable : 0..MaxRun]]
        /\ images \in [Frameworks -> SUBSET Runs] /\ stable \in [Frameworks -> 0..MaxRun]
    BY BoundAssumption DEF Init, Unread, NoImage
  <2>3. status \in [Units -> {"PENDING", "AUTHORIZED", "FAILED", "SKIPPED"}]
    BY DEF Init
  <2>4. barrier \in BOOLEAN /\ phase = "done"
    BY DEF Init
  <2>5. /\ soaked \in 0..MaxRun /\ cutoff \in 0..MaxRun
        /\ faults \in 0..MaxFaults
    BY BoundAssumption DEF Init
  <2>6. /\ quarantined \subseteq Runs /\ todo \subseteq Frameworks /\ left \subseteq Units
        /\ unit \in Units \cup {NoUnit} /\ wrote \subseteq Frameworks
    BY DEF Init
  <2>. QED BY <2>1, <2>2, <2>3, <2>4, <2>5, <2>6 DEF JobTypeOK
<1>2. TouchInv /\ OutcomeInv
  BY DEF Init, TouchInv, Untouched, OutcomeInv, Blank
<1>3. GateInv /\ HandInv
  BY DEF Init, GateInv, HandInv
<1>. QED BY <1>1, <1>2, <1>3 DEF BatchInv

\* The inductive invariant of the batch promotion.
THEOREM BatchInductive == Spec => []BatchInv
<1>1. BatchInv /\ [Next]_vars => BatchInv'
  <2>1. BatchInv /\ [Next]_vars => JobTypeOK'
    BY TypeStep DEF BatchInv
  <2>. QED BY <2>1, TouchStep, GateStep, HandStep, OutcomeStep DEF BatchInv
<1>. QED BY <1>1, BatchInit, PTL DEF Spec

-----------------------------------------------------------------------------
(* The reports.                                                            *)

\* A whole save, the reports of nothing, and a torn save are well typed.
LEMMA ReportTypes ==
    ASSUME JobTypeOK
    PROVE  /\ Image \in Reports /\ NoReport \in Reports
           /\ \A S \in SUBSET Frameworks, whole \in BOOLEAN :
                  disk \in Reports => Torn(S, whole) \in Reports
<1>1. /\ evidence \in [Frameworks -> Evidence] /\ status \in [Units -> Statuses]
      /\ barrier \in BOOLEAN
  BY DEF JobTypeOK, Statuses
<1>2. [f \in Frameworks |-> status[UnitOf[f]]] \in [Frameworks -> Statuses]
  BY <1>1, UnitsAndMembers
<1>3. Image \in Reports
  BY <1>1, <1>2 DEF Image, Reports
<1>4. Blank \in Evidence
  BY EvidenceTypes, BoundAssumption DEF Blank, Evidence, NoImage
<1>5. NoReport \in Reports
  BY <1>4 DEF NoReport, Reports, Statuses
<1>6. ASSUME NEW S \in SUBSET Frameworks, NEW whole \in BOOLEAN, disk \in Reports
      PROVE  Torn(S, whole) \in Reports
  <2>1. /\ disk.evidence \in [Frameworks -> Evidence] /\ disk.unit \in [Frameworks -> Statuses]
        /\ disk.status \in [Units -> Statuses] /\ disk.barrier \in BOOLEAN
        /\ disk.promoted \subseteq Units
    BY <1>6 DEF Reports
  <2>2. [f \in Frameworks |-> IF f \in S THEN evidence[f] ELSE disk.evidence[f]]
            \in [Frameworks -> Evidence]
    BY <1>1, <2>1
  <2>3. [f \in Frameworks |-> IF f \in S THEN status[UnitOf[f]] ELSE disk.unit[f]]
            \in [Frameworks -> Statuses]
    BY <1>1, <2>1, UnitsAndMembers
  <2>4. Image.promoted \subseteq Units
    BY <1>3 DEF Reports
  <2>. QED BY <1>1, <2>1, <2>2, <2>3, <2>4 DEF Torn, Reports
<1>. QED BY <1>3, <1>5, <1>6

\* What a step leaves of the reports.
LEMMA WhatIsSaved ==
    ASSUME [Next]_vars
    PROVE  \/ disk' \in {disk, Image, NoReport}
           \/ \E S \in SUBSET Frameworks, whole \in BOOLEAN : disk' = Torn(S, whole)
           \/ \E f \in Frameworks : \E d \in {disk, Image} :
                  disk' = [d EXCEPT !.evidence[f] = evidence'[f]]
<1>1. CASE Start \/ Finish
  BY <1>1 DEF Start, Finish
<1>2. CASE Die
  BY <1>2 DEF Die
<1>3. ASSUME \/ \E f \in Frameworks : StartWrite(f) \/ WriteCompletes(f) \/ WriteFails(f)
             \/ \E u \in Units : BeginUnit(u)
      PROVE  disk' = Image
  BY <1>3 DEF StartWrite, WriteCompletes, WriteFails, BeginUnit, Saved
<1>4. ASSUME NEW f \in Frameworks, ReadBack(f)
      PROVE  \E d \in {disk, Image} : disk' = [d EXCEPT !.evidence[f] = evidence'[f]]
  <2>1. disk' = [IF todo = Members(unit) THEN Image ELSE disk EXCEPT !.evidence[f] = evidence'[f]]
    BY <1>4 DEF ReadBack
  <2>. QED BY <2>1
<1>5. ASSUME \/ Select \/ TrustEnds \/ Barrier \/ UnitEnds \/ Soak \/ UNCHANGED vars
             \/ \E f \in Frameworks : Inventory(f) \/ Trust(f) \/ Scan(f)
             \/ \E k \in Runs : Quarantine(k) \/ \E f \in Frameworks : Push(f, k) \/ Move(f, k)
      PROVE  disk' = disk
  <2>1. CASE Select
    BY <2>1, Zenon DEF Select, reports
  <2>. QED BY <1>5, <2>1 DEF TrustEnds, Barrier, UnitEnds, Soak, vars, Inventory, Trust, Scan,
                         Quarantine, Push, Move, job, reports
<1>. QED BY <1>1, <1>2, <1>3, <1>4, <1>5 DEF Next, Step

\* Every step keeps the types of the reports.
LEMMA ReportTypeStep == JobTypeOK /\ ReportTypeOK /\ JobTypeOK' /\ [Next]_vars => ReportTypeOK'
<1>. SUFFICES ASSUME JobTypeOK, ReportTypeOK, JobTypeOK', [Next]_vars PROVE ReportTypeOK'
  OBVIOUS
<1>1. disk \in Reports /\ Image \in Reports /\ NoReport \in Reports
  BY ReportTypes DEF ReportTypeOK
<1>2. ASSUME NEW f \in Frameworks, NEW d \in Reports PROVE [d EXCEPT !.evidence[f] = evidence'[f]] \in Reports
  <2>1. evidence'[f] \in Evidence
    BY DEF JobTypeOK
  <2>. QED BY <2>1 DEF Reports
<1>3. disk' \in Reports
  BY <1>1, <1>2, ReportTypes, WhatIsSaved
<1>4. conclusion' \in {conclusion, "none", "success", "failure", "cancelled"}
  <2>1. CASE Select
    BY <2>1, Zenon DEF Select, reports
  <2>2. CASE ~Select
    BY <2>2 DEF Next, Step, Start, TrustEnds, Barrier, UnitEnds, Finish, Inventory, Trust, Scan, StartWrite,
              WriteCompletes, WriteFails, ReadBack, BeginUnit, Die, Soak, Quarantine, Push, Move,
              Saved, reports, job, vars
  <2>. QED BY <2>1, <2>2
<1>5. \/ overtaken' \in {overtaken, {}}
      \/ \E f \in Frameworks : overtaken' = overtaken \cup ({f} \cap Read)
  <2>1. CASE Select
    BY <2>1, Zenon DEF Select
  <2>2. CASE ~Select
    BY <2>2 DEF Next, Step, Start, TrustEnds, Barrier, UnitEnds, Finish, Inventory, Trust, Scan, StartWrite,
              WriteCompletes, WriteFails, ReadBack, BeginUnit, Die, Soak, Quarantine, Push, Move, vars
  <2>. QED BY <2>1, <2>2
<1>. QED BY <1>3, <1>4, <1>5 DEF ReportTypeOK

\* The job, its evidence and the registry keep their shapes, and what is written or
\* read back belongs to the unit in hand (promote_batch, promotion_batch.py).
THEOREM BatchTypeCorrect == Spec => []TypeOK
<1>1. Init => ReportTypeOK
  <2>. SUFFICES ASSUME Init PROVE ReportTypeOK
    OBVIOUS
  <2>1. JobTypeOK
    BY BatchInit DEF BatchInv
  <2>2. disk = NoReport /\ conclusion = "none" /\ overtaken = {}
    BY DEF Init
  <2>. QED BY <2>1, <2>2, ReportTypes DEF ReportTypeOK
<1>2. BatchInv /\ BatchInv' /\ ReportTypeOK /\ [Next]_vars => ReportTypeOK'
  BY ReportTypeStep DEF BatchInv
<1>3. BatchInv /\ ReportTypeOK => TypeOK
  BY DEF BatchInv, TypeOK
<1>. QED BY <1>1, <1>2, <1>3, BatchInductive, PTL DEF Spec

\* A tag is written only after the barrier, and only for a unit selected from one
\* run whose members were all verified and scanned.
THEOREM WrittenUnitsAreWhole == Spec => []WrittenUnitIsWhole
<1>1. BatchInv => WrittenUnitIsWhole
  BY DEF BatchInv, JobTypeOK, TouchInv, Untouched, Cleared, Chosen, WrittenUnitIsWhole
<1>. QED BY <1>1, BatchInductive, PTL

\* No file says more than the job knows.
SavedInv == \A f \in Frameworks : disk.evidence[f].promoted => evidence[f].promoted

\* What was promoted stays promoted until the next attempt.
LEMMA PromotedStays ==
    ASSUME BatchInv, [Next]_vars, ~Start
    PROVE  \A f \in Frameworks : evidence[f].promoted => evidence'[f].promoted
<1>0. JobTypeOK /\ TouchInv /\ OutcomeInv /\ evidence \in [Frameworks -> Evidence]
  BY DEF BatchInv, JobTypeOK
<1>1. CASE Select
  BY <1>0, <1>1, NothingBefore DEF Select
<1>2. CASE UnitEnds
  <2>1. \A f \in Frameworks : evidence[f].promoted => f \notin Members(unit)
    BY <1>0, UnitsAndMembers DEF OutcomeInv, Members
  <2>. QED BY <1>2, <2>1 DEF UnitEnds
<1>3. ASSUME NEW f \in Frameworks,
             Trust(f) \/ Scan(f) \/ StartWrite(f) \/ WriteCompletes(f) \/ WriteFails(f) \/ ReadBack(f)
      PROVE  \A g \in Frameworks : evidence'[g].promoted = evidence[g].promoted
  <2>1. CASE Trust(f) \/ Scan(f)
    <3>1. \/ evidence' = evidence
          \/ evidence' = [evidence EXCEPT ![f].trust = TRUE]
          \/ evidence' = [evidence EXCEPT ![f].scan = TRUE]
      BY <2>1 DEF Trust, Scan, Rejected
    <3>. QED BY <1>0, <3>1 DEF Evidence
  <2>2. CASE StartWrite(f) \/ WriteCompletes(f) \/ WriteFails(f)
    <3>1. \E w \in {"started", "completed", "failed"} : evidence' = [evidence EXCEPT ![f].write = w]
      BY <2>2 DEF StartWrite, WriteCompletes, WriteFails
    <3>. QED BY <1>0, <3>1 DEF Evidence
  <2>3. CASE ReadBack(f)
    BY <1>0, <2>3 DEF ReadBack, Evidence
  <2>. QED BY <1>3, <2>1, <2>2, <2>3
<1>4. ASSUME \/ TrustEnds \/ Barrier \/ Finish \/ Die \/ Soak \/ UNCHANGED vars
             \/ \E f \in Frameworks : Inventory(f)
             \/ \E u \in Units : BeginUnit(u)
             \/ \E k \in Runs : Quarantine(k) \/ \E f \in Frameworks : Push(f, k) \/ Move(f, k)
      PROVE  evidence' = evidence
  BY <1>4 DEF TrustEnds, Barrier, Finish, Die, Soak, vars, Inventory, BeginUnit, Quarantine, Push, Move, job
<1>. QED BY <1>1, <1>2, <1>3, <1>4 DEF Next, Step

\* The step lemma of SavedInv.
LEMMA SavedStep == BatchInv /\ ReportTypeOK /\ SavedInv /\ [Next]_vars => SavedInv'
<1>. SUFFICES ASSUME BatchInv, ReportTypeOK, SavedInv, [Next]_vars PROVE SavedInv'
  OBVIOUS
<1>0. JobTypeOK /\ Image \in Reports /\ disk \in Reports
  BY ReportTypes DEF BatchInv, ReportTypeOK
<1>1. CASE Start
  BY <1>1 DEF Start, SavedInv, NoReport, Blank
<1>2. CASE ~Start
  <2>. SUFFICES ASSUME NEW g \in Frameworks
                PROVE  disk'.evidence[g].promoted => evidence'[g].promoted
    BY DEF SavedInv
  <2>1. evidence[g].promoted => evidence'[g].promoted
    BY <1>2, PromotedStays
  <2>2. disk.evidence[g].promoted => evidence[g].promoted
    BY DEF SavedInv
  <2>3. Image.evidence = evidence /\ NoReport.evidence[g] = Blank /\ ~Blank.promoted
    BY DEF Image, NoReport, Blank
  <2>4. CASE disk' \in {disk, Image, NoReport}
    BY <2>1, <2>2, <2>3, <2>4
  <2>5. ASSUME NEW S \in SUBSET Frameworks, NEW whole \in BOOLEAN, disk' = Torn(S, whole)
        PROVE  disk'.evidence[g].promoted => evidence'[g].promoted
    BY <2>1, <2>2, <2>5 DEF Torn
  <2>6. ASSUME NEW f \in Frameworks, NEW d \in {disk, Image},
               disk' = [d EXCEPT !.evidence[f] = evidence'[f]]
        PROVE  disk'.evidence[g].promoted => evidence'[g].promoted
    <3>1. disk'.evidence[g] \in {evidence'[g], d.evidence[g]}
      BY <1>0, <2>6 DEF Reports
    <3>. QED BY <2>1, <2>2, <2>3, <3>1
  <2>. QED BY <2>4, <2>5, <2>6, WhatIsSaved
<1>. QED BY <1>1, <1>2

\* The health counts only what was written and confirmed with its whole unit, from
\* whatever reports an attempt leaves; and it counts everything promoted by an
\* attempt that ended by itself with its last save whole and its artifact there.
THEOREM PromotionsCount == Spec => []CountedIsPromoted
<1>1. BatchInv /\ SavedInv => CountedIsPromoted
  <2>. SUFFICES ASSUME BatchInv, SavedInv, NEW f \in Frameworks
                PROVE  /\ Counted(f) => Members(UnitOf[f]) \subseteq wrote /\ PairVerified(UnitOf[f])
                       /\ /\ phase = "done" /\ conclusion \in {"success", "failure"} /\ disk = Image
                          /\ evidence[f].promoted
                          => Counted(f)
    BY DEF CountedIsPromoted
  <2>0. JobTypeOK /\ TouchInv /\ GateInv /\ OutcomeInv
    BY DEF BatchInv
  <2>1. ASSUME evidence[f].promoted
        PROVE  /\ barrier /\ Members(UnitOf[f]) \subseteq wrote /\ PairVerified(UnitOf[f])
    <3>1. AllPromoted(UnitOf[f]) /\ barrier /\ Cleared(UnitOf[f])
      BY <2>0, <2>1 DEF OutcomeInv, TouchInv, Untouched
    <3>2. Members(UnitOf[f]) \subseteq wrote
      BY <2>0, <3>1, UnitsAndMembers DEF OutcomeInv, AllPromoted, Complete
    <3>3. Bound(UnitOf[f], [g \in Frameworks |-> evidence[g].candidate])
      <4>1. PICK k \in Runs : \A g \in Members(UnitOf[f]) : evidence[g].candidate = k
        BY <3>1 DEF Cleared, Chosen, OneRun
      <4>2. k # NoImage
        BY BoundAssumption DEF Runs, NoImage
      <4>. QED BY <4>1, <4>2, UnitsAndMembers DEF Bound
    <3>. QED BY <3>1, <3>2, <3>3 DEF PairVerified
  <2>2. Counted(f) => evidence[f].promoted
    BY DEF Counted, SavedInv
  <2>3. ASSUME disk = Image, NEW u \in Units PROVE ~Inconsistent(u)
    <3>1. /\ disk.evidence = evidence /\ disk.status = status
          /\ \A g \in Frameworks : disk.unit[g] = status[UnitOf[g]]
          /\ u \in disk.promoted <=> \A g \in Members(u) : evidence[g].promoted
      BY <2>3 DEF Image
    <3>2. ASSUME NEW g \in Members(u), status[u] = "SKIPPED" PROVE Untouched(g) /\ evidence[g].skipped
      BY <2>0, <3>2, UnitsAndMembers DEF TouchInv, GateInv, Cleared, Chosen
    <3>3. ASSUME NEW g \in Members(u), evidence[g].promoted
          PROVE  status[u] = "AUTHORIZED" /\ \A h \in Members(u) : Complete(evidence[h]) /\ evidence[h].bound
      BY <2>0, <3>3, UnitsAndMembers DEF OutcomeInv, GateInv, Cleared, Chosen, AllPromoted
    <3>4. ASSUME NEW g \in Members(u)
          PROVE  disk.unit[g] = disk.status[u] /\ disk.evidence[g].promoted = (u \in disk.promoted)
      <4>1. g \in Frameworks /\ UnitOf[g] = u /\ evidence[g].promoted \in BOOLEAN
        BY <2>0, UnitsAndMembers DEF JobTypeOK, Evidence
      <4>2. evidence[g].promoted => \A h \in Members(u) : evidence[h].promoted
        BY <3>3 DEF Complete
      <4>. QED BY <3>1, <4>1, <4>2
    <3>5. status[u] = "SKIPPED" => u \notin disk.promoted
      BY <3>1, <3>2, UnitsAndMembers DEF Untouched
    <3>. QED BY <3>1, <3>2, <3>3, <3>4, <3>5 DEF Inconsistent, Untouched
  <2>4. ASSUME phase = "done", conclusion \in {"success", "failure"}, disk = Image, evidence[f].promoted
        PROVE  Counted(f)
    <3>1. disk.barrier /\ disk.evidence[f].promoted
      BY <2>1, <2>4 DEF Image
    <3>. QED BY <2>3, <2>4, <3>1 DEF Counted
  <2>. QED BY <2>1, <2>2, <2>4
<1>2. Init => SavedInv
  BY DEF Init, SavedInv, NoReport, Blank
<1>3. BatchInv /\ TypeOK /\ SavedInv /\ [Next]_vars => SavedInv'
  BY SavedStep DEF TypeOK
<1>. QED BY <1>1, <1>2, <1>3, BatchInductive, BatchTypeCorrect, PTL DEF Spec

-----------------------------------------------------------------------------
(* The inventory and the tags.                                             *)

\* While the inventory is read, what was read of a tag stands unless an
\* administrator has moved it; from then on, so does its place behind the candidate.
ForwardInv ==
    /\ phase = "inventory" => \A f \in Frameworks \ todo :
           f \in overtaken \/ status[UnitOf[f]] = "FAILED" \/ seen[f].stable = stable[f]
    /\ phase \notin {"inventory", "done"} => \A f \in Frameworks :
           \/ f \in wrote \cup overtaken \/ evidence[f].candidate = NoImage
           \/ stable[f] < evidence[f].candidate

\* A candidate is newer than the stable tag of its inventory.
LEMMA CandidateIsNewer ==
    ASSUME NEW inventory \in [images : SUBSET Runs, stable : 0..MaxRun], NEW upto, NEW excluded,
           Candidate(inventory, upto, excluded) # NoImage
    PROVE  inventory.stable < Candidate(inventory, upto, excluded)
<1>. DEFINE S == Candidates(inventory, upto, excluded)
<1>1. S \in SUBSET Runs /\ \A k \in S : k > inventory.stable
  BY DEF Candidates
<1>2. S # {}
  BY DEF Candidate
<1>3. Newest(S) \in S
  BY <1>1, <1>2, NewestIsMember
<1>4. Newest(S) > inventory.stable /\ Newest(S) \in Nat /\ inventory.stable \in Nat
  BY <1>1, <1>3, BoundAssumption DEF Runs
<1>. QED BY <1>2, <1>4 DEF Candidate

\* The selection takes candidates newer than what the inventory read.
LEMMA SelectForward ==
    ASSUME JobTypeOK, ForwardInv, Select, NEW f \in Frameworks
    PROVE  \/ f \in overtaken \/ evidence'[f].candidate = NoImage
           \/ stable[f] < evidence'[f].candidate
<1>1. phase = "inventory" /\ todo = {}
  BY Zenon DEF Select
<1>2. f \in overtaken \/ status[UnitOf[f]] = "FAILED" \/ seen[f].stable = stable[f]
  BY <1>1 DEF ForwardInv
<1>. DEFINE candidate == [g \in Frameworks |-> IF status[UnitOf[g]] = "FAILED" THEN NoImage
                                              ELSE Candidate(seen[g], cutoff, quarantined)]
<1>3. evidence' = [g \in Frameworks |-> IF status[UnitOf[g]] = "FAILED" THEN Blank ELSE
             [Blank EXCEPT !.candidate = candidate[g], !.skipped = candidate[g] = NoImage,
                           !.bound = Bound(UnitOf[g], candidate)]]
  BY DEF Select
<1>. HIDE DEF candidate
<1>4. evidence'[f] = IF status[UnitOf[f]] = "FAILED" THEN Blank ELSE
             [Blank EXCEPT !.candidate = candidate[f], !.skipped = candidate[f] = NoImage,
                           !.bound = Bound(UnitOf[f], candidate)]
  BY <1>3
<1>5. evidence'[f].candidate = NoImage \/ evidence'[f].candidate = candidate[f]
  BY <1>4 DEF Blank
<1>6. candidate[f] = NoImage \/ candidate[f] = Candidate(seen[f], cutoff, quarantined)
  BY DEF candidate
<1>7. seen[f] \in [images : SUBSET Runs, stable : 0..MaxRun]
  BY DEF JobTypeOK
<1>8. CASE status[UnitOf[f]] = "FAILED"
  BY <1>4, <1>8 DEF Blank
<1>9. CASE seen[f].stable = stable[f]
  BY <1>5, <1>6, <1>7, <1>9, CandidateIsNewer
<1>. QED BY <1>2, <1>8, <1>9

\* A step after the selection that moves no tag, or records the move.
LEMMA ForwardStays ==
    ASSUME ForwardInv, SelectionKept, phase \notin {"inventory", "done"}, phase' # "inventory",
           wrote \subseteq wrote', overtaken \subseteq overtaken' \/ phase' = "done",
           \A f \in Frameworks : stable'[f] = stable[f] \/ f \in wrote' \cup overtaken'
    PROVE  ForwardInv'
BY DEF ForwardInv, SelectionKept

\* The step lemma of ForwardInv.
LEMMA ForwardStep == BatchInv /\ ForwardInv /\ [Next]_vars => ForwardInv'
<1>. SUFFICES ASSUME BatchInv, ForwardInv, [Next]_vars PROVE ForwardInv'
  OBVIOUS
<1>0. JobTypeOK
  BY DEF BatchInv
<1>1. ASSUME phase' = "done" PROVE ForwardInv'
  BY <1>1 DEF ForwardInv
<1>2. CASE Start
  BY <1>2 DEF Start, ForwardInv
<1>3. CASE Finish \/ Die
  BY <1>1, <1>3 DEF Finish, Die
<1>4. CASE Select
  <2>1. phase' = "trust" /\ UNCHANGED <<stable, wrote, overtaken>>
    BY <1>4, Zenon DEF Select
  <2>. QED BY <1>0, <1>4, <2>1, SelectForward DEF ForwardInv
<1>5. ASSUME NEW f \in Frameworks, Inventory(f) PROVE ForwardInv'
  <2>1. /\ phase = "inventory" /\ phase' = "inventory" /\ todo' = todo \ {f}
        /\ UNCHANGED <<stable, overtaken>>
    BY <1>5 DEF Inventory, Visit
  <2>2. /\ seen'[f].stable = stable[f] \/ status'[UnitOf[f]] = "FAILED"
        /\ \A u \in Units : status'[u] \in {status[u], "FAILED"}
        /\ \A g \in Frameworks \ {f} : seen'[g] = seen[g]
    BY <1>0, <1>5, UnitsAndMembers DEF Inventory, Fail, JobTypeOK
  <2>3. \A g \in Frameworks : status[UnitOf[g]] = "FAILED" => status'[UnitOf[g]] = "FAILED"
    BY <2>2, UnitsAndMembers
  <2>. QED BY <2>1, <2>2, <2>3 DEF ForwardInv
<1>6. ASSUME NEW k \in Runs, NEW f \in Frameworks, Move(f, k) PROVE ForwardInv'
  <2>1. /\ UNCHANGED <<phase, todo, status, seen, evidence, wrote>>
        /\ overtaken' = overtaken \cup ({f} \cap Read)
        /\ \A g \in Frameworks \ {f} : stable'[g] = stable[g]
    BY <1>0, <1>6 DEF Move, job, JobTypeOK
  <2>2. CASE phase = "inventory"
    BY <2>1, <2>2 DEF ForwardInv, Read
  <2>3. CASE phase # "inventory"
    BY <2>1, <2>3 DEF ForwardInv, Read
  <2>. QED BY <2>2, <2>3
<1>7. ASSUME \/ Soak \/ UNCHANGED vars
             \/ \E k \in Runs : Quarantine(k) \/ \E f \in Frameworks : Push(f, k)
      PROVE  ForwardInv'
  <2>1. UNCHANGED <<phase, todo, status, seen, evidence, wrote, stable, overtaken>>
    BY <1>7 DEF Soak, vars, Quarantine, Push, job
  <2>. QED BY <2>1 DEF ForwardInv
<1>8. ASSUME \/ TrustEnds \/ Barrier \/ UnitEnds
             \/ \E f \in Frameworks : \/ Trust(f) \/ Scan(f) \/ StartWrite(f)
                                      \/ WriteCompletes(f) \/ WriteFails(f) \/ ReadBack(f)
             \/ \E u \in Units : BeginUnit(u)
      PROVE  ForwardInv'
  <2>1. /\ phase \in {"trust", "scan", "units", "write", "readback"} /\ phase' # "inventory"
        /\ overtaken' = overtaken
        /\ \/ UNCHANGED <<stable, wrote>>
           \/ \E f \in Frameworks : Tagged(f)
    BY <1>8 DEF TrustEnds, Barrier, UnitEnds, Trust, Scan, StartWrite, WriteCompletes, WriteFails,
                ReadBack, BeginUnit, ToReadBack
  <2>2. /\ wrote \subseteq wrote'
        /\ \A f \in Frameworks : stable'[f] = stable[f] \/ f \in wrote'
    BY <1>0, <2>1 DEF Tagged, JobTypeOK
  <2>3. SelectionKept
    <3>1. ~Start /\ ~Select
      BY <2>1 DEF Start, Select
    <3>. QED BY <1>0, <3>1, SelectionStays
  <2>. QED BY <2>1, <2>2, <2>3, ForwardStays
<1>. QED BY <1>2, <1>3, <1>4, <1>5, <1>6, <1>7, <1>8 DEF Next, Step

\* A batch moves a stable tag back only if an administrator moved the tag after the
\* batch had read it: the tag it writes over is otherwise older than its candidate.
THEOREM TagsMoveForward == Spec => MovesForward
<1>1. Init => ForwardInv
  BY DEF Init, ForwardInv
<1>2. BatchInv /\ ForwardInv /\ [Next]_vars
      => [\A f \in wrote' \ wrote : stable'[f] > stable[f] \/ f \in overtaken]_vars
  <2>. SUFFICES ASSUME BatchInv, ForwardInv, [Next]_vars, NEW f \in wrote' \ wrote, f \notin overtaken
                PROVE  stable'[f] > stable[f]
    OBVIOUS
  <2>0. JobTypeOK /\ TouchInv
    BY DEF BatchInv
  <2>1. /\ evidence[f].write = "started" /\ phase # "done" /\ f \in Frameworks
        /\ Tagged(f)
    <3>1. CASE Select
      BY <3>1, SelectRest
    <3>2. CASE ~Select
      <4>1. \/ wrote' \subseteq wrote
            \/ \E g \in Frameworks : evidence[g].write = "started" /\ phase # "done" /\ Tagged(g)
        BY <3>2 DEF Next, Step, Start, TrustEnds, Barrier, UnitEnds, Finish, Inventory, Trust, Scan, StartWrite,
                    WriteCompletes, WriteFails, ReadBack, BeginUnit, Die, Soak, Quarantine, Push, Move,
                    job, vars
      <4>. QED BY <4>1 DEF Tagged
    <3>. QED BY <3>1, <3>2
  <2>2. barrier /\ Cleared(UnitOf[f])
    BY <2>0, <2>1 DEF TouchInv, Untouched
  <2>3. phase \notin {"inventory", "done"}
    BY <2>0, <2>1, <2>2 DEF TouchInv
  <2>4. evidence[f].candidate \in Runs
    BY <2>1, <2>2, UnitsAndMembers DEF Cleared, Chosen, OneRun
  <2>5. evidence[f].candidate # NoImage /\ evidence[f].candidate \in Nat
    BY <2>4, BoundAssumption DEF Runs, NoImage
  <2>6. stable[f] < evidence[f].candidate /\ stable[f] \in Nat
    BY <2>0, <2>1, <2>3, <2>5, BoundAssumption DEF ForwardInv, JobTypeOK
  <2>7. stable'[f] = evidence[f].candidate
    BY <2>0, <2>1 DEF Tagged, JobTypeOK
  <2>. QED BY <2>5, <2>6, <2>7
<1>3. BatchInv /\ ForwardInv /\ [Next]_vars => ForwardInv'
  BY ForwardStep
<1>. QED BY <1>1, <1>2, <1>3, BatchInductive, PTL DEF Spec, MovesForward

-----------------------------------------------------------------------------
(* The refinement.                                                         *)

\* What is offered has soaked, and what is still to be read back was not read.
SoakInv == cutoff <= soaked /\ \A f \in Frameworks : evidence[f].candidate <= soaked
UnreadInv ==
    /\ \A u \in left : \A f \in Members(u) : evidence[f].readback = "not_run"
    /\ phase = "write" => \A f \in Members(unit) : evidence[f].readback = "not_run"
    /\ phase = "readback" => \A f \in todo : evidence[f].readback = "not_run"

\* A candidate is no younger than the soak period asks.
LEMMA CandidateSoaked ==
    ASSUME NEW inventory \in [images : SUBSET Runs, stable : 0..MaxRun], NEW upto \in Nat, NEW excluded
    PROVE  Candidate(inventory, upto, excluded) <= upto
<1>. DEFINE S == Candidates(inventory, upto, excluded)
<1>1. CASE S = {}
  BY <1>1 DEF Candidate, NoImage
<1>2. CASE S # {}
  <2>1. S \in SUBSET Runs
    BY DEF Candidates
  <2>2. Newest(S) \in S
    BY <1>2, <2>1, NewestIsMember
  <2>3. \A k \in S : k <= upto
    BY DEF Candidates
  <2>. QED BY <1>2, <2>2, <2>3 DEF Candidate
<1>. QED BY <1>1, <1>2

\* The step lemma of SoakInv.
LEMMA SoakStep == BatchInv /\ SoakInv /\ [Next]_vars => SoakInv'
<1>. SUFFICES ASSUME BatchInv, SoakInv, [Next]_vars PROVE SoakInv'
  OBVIOUS
<1>0. JobTypeOK /\ soaked \in Nat /\ cutoff \in Nat
  BY BoundAssumption DEF BatchInv, JobTypeOK
<1>1. CASE Start
  BY <1>0, <1>1 DEF Start, registry, Blank, NoImage, SoakInv
<1>2. CASE Select
  <2>. DEFINE candidate == [f \in Frameworks |-> IF status[UnitOf[f]] = "FAILED" THEN NoImage
                                                ELSE Candidate(seen[f], cutoff, quarantined)]
  <2>1. /\ cutoff' = 0 /\ soaked' = soaked
        /\ evidence' = [f \in Frameworks |-> IF status[UnitOf[f]] = "FAILED" THEN Blank ELSE
             [Blank EXCEPT !.candidate = candidate[f], !.skipped = candidate[f] = NoImage,
                           !.bound = Bound(UnitOf[f], candidate)]]
    BY <1>2 DEF Select, registry
  <2>2. \A f \in Frameworks : candidate[f] <= soaked
    <3>1. \A f \in Frameworks : /\ Candidate(seen[f], cutoff, quarantined) \in 0..MaxRun
                                /\ Candidate(seen[f], cutoff, quarantined) <= cutoff
      BY <1>0, CandidateType, CandidateSoaked DEF JobTypeOK
    <3>. QED BY <1>0, <3>1, BoundAssumption DEF SoakInv, NoImage
  <2>. HIDE DEF candidate
  <2>3. ASSUME NEW f \in Frameworks PROVE evidence'[f].candidate <= soaked
    <3>1. CASE status[UnitOf[f]] = "FAILED"
      <4>1. evidence'[f] = Blank
        BY <2>1, <3>1
      <4>. QED BY <1>0, <4>1 DEF Blank, NoImage
    <3>2. CASE status[UnitOf[f]] # "FAILED"
      <4>1. evidence'[f] = [Blank EXCEPT !.candidate = candidate[f], !.skipped = candidate[f] = NoImage,
                                         !.bound = Bound(UnitOf[f], candidate)]
        BY <2>1, <3>2
      <4>2. evidence'[f].candidate = candidate[f]
        BY <4>1 DEF Blank
      <4>. QED BY <2>2, <4>2
    <3>. QED BY <3>1, <3>2
  <2>4. cutoff' = 0 /\ soaked' = soaked
    BY <2>1
  <2>. QED BY <1>0, <2>3, <2>4 DEF SoakInv
<1>3. CASE ~Start /\ ~Select
  <2>1. SelectionKept
    BY <1>0, <1>3, SelectionStays
  <2>2. soaked' \in {soaked, soaked + 1} /\ cutoff' \in {cutoff, 0}
    BY <1>3 DEF Next, Step, TrustEnds, Barrier, UnitEnds, Finish, Inventory, Trust, Scan, StartWrite,
                WriteCompletes, WriteFails, ReadBack, BeginUnit, Die, Soak, Quarantine, Push, Move,
                registry, job, vars
  <2>3. \A f \in Frameworks : evidence[f].candidate \in Nat
    BY <1>0, BoundAssumption DEF JobTypeOK, Evidence
  <2>. QED BY <1>0, <2>1, <2>2, <2>3 DEF SoakInv, SelectionKept
<1>. QED BY <1>1, <1>2, <1>3

\* The step lemma of UnreadInv.
LEMMA UnreadStep == BatchInv /\ UnreadInv /\ [Next]_vars => UnreadInv'
<1>. SUFFICES ASSUME BatchInv, UnreadInv, [Next]_vars PROVE UnreadInv'
  OBVIOUS
<1>0. JobTypeOK /\ TouchInv /\ evidence \in [Frameworks -> Evidence]
  BY DEF BatchInv, JobTypeOK
<1>1. CASE Start \/ Finish \/ Die
  BY <1>1 DEF Start, Finish, Die, UnreadInv
<1>2. CASE Barrier
  <2>1. \A f \in Frameworks : evidence[f].readback = "not_run"
    BY <1>0, <1>2 DEF Barrier, TouchInv, Untouched
  <2>2. evidence' = evidence /\ phase' = "units" /\ left' \subseteq Units
    BY <1>2 DEF Barrier, Ready
  <2>. QED BY <2>1, <2>2, UnitsAndMembers DEF UnreadInv
<1>3. ASSUME NEW u \in Units, BeginUnit(u) PROVE UnreadInv'
  BY <1>3 DEF BeginUnit, UnreadInv
<1>4. ASSUME \A f \in Frameworks : evidence'[f].readback = evidence[f].readback,
             left' = left, UNCHANGED <<phase, todo, unit>> \/ phase' \notin {"write", "readback"}
      PROVE  UnreadInv'
  BY <1>0, <1>4, UnitsAndMembers DEF UnreadInv, JobTypeOK
<1>5. ASSUME NEW f \in Frameworks, StartWrite(f) \/ WriteCompletes(f) \/ WriteFails(f)
      PROVE  UnreadInv'
  <2>1. \E w \in {"started", "completed", "failed"} : evidence' = [evidence EXCEPT ![f].write = w]
    BY <1>5 DEF StartWrite, WriteCompletes, WriteFails
  <2>2. \A g \in Frameworks : evidence'[g].readback = evidence[g].readback
    BY <1>0, <2>1 DEF Evidence
  <2>3. /\ phase = "write" /\ left' = left /\ unit' = unit /\ phase' \in {"write", "readback"}
        /\ todo' \subseteq todo \cup Members(unit) /\ unit \in Units /\ todo \subseteq Members(unit)
    BY <1>0, <1>5 DEF StartWrite, WriteCompletes, WriteFails, ToReadBack, JobTypeOK
  <2>. QED BY <1>0, <2>2, <2>3, UnitsAndMembers DEF UnreadInv, JobTypeOK
<1>6. ASSUME NEW f \in Frameworks, ReadBack(f) PROVE UnreadInv'
  <2>1. /\ phase = "readback" /\ left' = left /\ phase' = phase /\ todo' = todo \ {f} /\ f \in todo
    BY <1>6 DEF ReadBack, Visit, First
  <2>2. \A g \in Frameworks \ {f} : evidence'[g].readback = evidence[g].readback
    BY <1>0, <1>6, ReadBackOfOne
  <2>3. \A u \in left : u # UnitOf[f]
    BY <1>0, <2>1, UnitsAndMembers DEF BatchInv, HandInv, JobTypeOK
  <2>4. \A u \in left : f \notin Members(u)
    BY <1>0, <2>3, UnitsAndMembers DEF JobTypeOK
  <2>5. left \subseteq Units /\ todo \subseteq Frameworks
    BY <1>0 DEF JobTypeOK
  <2>6. \A u \in left' : \A g \in Members(u) : evidence'[g].readback = "not_run"
    <3>1. \A u \in left : \A g \in Members(u) : g \in Frameworks \ {f}
      BY <2>4, <2>5, UnitsAndMembers
    <3>2. \A u \in left : \A g \in Members(u) : evidence[g].readback = "not_run"
      BY DEF UnreadInv
    <3>. QED BY <2>1, <2>2, <3>1, <3>2
  <2>7. \A g \in todo' : evidence'[g].readback = "not_run"
    BY <2>1, <2>2, <2>5 DEF UnreadInv
  <2>. QED BY <2>1, <2>6, <2>7 DEF UnreadInv
<1>7. CASE UnitEnds
  BY <1>0, <1>4, <1>7 DEF UnitEnds, Evidence
<1>8. CASE Select
  <2>1. \A f \in Frameworks : evidence'[f].readback = "not_run" /\ evidence[f].readback = "not_run"
    BY <1>0, <1>8, SelectedIsBlank DEF Select, TouchInv, Untouched
  <2>2. left' = left /\ phase' = "trust"
    BY <1>8, SelectRest
  <2>. QED BY <1>4, <2>1, <2>2
<1>9. ASSUME NEW f \in Frameworks, Trust(f) \/ Scan(f) PROVE UnreadInv'
  <2>1. \/ evidence' = evidence
        \/ evidence' = [evidence EXCEPT ![f].trust = TRUE]
        \/ evidence' = [evidence EXCEPT ![f].scan = TRUE]
    BY <1>9 DEF Trust, Scan, Rejected
  <2>2. \A g \in Frameworks : evidence'[g].readback = evidence[g].readback
    BY <1>0, <2>1 DEF Evidence
  <2>. QED BY <1>4, <1>9, <2>2 DEF Trust, Scan
<1>10. ASSUME TrustEnds \/ \E f \in Frameworks : Inventory(f) PROVE UnreadInv'
  BY <1>4, <1>10 DEF TrustEnds, Inventory
<1>11. ASSUME \/ Soak \/ UNCHANGED vars
              \/ \E k \in Runs : Quarantine(k) \/ \E f \in Frameworks : Push(f, k) \/ Move(f, k)
       PROVE  UnreadInv'
  BY <1>4, <1>11 DEF Soak, vars, Quarantine, Push, Move, job
<1>. QED BY <1>1, <1>2, <1>3, <1>5, <1>6, <1>7, <1>8, <1>9, <1>10, <1>11 DEF Next, Step

\* The run common to the members of a unit, when there is one.
LEMMA CommonRunOfUnit ==
    ASSUME NEW u \in Units, NEW e, \E k \in Runs : \A f \in Members(u) : e[f].candidate = k
    PROVE  /\ CommonRun(u, e) \in Runs
           /\ \A f \in Members(u) : e[f].candidate = CommonRun(u, e)
BY Zenon DEF CommonRun

\* What the gates recorded stands.
GatesKept ==
    \A g \in Frameworks :
        /\ evidence'[g].candidate = evidence[g].candidate
        /\ evidence'[g].trust = evidence[g].trust
        /\ evidence'[g].scan = evidence[g].scan

\* Then the offer stands as well.
LEMMA OfferKept ==
    ASSUME barrier' = barrier, barrier => GatesKept
    PROVE  UNCHANGED Offered
<1>. SUFFICES ASSUME NEW u \in Units, barrier
              PROVE  /\ Verified(u)' <=> Verified(u)
                     /\ Verified(u) => CommonRun(u, evidence') = CommonRun(u, evidence)
  BY DEF Offered
<1>1. ASSUME NEW g \in Members(u)
      PROVE  /\ evidence'[g].candidate = evidence[g].candidate
             /\ evidence'[g].trust = evidence[g].trust /\ evidence'[g].scan = evidence[g].scan
  BY UnitsAndMembers DEF GatesKept
<1>2. Verified(u)' <=> Verified(u)
  BY <1>1 DEF Verified, OneRun
<1>3. ASSUME Verified(u) PROVE CommonRun(u, evidence') = CommonRun(u, evidence)
  <2>1. /\ \E k \in Runs : \A f \in Members(u) : evidence[f].candidate = k
        /\ \E k \in Runs : \A f \in Members(u) : evidence'[f].candidate = k
    BY <1>1, <1>3 DEF Verified, OneRun
  <2>2. PICK g \in Members(u) : TRUE
    BY UnitsAndMembers
  <2>3. evidence[g].candidate = CommonRun(u, evidence)
    BY <2>1, CommonRunOfUnit
  <2>4. evidence'[g].candidate = CommonRun(u, evidence')
    BY <2>1, CommonRunOfUnit
  <2>. QED BY <1>1, <2>3, <2>4
<1>. QED BY <1>2, <1>3

\* A cleared unit is offered the candidate of each of its members.
LEMMA OfferOfCleared ==
    ASSUME barrier, NEW f \in Frameworks, Cleared(UnitOf[f])
    PROVE  Offered[UnitOf[f]] = evidence[f].candidate /\ Offered[UnitOf[f]] # 0
<1>. DEFINE u == UnitOf[f]
<1>1. u \in Units /\ f \in Members(u) /\ Verified(u)
  BY UnitsAndMembers DEF Cleared, Chosen, Verified
<1>2. Offered[u] = CommonRun(u, evidence)
  BY <1>1 DEF Offered
<1>3. CommonRun(u, evidence) \in Runs /\ evidence[f].candidate = CommonRun(u, evidence)
  BY <1>1, CommonRunOfUnit DEF Verified, OneRun
<1>. QED BY <1>2, <1>3, BoundAssumption DEF Runs

\* The tags that a step confirms or promotes are those whose records it changes.
LEMMA TagsKept ==
    ASSUME \A g \in Frameworks : /\ evidence'[g].readback = evidence[g].readback
                                 /\ evidence'[g].promoted = evidence[g].promoted
    PROVE  UNCHANGED <<ConfirmedTags, PromotedTags>>
BY DEF ConfirmedTags, PromotedTags

\* A step of the gates, of the selection or of nobody offers, moves and promotes nothing.
LEMMA QuietRefines ==
    ASSUME UNCHANGED <<soaked, stable, wrote, barrier>>, barrier => GatesKept,
           \A g \in Frameworks : /\ evidence'[g].readback = evidence[g].readback
                                 /\ evidence'[g].promoted = evidence[g].promoted
    PROVE  UNCHANGED Promotion!promotionVars
BY OfferKept, TagsKept DEF Promotion!promotionVars

\* A new attempt starts from nothing.
LEMMA StartRefines == Start => Promotion!NewBatch
<1>. SUFFICES ASSUME Start PROVE Promotion!NewBatch
  OBVIOUS
<1>1. /\ UNCHANGED <<soaked, stable>> /\ wrote' = {} /\ ~barrier'
      /\ \A g \in Frameworks : evidence'[g].readback = "not_run" /\ evidence'[g].promoted = FALSE
  BY DEF Start, registry, Blank
<1>2. Offered' = Promotion!Nothing
  BY <1>1 DEF Offered, NoImage, Units, Promotion!Nothing, Promotion!Units
<1>3. ConfirmedTags' = {} /\ PromotedTags' = {}
  BY <1>1 DEF ConfirmedTags, PromotedTags
<1>. QED BY <1>1, <1>2, <1>3 DEF Promotion!NewBatch

\* The barrier offers soaked runs, and nothing was offered or moved before.
LEMMA BarrierRefines ==
    ASSUME BatchInv, SoakInv, Barrier
    PROVE  Promotion!Offer
<1>0. JobTypeOK /\ TouchInv /\ soaked \in Nat
  BY BoundAssumption DEF BatchInv, JobTypeOK
<1>1. /\ ~barrier /\ barrier' /\ evidence' = evidence /\ UNCHANGED <<soaked, stable, wrote>>
      /\ UNCHANGED <<ConfirmedTags, PromotedTags>>
  BY <1>0 DEF Barrier, TouchInv, registry, ConfirmedTags, PromotedTags
<1>2. Offered = Promotion!Nothing
  BY <1>1 DEF Offered, NoImage, Units, Promotion!Nothing, Promotion!Units
<1>3. wrote = {}
  BY <1>0, <1>1 DEF TouchInv, Untouched, JobTypeOK
<1>4. Offered' \in [Promotion!Units -> 0..soaked]
  <2>1. Offered' = [u \in Units |-> IF Verified(u) THEN CommonRun(u, evidence) ELSE 0]
    BY <1>1 DEF Offered, Verified, OneRun, NoImage
  <2>2. ASSUME NEW u \in Units, Verified(u) PROVE CommonRun(u, evidence) \in 0..soaked
    <3>1. PICK g \in Members(u) : g \in Frameworks
      BY UnitsAndMembers
    <3>2. CommonRun(u, evidence) \in Runs /\ evidence[g].candidate = CommonRun(u, evidence)
      BY <2>2, CommonRunOfUnit DEF Verified, OneRun
    <3>. QED BY <1>0, <3>1, <3>2, BoundAssumption DEF SoakInv, Runs
  <2>. QED BY <1>0, <2>1, <2>2 DEF Units, Promotion!Units
<1>. QED BY <1>1, <1>2, <1>3, <1>4 DEF Promotion!Offer

\* A tag that a step of the attempt moves is one its unit was offered.
LEMMA TagRefines ==
    ASSUME NEW f \in Frameworks, barrier, Cleared(UnitOf[f]), Tagged(f),
           UNCHANGED <<soaked, Offered, ConfirmedTags, PromotedTags>>
    PROVE  Promotion!Write(f)
BY OfferOfCleared DEF Tagged, Promotion!Write

\* A write that is started, done, failed or lost moves the tag or nothing.
LEMMA WriteRefines ==
    ASSUME BatchInv, NEW f \in Frameworks, StartWrite(f) \/ WriteCompletes(f) \/ WriteFails(f)
    PROVE  Promotion!Write(f) \/ UNCHANGED Promotion!promotionVars
<1>0. JobTypeOK /\ TouchInv /\ HandInv /\ evidence \in [Frameworks -> Evidence]
  BY DEF BatchInv, JobTypeOK
<1>1. PICK w \in {"started", "completed", "failed"} : evidence' = [evidence EXCEPT ![f].write = w]
  BY DEF StartWrite, WriteCompletes, WriteFails
<1>2. \A g \in Frameworks : /\ evidence'[g].readback = evidence[g].readback
                            /\ evidence'[g].promoted = evidence[g].promoted
                            /\ evidence'[g].candidate = evidence[g].candidate
                            /\ evidence'[g].trust = evidence[g].trust
                            /\ evidence'[g].scan = evidence[g].scan
  BY <1>0, <1>1 DEF Evidence
<1>3. /\ UNCHANGED <<soaked, barrier>> /\ phase = "write" /\ f \in todo
      /\ Tagged(f) \/ UNCHANGED <<stable, wrote>>
  BY DEF StartWrite, WriteCompletes, WriteFails, First, registry
<1>4. UNCHANGED <<Offered, ConfirmedTags, PromotedTags>>
  BY <1>2, <1>3, OfferKept, TagsKept DEF GatesKept
<1>5. barrier /\ Cleared(UnitOf[f])
  BY <1>0, <1>3, UnitsAndMembers DEF JobTypeOK, TouchInv, HandInv
<1>. QED BY <1>3, <1>4, <1>5, TagRefines DEF Promotion!promotionVars

\* So may a write whose runner is lost.
LEMMA DieRefines ==
    ASSUME BatchInv, Die
    PROVE  (\E f \in Frameworks : Promotion!Write(f)) \/ UNCHANGED Promotion!promotionVars
<1>1. evidence' = evidence /\ UNCHANGED <<soaked, barrier>>
  BY DEF Die, registry
<1>2. UNCHANGED <<Offered, ConfirmedTags, PromotedTags>>
  BY <1>1, OfferKept, TagsKept DEF GatesKept
<1>3. CASE UNCHANGED <<stable, wrote>>
  BY <1>1, <1>2, <1>3 DEF Promotion!promotionVars
<1>4. ASSUME NEW f \in Frameworks, evidence[f].write = "started", Tagged(f) PROVE Promotion!Write(f)
  <2>1. barrier /\ Cleared(UnitOf[f])
    BY <1>4 DEF BatchInv, TouchInv, Untouched
  <2>. QED BY <1>1, <1>2, <1>4, <2>1, TagRefines
<1>. QED BY <1>3, <1>4 DEF Die

\* A read-back confirms the offer, once, or nothing.
LEMMA ReadBackRefines ==
    ASSUME BatchInv, UnreadInv, NEW f \in Frameworks, ReadBack(f)
    PROVE  Promotion!Confirm(f) \/ UNCHANGED Promotion!promotionVars
<1>0. JobTypeOK /\ TouchInv /\ HandInv /\ evidence \in [Frameworks -> Evidence]
  BY DEF BatchInv, JobTypeOK
<1>1. UNCHANGED <<soaked, stable, wrote, barrier>> /\ phase = "readback" /\ f \in todo
  BY DEF ReadBack, Visit, First, registry
<1>2. evidence[f].readback = "not_run" /\ barrier /\ Cleared(UnitOf[f])
  BY <1>0, <1>1, UnitsAndMembers DEF UnreadInv, JobTypeOK, TouchInv, HandInv
<1>3. /\ \A g \in Frameworks : /\ evidence'[g].promoted = evidence[g].promoted
                               /\ evidence'[g].candidate = evidence[g].candidate
                               /\ evidence'[g].trust = evidence[g].trust
                               /\ evidence'[g].scan = evidence[g].scan
      /\ \A g \in Frameworks \ {f} : evidence'[g].readback = evidence[g].readback
      /\ \/ evidence'[f].readback = "confirmed" /\ stable[f] = evidence[f].candidate
         \/ evidence'[f].readback # "confirmed"
  BY <1>0 DEF ReadBack, Evidence
<1>4. UNCHANGED Offered
  BY <1>1, <1>3, OfferKept DEF GatesKept
<1>5. UNCHANGED PromotedTags
  BY <1>3 DEF PromotedTags
<1>6. CASE evidence'[f].readback = "confirmed" /\ stable[f] = evidence[f].candidate
  <2>1. ConfirmedTags' = ConfirmedTags \cup {f}
    BY <1>3, <1>6 DEF ConfirmedTags
  <2>. QED BY <1>1, <1>2, <1>4, <1>5, <1>6, <2>1, OfferOfCleared DEF Promotion!Confirm
<1>7. CASE evidence'[f].readback # "confirmed"
  <2>1. UNCHANGED ConfirmedTags
    BY <1>2, <1>3, <1>7 DEF ConfirmedTags
  <2>. QED BY <1>1, <1>4, <1>5, <2>1 DEF Promotion!promotionVars
<1>. QED BY <1>3, <1>6, <1>7

\* The outcome of a unit promotes all of it, when all of it was written and
\* confirmed, or nothing.
LEMMA UnitEndsRefines ==
    ASSUME BatchInv, UnitEnds
    PROVE  Promotion!Count(unit) \/ UNCHANGED Promotion!promotionVars
<1>0. /\ JobTypeOK /\ HandInv /\ OutcomeInv /\ evidence \in [Frameworks -> Evidence]
  BY DEF BatchInv, JobTypeOK
<1>1. /\ UNCHANGED <<soaked, stable, wrote, barrier>> /\ phase = "readback" /\ todo = {}
      /\ unit \in Units
  BY <1>0 DEF UnitEnds, registry, JobTypeOK
<1>2. \A g \in Frameworks : evidence'[g] = IF g \in Members(unit)
                                         THEN [evidence[g] EXCEPT !.promoted = Promoted(g)]
                                         ELSE evidence[g]
  BY DEF UnitEnds
<1>3. /\ \A g \in Frameworks : /\ evidence'[g].readback = evidence[g].readback
                               /\ evidence'[g].candidate = evidence[g].candidate
                               /\ evidence'[g].trust = evidence[g].trust
                               /\ evidence'[g].scan = evidence[g].scan
      /\ \A g \in Frameworks \ Members(unit) : evidence'[g].promoted = evidence[g].promoted
      /\ \A g \in Members(unit) : evidence'[g].promoted = Promoted(g)
  <2>1. ASSUME NEW g \in Frameworks, NEW b
        PROVE  /\ [evidence[g] EXCEPT !.promoted = b].promoted = b
               /\ [evidence[g] EXCEPT !.promoted = b].readback = evidence[g].readback
               /\ [evidence[g] EXCEPT !.promoted = b].candidate = evidence[g].candidate
               /\ [evidence[g] EXCEPT !.promoted = b].trust = evidence[g].trust
               /\ [evidence[g] EXCEPT !.promoted = b].scan = evidence[g].scan
    BY <1>0 DEF Evidence
  <2>2. ASSUME NEW g \in Members(unit)
        PROVE  g \in Frameworks /\ evidence'[g] = [evidence[g] EXCEPT !.promoted = Promoted(g)]
    BY <1>1, <1>2, UnitsAndMembers
  <2>3. ASSUME NEW g \in Frameworks \ Members(unit) PROVE evidence'[g] = evidence[g]
    BY <1>2
  <2>4. ASSUME NEW g \in Members(unit)
        PROVE  /\ evidence'[g].promoted = Promoted(g)
               /\ evidence'[g].readback = evidence[g].readback
               /\ evidence'[g].candidate = evidence[g].candidate
               /\ evidence'[g].trust = evidence[g].trust
               /\ evidence'[g].scan = evidence[g].scan
    <3>. DEFINE b == Promoted(g)
    <3>1. g \in Frameworks /\ evidence'[g] = [evidence[g] EXCEPT !.promoted = b]
      BY <2>2
    <3>. HIDE DEF b
    <3>2. /\ evidence'[g].promoted = b
          /\ evidence'[g].readback = evidence[g].readback
          /\ evidence'[g].candidate = evidence[g].candidate
          /\ evidence'[g].trust = evidence[g].trust
          /\ evidence'[g].scan = evidence[g].scan
      BY <2>1, <3>1
    <3>. QED BY <3>2 DEF b
  <2>. QED BY <2>3, <2>4
<1>4. UNCHANGED <<Offered, ConfirmedTags>>
  BY <1>1, <1>3, OfferKept DEF GatesKept, ConfirmedTags
<1>5. \A g \in Members(unit) : g \in Frameworks /\ UnitOf[g] = unit /\ ~evidence[g].promoted
  BY <1>0, <1>1, UnitsAndMembers DEF OutcomeInv
<1>6. CASE status[unit] = "AUTHORIZED"
  <2>1. ASSUME NEW g \in Members(unit)
        PROVE  Promoted(g) /\ g \in wrote \cap ConfirmedTags
    BY <1>0, <1>1, <1>5, <1>6 DEF HandInv, Promoted, OutcomeInv, ConfirmedTags
  <2>2. Members(unit) = Promotion!Members(unit)
    BY DEF Members, Promotion!Members
  <2>3. PromotedTags' = PromotedTags \cup Members(unit)
    BY <1>3, <1>5, <2>1 DEF PromotedTags
  <2>. QED BY <1>1, <1>4, <2>1, <2>2, <2>3 DEF Promotion!Count
<1>7. CASE status[unit] # "AUTHORIZED"
  <2>1. \A g \in Members(unit) : ~Promoted(g)
    BY <1>5, <1>7 DEF Promoted
  <2>2. UNCHANGED PromotedTags
    BY <1>3, <1>5, <2>1 DEF PromotedTags
  <2>. QED BY <1>1, <1>4, <2>2 DEF Promotion!promotionVars
<1>. QED BY <1>6, <1>7

\* The steps before the barrier, and those that only move the cursor.
LEMMA PreparationRefines ==
    ASSUME BatchInv,
           \/ Select \/ TrustEnds \/ Finish
           \/ \E f \in Frameworks : Inventory(f) \/ Trust(f) \/ Scan(f)
           \/ \E u \in Units : BeginUnit(u)
           \/ \E k \in Runs : Quarantine(k) \/ \E f \in Frameworks : Push(f, k)
           \/ UNCHANGED vars
    PROVE  UNCHANGED Promotion!promotionVars
<1>0. JobTypeOK /\ TouchInv /\ evidence \in [Frameworks -> Evidence]
  BY DEF BatchInv, JobTypeOK
<1>1. CASE Select
  <2>1. UNCHANGED <<soaked, stable, wrote, barrier>> /\ phase = "inventory"
    BY <1>1, SelectRest DEF Select, registry
  <2>2. /\ ~barrier
        /\ \A g \in Frameworks : evidence[g].readback = "not_run" /\ evidence[g].promoted = FALSE
    BY <1>0, <2>1 DEF TouchInv, Untouched, Evidence
  <2>3. \A g \in Frameworks : evidence'[g].readback = "not_run" /\ evidence'[g].promoted = FALSE
    <3>1. evidence' \in [Frameworks -> Evidence]
      BY <1>0, <1>1, SelectTypes
    <3>. QED BY <1>1, <3>1, SelectedIsBlank DEF Evidence
  <2>. QED BY <2>1, <2>2, <2>3, QuietRefines
<1>2. ASSUME NEW f \in Frameworks, Trust(f) \/ Scan(f)
      PROVE  UNCHANGED Promotion!promotionVars
  <2>1. /\ UNCHANGED <<soaked, stable, wrote, barrier>> /\ phase \in {"trust", "scan"}
        /\ \/ evidence' = evidence
           \/ evidence' = [evidence EXCEPT ![f].trust = TRUE]
           \/ evidence' = [evidence EXCEPT ![f].scan = TRUE]
    BY <1>2 DEF Trust, Scan, Rejected, registry
  <2>2. ~barrier
    BY <1>0, <2>1 DEF TouchInv
  <2>3. \A g \in Frameworks : /\ evidence'[g].readback = evidence[g].readback
                              /\ evidence'[g].promoted = evidence[g].promoted
    BY <1>0, <2>1 DEF Evidence
  <2>. QED BY <2>1, <2>2, <2>3, QuietRefines
<1>3. ASSUME UNCHANGED <<soaked, stable, wrote, barrier, evidence>>
      PROVE  UNCHANGED Promotion!promotionVars
  BY <1>3, QuietRefines DEF GatesKept
<1>4. ASSUME \/ TrustEnds \/ Finish \/ UNCHANGED vars
             \/ \E f \in Frameworks : Inventory(f)
             \/ \E u \in Units : BeginUnit(u)
             \/ \E k \in Runs : Quarantine(k) \/ \E f \in Frameworks : Push(f, k)
      PROVE  UNCHANGED <<soaked, stable, wrote, barrier, evidence>>
  BY <1>4 DEF TrustEnds, Finish, vars, Inventory, BeginUnit, Quarantine, Push, job, registry
<1>. QED BY <1>1, <1>2, <1>3, <1>4

\* What happens to the registry alone.
LEMMA RegistryRefines ==
    ASSUME Soak \/ \E k \in Runs, f \in Frameworks : Move(f, k)
    PROVE  Promotion!Soak \/ \E f \in Frameworks : Promotion!Move(f)
<1>1. UNCHANGED <<Offered, wrote, ConfirmedTags, PromotedTags>>
  <2>1. UNCHANGED <<evidence, barrier, wrote>>
    BY DEF Soak, Move, job
  <2>. QED BY <2>1, OfferKept, TagsKept DEF GatesKept
<1>2. CASE Soak
  BY <1>1, <1>2 DEF Soak, Promotion!Soak
<1>3. ASSUME NEW k \in Runs, NEW f \in Frameworks, Move(f, k) PROVE Promotion!Move(f)
  BY <1>1, <1>3 DEF Move, registry, Promotion!Move
<1>. QED BY <1>2, <1>3

\* The initial state: nothing is offered, moved or promoted.
LEMMA BatchInitRefines == Init => Promotion!Init /\ SoakInv /\ UnreadInv
<1>. SUFFICES ASSUME Init PROVE Promotion!Init /\ SoakInv /\ UnreadInv
  OBVIOUS
<1>1. /\ soaked = 0 /\ cutoff = 0 /\ stable = [f \in Frameworks |-> 0] /\ wrote = {} /\ ~barrier
      /\ left = {} /\ phase = "done"
      /\ \A g \in Frameworks : /\ evidence[g].readback = "not_run" /\ evidence[g].promoted = FALSE
                               /\ evidence[g].candidate = 0
  BY DEF Init, Blank, NoImage
<1>2. Offered = Promotion!Nothing
  BY <1>1 DEF Offered, NoImage, Units, Promotion!Nothing, Promotion!Units
<1>3. ConfirmedTags = {} /\ PromotedTags = {}
  BY <1>1 DEF ConfirmedTags, PromotedTags
<1>. QED BY <1>1, <1>2, <1>3 DEF Promotion!Init, SoakInv, UnreadInv

\* Every step of the batch is one step of what it promises, or none.
LEMMA BatchStepRefines ==
    ASSUME BatchInv, SoakInv, UnreadInv, [Next]_vars
    PROVE  [Promotion!Next]_Promotion!promotionVars
<1>1. CASE Start
  BY <1>1, StartRefines DEF Promotion!Next
<1>2. CASE Barrier
  BY <1>2, BarrierRefines DEF Promotion!Next
<1>3. ASSUME NEW f \in Frameworks, StartWrite(f) \/ WriteCompletes(f) \/ WriteFails(f)
      PROVE  [Promotion!Next]_Promotion!promotionVars
  BY <1>3, WriteRefines DEF Promotion!Next
<1>4. CASE Die
  BY <1>4, DieRefines DEF Promotion!Next
<1>5. ASSUME NEW f \in Frameworks, ReadBack(f) PROVE [Promotion!Next]_Promotion!promotionVars
  BY <1>5, ReadBackRefines DEF Promotion!Next
<1>6. CASE UnitEnds
  <2>1. unit \in Promotion!Units
    BY <1>6 DEF UnitEnds, BatchInv, JobTypeOK, Units, Promotion!Units
  <2>. QED BY <1>6, <2>1, UnitEndsRefines DEF Promotion!Next
<1>7. ASSUME Soak \/ \E k \in Runs, f \in Frameworks : Move(f, k)
      PROVE  [Promotion!Next]_Promotion!promotionVars
  BY <1>7, RegistryRefines DEF Promotion!Next
<1>8. ASSUME \/ Select \/ TrustEnds \/ Finish
             \/ \E f \in Frameworks : Inventory(f) \/ Trust(f) \/ Scan(f)
             \/ \E u \in Units : BeginUnit(u)
             \/ \E k \in Runs : Quarantine(k) \/ \E f \in Frameworks : Push(f, k)
             \/ UNCHANGED vars
      PROVE  UNCHANGED Promotion!promotionVars
  BY <1>8, PreparationRefines
<1>. QED BY <1>1, <1>2, <1>3, <1>4, <1>5, <1>6, <1>7, <1>8 DEF Next, Step

\* Through lost answers, partial writes, failed units and lost runners, a batch moves
\* tags only to the soaked run that their whole unit was offered at the barrier, and
\* promotes a unit only when it moved every tag of it and saw it there.
THEOREM BatchImplementsPromotion == Spec => ImplementsPromotion
<1>1. Init => Promotion!Init /\ SoakInv /\ UnreadInv
  BY BatchInitRefines
<1>2. BatchInv /\ SoakInv /\ UnreadInv /\ [Next]_vars => SoakInv' /\ UnreadInv'
  BY SoakStep, UnreadStep
<1>3. BatchInv /\ SoakInv /\ UnreadInv /\ [Next]_vars => [Promotion!Next]_Promotion!promotionVars
  BY BatchStepRefines
<1>. QED
  BY <1>1, <1>2, <1>3, BatchInductive, PTL DEF Spec, ImplementsPromotion, Promotion!Spec
=============================================================================
