------------------------------ MODULE AlertProofs ------------------------------
(***************************************************************************)
(* The safety of AlertDelivery for every set of checks and pins, every     *)
(* page size, number of attempts and number of faults.  The inductive      *)
(* invariant ties what a run has concluded about an event to what its      *)
(* reports measured and to the issues that were open while it ran, and     *)
(* says why the issues of an event about to be created could not be seen.  *)
(***************************************************************************)
EXTENDS AlertDelivery, TLAPS

-----------------------------------------------------------------------------
(* The inductive invariant.                                                *)

\* What the run concluded about each event agrees with what was measured, and
\* what it believes open, updated or not, was open while it ran.
VerdictInv ==
    \A e \in Events :
        /\ delivery[e] \in {"none", "RESOLVED", "REJECTED"} => e \notin Routed(measured)
        /\ delivery[e] \in {"DELIVERED", "ALREADY_FAILED"} => e \in alive
        /\ pc = "idle" => delivery[e] # "todo"
        /\ pc = "list" => delivery[e] \in {"none", "todo"}

\* Every open issue was open during this run, and so was what the run knows.
AliveInv == /\ \A i \in DOMAIN issues : issues[i].event \in alive
            /\ known \subseteq alive
            /\ pc \in {"idle", "list"} => known = {}

\* A create in flight was a fault; the event being created is neither done nor known.
CreateInv == /\ \A e \in Events : inflight[e] <= faults
             /\ pc \in {"create", "reconcile"} => current.event \in Todo \ known

\* The run has looked for every event it may still create: an issue it did not
\* find landed late or lies beyond the page, save for the one it looks for now.
Accounted(e) == \A i \in DOMAIN issues : issues[i].event = e => issues[i].late \/ e \in beyond
LookedInv ==
    pc \in {"deliver", "create", "reconcile"} =>
        \A e \in Todo \ known : Accounted(e) \/ (pc = "reconcile" /\ e = current.event)

AlertInv == /\ TypeOK /\ VerdictInv /\ AliveInv /\ CreateInv /\ LookedInv
            /\ DuplicateIsExplained

-----------------------------------------------------------------------------
(* The list of issues.                                                     *)

\* What is left of the list after a step that creates nothing: each issue was
\* there before, in the same order.
Shrinks ==
    \E was \in [DOMAIN issues' -> DOMAIN issues] :
        /\ \A i, j \in DOMAIN issues' : i < j => was[i] < was[j]
        /\ \A i \in DOMAIN issues' :
              /\ issues'[i].event = issues[was[i]].event
              /\ issues'[i].late = issues[was[i]].late
              /\ issues'[i].beyond = issues[was[i]].beyond

\* A create adds one issue at the end.
LEMMA CreatedAppends ==
    ASSUME issues \in Seq(Issue), beyond \subseteq Events, NEW e \in Events, NEW late \in BOOLEAN,
           Created(e, late)
    PROVE  /\ issues' \in Seq(Issue)
           /\ DOMAIN issues' = 1..(Len(issues) + 1) /\ DOMAIN issues = 1..Len(issues) /\ Len(issues) \in Nat
           /\ \A i \in DOMAIN issues : issues'[i] = issues[i]
           /\ issues'[Len(issues) + 1] =
                  [event |-> e, late |-> late, beyond |-> ~late /\ e \in beyond, found |-> FALSE]
<1>. DEFINE new == [event |-> e, late |-> late, beyond |-> ~late /\ e \in beyond, found |-> FALSE]
<1>1. new \in Issue
  BY DEF Issue
<1>2. issues' = Append(issues, new)
  BY DEF Created
<1>. HIDE DEF new
<1>3. /\ issues' \in Seq(Issue) /\ Len(issues) \in Nat /\ DOMAIN issues = 1..Len(issues)
      /\ DOMAIN issues' = 1..(Len(issues) + 1)
      /\ \A i \in DOMAIN issues : issues'[i] = issues[i]
      /\ issues'[Len(issues) + 1] = new
  BY <1>1, <1>2
<1>. QED BY <1>3 DEF new

\* Closing an issue takes it out of the list.
LEMMA ClosedShrinks ==
    ASSUME issues \in Seq(Issue), NEW i \in DOMAIN issues, Closed(i)
    PROVE  issues' \in Seq(Issue) /\ Shrinks
<1>. DEFINE n == Len(issues)
            was == [k \in 1..(n - 1) |-> IF k < i THEN k ELSE k + 1]
<1>1. n \in Nat /\ DOMAIN issues = 1..n /\ i \in 1..n /\ n # 0
  OBVIOUS
<1>2. issues' = [k \in 1..(n - 1) |-> issues[was[k]]]
  BY DEF Closed
<1>3. was \in [1..(n - 1) -> 1..n]
  BY <1>1
<1>4. \A j, k \in 1..(n - 1) : j < k => was[j] < was[k]
  BY <1>1
<1>. HIDE DEF n, was
<1>5. \A k \in 1..n : issues[k] \in Issue
  BY <1>1
<1>6. issues' \in [1..(n - 1) -> Issue]
  BY <1>2, <1>3, <1>5
<1>7. issues' \in Seq(Issue)
  <2>1. n - 1 \in Nat
    BY <1>1
  <2>. QED BY <1>6, <2>1
<1>8. DOMAIN issues' = 1..(n - 1)
  BY <1>2
<1>9. was \in [DOMAIN issues' -> DOMAIN issues]
  BY <1>1, <1>3, <1>8
<1>10. \A k \in DOMAIN issues' : issues'[k] = issues[was[k]]
  BY <1>2, <1>8
<1>. QED BY <1>4, <1>7, <1>8, <1>9, <1>10 DEF Shrinks

\* Marking the issues of a page leaves the rest of them as it was.
LEMMA MarkedShrinks ==
    ASSUME issues \in Seq(Issue), NEW page, Marked(page)
    PROVE  issues' \in Seq(Issue) /\ Shrinks
<1>1. /\ Len(issues) \in Nat /\ DOMAIN issues = 1..Len(issues)
      /\ issues' = [i \in 1..Len(issues) |-> [issues[i] EXCEPT !.found = i \in page]]
  BY DEF Marked
<1>2. ASSUME NEW i \in 1..Len(issues)
      PROVE  /\ issues'[i] \in Issue /\ issues'[i].event = issues[i].event
             /\ issues'[i].late = issues[i].late /\ issues'[i].beyond = issues[i].beyond
  <2>1. issues[i] \in Issue /\ (i \in page) \in BOOLEAN
    BY <1>1
  <2>2. issues'[i] = [issues[i] EXCEPT !.found = i \in page]
    BY <1>1
  <2>. QED BY <2>1, <2>2 DEF Issue
<1>3. issues' \in [1..Len(issues) -> Issue] /\ DOMAIN issues' = 1..Len(issues)
  BY <1>1, <1>2
<1>4. issues' \in Seq(Issue)
  BY <1>1, <1>3
<1>5. Shrinks
  <2>. DEFINE was == [i \in DOMAIN issues' |-> i]
  <2>1. was \in [DOMAIN issues' -> DOMAIN issues] /\ \A i \in DOMAIN issues' : was[i] = i
    BY <1>1, <1>3
  <2>. HIDE DEF was
  <2>. QED BY <1>2, <1>3, <2>1 DEF Shrinks
<1>. QED BY <1>4, <1>5

\* A step that does not touch the list.
LEMMA UnchangedShrinks ==
    ASSUME issues' = issues PROVE Shrinks
<1>. DEFINE was == [i \in DOMAIN issues' |-> i]
<1>1. was \in [DOMAIN issues' -> DOMAIN issues] /\ \A i \in DOMAIN issues' : was[i] = i
  OBVIOUS
<1>. HIDE DEF was
<1>. QED BY <1>1 DEF Shrinks

\* Every step creates one issue or none.
Creates(e) == \/ LateCreate(e) \/ CreateAccepted(e)
              \/ CreateAmbiguous(e) /\ Created(e, FALSE)

LEMMA IssuesStep ==
    ASSUME TypeOK, [Next]_vars
    PROVE  /\ issues' \in Seq(Issue)
           /\ Shrinks \/ \E e \in Events : Creates(e)
<1>0. issues \in Seq(Issue) /\ beyond \subseteq Events
  BY DEF TypeOK
<1>1. ASSUME NEW e \in Events, Creates(e) PROVE issues' \in Seq(Issue)
  <2>1. \E late \in BOOLEAN : Created(e, late)
    BY <1>1 DEF Creates, LateCreate, CreateAccepted
  <2>. QED BY <1>0, <2>1, CreatedAppends
<1>2. ASSUME issues' = issues PROVE issues' \in Seq(Issue) /\ Shrinks
  BY <1>0, <1>2, UnchangedShrinks
<1>3. ASSUME NEW page, Marked(page) PROVE issues' \in Seq(Issue) /\ Shrinks
  BY <1>0, <1>3, MarkedShrinks
<1>4. ASSUME NEW i \in DOMAIN issues, Closed(i) PROVE issues' \in Seq(Issue) /\ Shrinks
  BY <1>0, <1>4, ClosedShrinks
<1>5. ASSUME ListFails \/ Report \/ Die PROVE Marked({})
  BY <1>5 DEF ListFails, Report, Die, Ends
<1>6. ASSUME List PROVE Marked(Visible)
  BY <1>6 DEF List
<1>7. ASSUME NEW e \in Events, Resolve(e)
      PROVE  issues' = issues \/ \E i \in DOMAIN issues : Closed(i)
  BY <1>7 DEF Resolve, ClosedAsRecorded, Recorded
<1>8. ASSUME PersonReconciles \/ \E i \in DOMAIN issues : PersonCloses(i)
      PROVE  \E i \in DOMAIN issues : Closed(i)
  BY <1>8 DEF PersonReconciles, PersonCloses, Visible
<1>9. ASSUME NEW e \in Events, CreateAmbiguous(e), ~Created(e, FALSE) PROVE issues' = issues
  BY <1>9 DEF CreateAmbiguous, Untouched
<1>10. ASSUME \/ HealthRun \/ Reconcile \/ ReconcileFails \/ WorldChanges \/ UNCHANGED vars
              \/ \E e \in Events : Update(e) \/ CreateRefused(e)
       PROVE  issues' = issues
  BY <1>10 DEF HealthRun, Reconcile, ReconcileFails, WorldChanges, vars, Update, CreateRefused, tracker
<1>. QED
  BY <1>1, <1>2, <1>3, <1>4, <1>5, <1>6, <1>7, <1>8, <1>9, <1>10 DEF Next, Cycle, Creates

-----------------------------------------------------------------------------
(* Types.                                                                  *)

\* The identities of the events, and what a report may hold.
LEMMA EventsAreNamed ==
    /\ NoEvent \notin Events /\ Events # {}
    /\ \A c \in Checks : CheckEvent(c) \in Events
    /\ \A p \in Pins : Unavailable(p) \in Events /\ Unverified(p) \in Events
    /\ Truncation \in Events /\ HealthMissing \in Events /\ PinsMissing \in Events
BY DEF Events, NoEvent, CheckEvent, Truncation, Unavailable, Unverified, HealthMissing, PinsMissing

Statuses == {"none", "todo", "DELIVERED", "ALREADY_FAILED", "FAILED", "RESOLVED", "REJECTED"}
Attempts == [event : Events \cup {NoEvent}, attempt : 0..MaxAttempts, retry : BOOLEAN]

\* A retry, or giving up, keeps the types of the cursor and of the verdicts.
LEMMA RetryTypes ==
    ASSUME NEW e \in Events, NEW attempt \in 0..MaxAttempts, NEW retryable \in BOOLEAN,
           delivery \in [Events -> Statuses], RetryOrGiveUp(e, attempt, retryable)
    PROVE  /\ current' \in Attempts /\ delivery' \in [Events -> Statuses]
           /\ \/ pc' = "create" /\ current'.event = e /\ delivery' = delivery
              \/ /\ pc' = "deliver" /\ current' = Idle
                 /\ delivery' = [delivery EXCEPT ![e] = "FAILED"]
<1>1. CASE retryable /\ attempt < MaxAttempts
  <2>1. /\ current' = [event |-> e, attempt |-> attempt + 1, retry |-> FALSE]
        /\ pc' = "create" /\ delivery' = delivery
    BY <1>1 DEF RetryOrGiveUp
  <2>2. attempt + 1 \in 0..MaxAttempts
    BY <1>1, BoundAssumption
  <2>. QED BY <2>1, <2>2 DEF Attempts
<1>2. CASE ~(retryable /\ attempt < MaxAttempts)
  <2>1. /\ delivery' = [delivery EXCEPT ![e] = "FAILED"] /\ pc' = "deliver" /\ current' = Idle
    BY <1>2 DEF RetryOrGiveUp, Settled
  <2>2. Idle \in Attempts
    BY BoundAssumption DEF Idle, Attempts
  <2>3. delivery' \in [Events -> Statuses]
    BY <2>1 DEF Statuses
  <2>. QED BY <2>1, <2>2, <2>3
<1>. QED BY <1>1, <1>2

\* The types of everything but the list of issues.
Rest == /\ broken \subseteq Checks /\ gone \subseteq Pins
        /\ measured \in [broken : SUBSET Checks, gone : SUBSET Pins, unseen : SUBSET Frameworks,
                         unknown : SUBSET Pins, healthLost : BOOLEAN, pinsLost : BOOLEAN]
Sets == known \subseteq Events /\ alive \subseteq Events /\ beyond \subseteq Events
Cursor == /\ pc \in {"idle", "list", "deliver", "create", "reconcile"}
          /\ current \in Attempts
          /\ pc \in {"create", "reconcile"} <=> current.event # NoEvent
Counters == faults \in 0..MaxFaults /\ changes \in 0..MaxChanges /\ inflight \in [Events -> 0..MaxFaults]
Verdicts == delivery \in [Events -> Statuses]

LEMMA TypeParts ==
    TypeOK <=> Rest /\ Sets /\ Cursor /\ Counters /\ Verdicts /\ issues \in Seq(Issue)
BY DEF TypeOK, Attempts, Statuses, Rest, Sets, Cursor, Counters, Verdicts

\* The verdict about one event, or about all that were to do.
LEMMA SettledTypes ==
    ASSUME delivery \in [Events -> Statuses]
    PROVE  /\ \A e \in Events, st \in Statuses : Settled(e, st) => delivery' \in [Events -> Statuses]
           /\ \A st \in Statuses : [e \in Events |-> IF e \in Todo THEN "FAILED" ELSE st] \in [Events -> Statuses]
BY DEF Settled, Statuses

\* Every step keeps the types.
LEMMA TypeStep == TypeOK /\ CreateInv /\ [Next]_vars => TypeOK'
<1>. SUFFICES ASSUME TypeOK, CreateInv, [Next]_vars
              PROVE  Rest' /\ Sets' /\ Cursor' /\ Counters' /\ Verdicts'
  <2>1. TypeOK' <=> Rest' /\ Sets' /\ Cursor' /\ Counters' /\ Verdicts' /\ issues' \in Seq(Issue)
    BY DEF TypeOK, Attempts, Statuses, Rest, Sets, Cursor, Counters, Verdicts
  <2>. QED BY <2>1, IssuesStep
<1>0. /\ Rest /\ Sets /\ Cursor /\ Counters /\ Verdicts
      /\ \A i \in DOMAIN issues : issues[i].event \in Events
  <2>1. \A i \in DOMAIN issues : issues[i] \in Issue
    BY DEF TypeOK
  <2>. QED BY <2>1, TypeParts DEF Issue
<1>i. Idle \in Attempts /\ Idle.event = NoEvent
  BY BoundAssumption DEF Idle, Attempts
<1>s. VisibleEvents \subseteq OpenEvents /\ OpenEvents \subseteq Events
  BY <1>0 DEF VisibleEvents, OpenEvents, Visible
<1>1. CASE HealthRun
  <2>1. Rest' /\ Sets'
    BY <1>0, <1>1, <1>s DEF HealthRun, world, Rest, Sets
  <2>2. Cursor'
    BY <1>0, <1>1 DEF HealthRun, Cursor
  <2>3. Counters'
    BY <1>0, <1>1, BoundAssumption DEF HealthRun, tracker, Counters, Spend, Free
  <2>4. Verdicts'
    BY <1>0, <1>1 DEF HealthRun, Statuses, Verdicts
  <2>. QED BY <2>1, <2>2, <2>3, <2>4
<1>2. CASE ListFails
  <2>1. Rest' /\ Sets'
    BY <1>0, <1>2 DEF ListFails, Ends, world, Rest, Sets
  <2>2. Cursor'
    BY <1>0, <1>2, <1>i DEF ListFails, Ends, Cursor
  <2>3. Counters'
    BY <1>0, <1>2, BoundAssumption DEF ListFails, Counters, Spend, Free
  <2>4. Verdicts'
    BY <1>0, <1>2, SettledTypes DEF ListFails, Statuses, Verdicts
  <2>. QED BY <2>1, <2>2, <2>3, <2>4
<1>3. CASE List
  <2>1. Rest' /\ Sets'
    BY <1>0, <1>3, <1>s DEF List, world, Rest, Sets
  <2>2. Cursor'
    BY <1>0, <1>3 DEF List, Cursor
  <2>3. Counters'
    BY <1>0, <1>3 DEF List, Counters, Spend, Free
  <2>4. Verdicts'
    BY <1>0, <1>3 DEF List, Verdicts
  <2>. QED BY <2>1, <2>2, <2>3, <2>4
<1>4. ASSUME NEW e \in Events, Update(e) PROVE Rest' /\ Sets' /\ Cursor' /\ Counters' /\ Verdicts'
  <2>1. Rest' /\ Sets'
    BY <1>0, <1>4 DEF Update, world, Rest, Sets
  <2>2. Cursor'
    BY <1>0, <1>4 DEF Update, Cursor
  <2>3. Counters'
    BY <1>0, <1>4, BoundAssumption DEF Update, tracker, Counters, Spend, Free
  <2>4. Verdicts'
    BY <1>0, <1>4, SettledTypes DEF Update, Statuses, Verdicts
  <2>. QED BY <2>1, <2>2, <2>3, <2>4
<1>5. ASSUME NEW e \in Events, CreateAccepted(e) PROVE Rest' /\ Sets' /\ Cursor' /\ Counters' /\ Verdicts'
  <2>1. Rest' /\ Sets'
    BY <1>0, <1>5 DEF CreateAccepted, Created, world, Rest, Sets
  <2>2. Cursor'
    BY <1>0, <1>5, <1>i DEF CreateAccepted, Cursor
  <2>3. Counters'
    BY <1>0, <1>5 DEF CreateAccepted, Counters, Spend, Free
  <2>4. Verdicts'
    BY <1>0, <1>5, SettledTypes DEF CreateAccepted, Statuses, Verdicts
  <2>. QED BY <2>1, <2>2, <2>3, <2>4
<1>6. ASSUME NEW e \in Events, NEW attempt \in 0..MaxAttempts, NEW retryable \in BOOLEAN,
             RetryOrGiveUp(e, attempt, retryable)
      PROVE  Cursor' /\ Verdicts'
  <2>1. e # NoEvent
    BY EventsAreNamed
  <2>. QED BY <1>0, <1>i, <1>6, <2>1, RetryTypes DEF Cursor, Verdicts
<1>a. Attempt \in 0..MaxAttempts
  BY <1>0, BoundAssumption DEF Attempt, Cursor, Attempts
<1>7. ASSUME NEW e \in Events, CreateRefused(e) PROVE Rest' /\ Sets' /\ Cursor' /\ Counters' /\ Verdicts'
  <2>1. Rest' /\ Sets' /\ Counters'
    BY <1>0, <1>7, BoundAssumption DEF CreateRefused, Rest, Sets, Counters, Spend, world, tracker
  <2>. QED BY <1>6, <1>7, <1>a, <2>1 DEF CreateRefused
<1>8. ASSUME NEW e \in Events, CreateAmbiguous(e) PROVE Rest' /\ Sets' /\ Cursor' /\ Counters' /\ Verdicts'
  <2>1. Rest' /\ Sets'
    BY <1>0, <1>8 DEF CreateAmbiguous, Created, Untouched, Rest, Sets, world
  <2>2. Cursor'
    BY <1>0, <1>8, <1>a, EventsAreNamed DEF CreateAmbiguous, Cursor, Attempts
  <2>3. Counters' /\ Verdicts'
    <3>1. /\ faults' = faults + 1 /\ faults < MaxFaults /\ changes' = changes /\ delivery' = delivery
          /\ inflight' = inflight \/ inflight' = [inflight EXCEPT ![e] = @ + 1]
      BY <1>8 DEF CreateAmbiguous, Spend
    <3>. QED BY <1>0, <3>1, BoundAssumption DEF Counters, Verdicts, CreateInv
  <2>. QED BY <2>1, <2>2, <2>3
<1>9. CASE Reconcile
  <2>0. current.event \in Events /\ current.attempt \in 0..MaxAttempts /\ current.retry \in BOOLEAN
    BY <1>0, <1>9 DEF Reconcile, CreateInv, Todo, Cursor, Attempts
  <2>1. Rest' /\ Sets' /\ Counters'
    BY <1>0, <1>s, <1>9 DEF Reconcile, Rest, Sets, Counters, Free, world, tracker
  <2>2. CASE current.event \in VisibleEvents
    <3>1. Settled(current.event, "DELIVERED") /\ pc' = "deliver" /\ current' = Idle
      BY <1>9, <2>2 DEF Reconcile
    <3>2. Cursor'
      BY <1>i, <3>1 DEF Cursor
    <3>3. Verdicts'
      BY <1>0, <2>0, <3>1, SettledTypes DEF Verdicts, Statuses
    <3>. QED BY <2>1, <3>2, <3>3
  <2>3. CASE current.event \notin VisibleEvents
    BY <1>6, <1>9, <2>0, <2>1, <2>3 DEF Reconcile
  <2>. QED BY <2>2, <2>3
<1>10. CASE ReconcileFails
  <2>0. current.event \in Events
    BY <1>10 DEF ReconcileFails, CreateInv, Todo
  <2>1. Rest' /\ Sets' /\ Counters'
    BY <1>0, <1>10, BoundAssumption DEF ReconcileFails, Rest, Sets, Counters, Free, Spend, world, tracker
  <2>2. Cursor'
    BY <1>i, <1>10 DEF ReconcileFails, Cursor
  <2>3. Verdicts'
    BY <1>0, <1>10, <2>0, SettledTypes DEF ReconcileFails, Verdicts, Statuses
  <2>. QED BY <2>1, <2>2, <2>3
<1>11. ASSUME NEW e \in Events, Resolve(e) PROVE Rest' /\ Sets' /\ Cursor' /\ Counters' /\ Verdicts'
  <2>1. Rest' /\ Sets'
    BY <1>0, <1>11 DEF Resolve, world, Rest, Sets
  <2>2. Cursor'
    BY <1>0, <1>11 DEF Resolve, Cursor
  <2>3. Counters'
    BY <1>0, <1>11, BoundAssumption DEF Resolve, Counters, Spend, Free
  <2>4. Verdicts'
    BY <1>0, <1>11, SettledTypes DEF Resolve, Statuses, Verdicts
  <2>. QED BY <2>1, <2>2, <2>3, <2>4
<1>12. CASE Report
  <2>1. Rest' /\ Sets'
    BY <1>0, <1>12 DEF Report, Ends, world, Rest, Sets
  <2>2. Cursor'
    BY <1>0, <1>12, <1>i DEF Report, Ends, Cursor
  <2>3. Counters'
    BY <1>0, <1>12 DEF Report, Counters, Spend, Free
  <2>4. Verdicts'
    BY <1>0, <1>12 DEF Report, Verdicts
  <2>. QED BY <2>1, <2>2, <2>3, <2>4
<1>13. CASE Die
  <2>1. Rest' /\ Sets'
    BY <1>0, <1>13 DEF Die, Ends, world, Rest, Sets
  <2>2. Cursor'
    BY <1>0, <1>13, <1>i DEF Die, Ends, Cursor
  <2>3. Counters'
    BY <1>0, <1>13, BoundAssumption DEF Die, Counters, Spend, Free
  <2>4. Verdicts'
    BY <1>0, <1>13 DEF Die, Statuses, Verdicts
  <2>. QED BY <2>1, <2>2, <2>3, <2>4
<1>14. CASE WorldChanges \/ PersonReconciles \/ \E i \in DOMAIN issues : PersonCloses(i)
  <2>1. Rest' /\ Sets'
    BY <1>0, <1>14 DEF WorldChanges, PersonReconciles, PersonCloses, Rest, Sets, world
  <2>2. Cursor' /\ Verdicts'
    BY <1>0, <1>14 DEF WorldChanges, PersonReconciles, PersonCloses, Cursor, Verdicts
  <2>3. Counters'
    BY <1>0, <1>14, BoundAssumption DEF WorldChanges, PersonReconciles, PersonCloses, Change, Counters, tracker
  <2>. QED BY <2>1, <2>2, <2>3
<1>15. ASSUME NEW e \in Events, LateCreate(e) PROVE Rest' /\ Sets' /\ Cursor' /\ Counters' /\ Verdicts'
  <2>1. Rest' /\ Sets'
    BY <1>0, <1>15 DEF LateCreate, Created, Rest, Sets, world
  <2>2. Cursor' /\ Verdicts'
    BY <1>0, <1>15 DEF LateCreate, Cursor, Verdicts
  <2>3. Counters'
    BY <1>0, <1>15, BoundAssumption DEF LateCreate, Counters
  <2>. QED BY <2>1, <2>2, <2>3
<1>16. CASE UNCHANGED vars
  BY <1>0, <1>16 DEF vars, Rest, Sets, Cursor, Counters, Verdicts
<1>. QED
  BY <1>1, <1>2, <1>3, <1>4, <1>5, <1>7, <1>8, <1>9, <1>10, <1>11, <1>12, <1>13, <1>14, <1>15, <1>16
     DEF Next, Cycle

-----------------------------------------------------------------------------
(* What a run concludes.                                                   *)

\* A step of a run moves verdicts, and its measurements stay.
LEMMA VerdictStays ==
    ASSUME VerdictInv, measured' = measured, alive \subseteq alive',
           \A e \in Events :
               /\ delivery'[e] \in {"none", "RESOLVED", "REJECTED"} =>
                      delivery[e] \in {"none", "RESOLVED", "REJECTED"}
               /\ delivery'[e] \in {"DELIVERED", "ALREADY_FAILED"} =>
                      delivery[e] \in {"DELIVERED", "ALREADY_FAILED"} \/ e \in alive'
               /\ pc' = "idle" => delivery'[e] # "todo"
               /\ pc' = "list" => pc = "list" /\ delivery'[e] = delivery[e]
    PROVE  VerdictInv'
BY DEF VerdictInv, Routed, Findings

\* The step lemma of VerdictInv.
LEMMA VerdictStep == AlertInv /\ [Next]_vars => VerdictInv'
<1>. SUFFICES ASSUME AlertInv, [Next]_vars PROVE VerdictInv'
  OBVIOUS
<1>0. /\ VerdictInv /\ AliveInv /\ delivery \in [Events -> Statuses]
      /\ pc \in {"create", "reconcile"} => current.event \in Todo \ known
      /\ VisibleEvents \subseteq alive
  BY DEF AlertInv, CreateInv, TypeOK, Statuses, AliveInv, VisibleEvents, Visible
<1>1. CASE HealthRun
  <2>1. /\ pc' = "list"
        /\ delivery' = [e \in Events |-> IF e \in Routed(measured') THEN "todo" ELSE "none"]
    BY <1>1 DEF HealthRun
  <2>. HIDE DEF Routed
  <2>. QED BY <2>1 DEF VerdictInv
<1>2. ASSUME NEW e \in Events, e \in Todo, NEW st, Settled(e, st),
             st = "FAILED" \/ (st \in {"DELIVERED", "ALREADY_FAILED"} /\ e \in alive'),
             measured' = measured, alive \subseteq alive', pc' \notin {"idle", "list"}
      PROVE  VerdictInv'
  <2>1. \A f \in Events : delivery'[f] = IF f = e THEN st ELSE delivery[f]
    BY <1>0, <1>2 DEF Settled
  <2>. QED BY <1>0, <1>2, <2>1, VerdictStays
<1>3. ASSUME delivery' = delivery, measured' = measured, alive \subseteq alive',
             pc' = "idle" => pc = "idle" \/ Todo = {}, pc' = "list" => pc = "list"
      PROVE  VerdictInv'
  BY <1>0, <1>3, VerdictStays DEF Todo, VerdictInv
<1>4. ASSUME NEW e \in Events, Update(e) PROVE VerdictInv'
  BY <1>0, <1>2, <1>4 DEF Update, AliveInv
<1>5. ASSUME NEW e \in Events, CreateAccepted(e) PROVE VerdictInv'
  <2>1. e \in Todo
    BY <1>0, <1>5 DEF CreateAccepted, Attempting
  <2>. QED BY <1>2, <1>5, <2>1 DEF CreateAccepted, Created
<1>6. ASSUME NEW e \in Events, e \in Todo, NEW attempt, NEW retryable,
             RetryOrGiveUp(e, attempt, retryable), measured' = measured, alive' = alive
      PROVE  VerdictInv'
  BY <1>2, <1>3, <1>6 DEF RetryOrGiveUp
<1>7. ASSUME NEW e \in Events, CreateRefused(e) PROVE VerdictInv'
  <2>1. e \in Todo
    BY <1>0, <1>7 DEF CreateRefused, Attempting
  <2>. QED BY <1>6, <1>7, <2>1 DEF CreateRefused
<1>8. ASSUME NEW e \in Events, CreateAmbiguous(e) PROVE VerdictInv'
  BY <1>3, <1>8 DEF CreateAmbiguous, Created, Untouched
<1>9. CASE Reconcile
  <2>1. current.event \in Todo /\ current.event \in Events
    BY <1>0, <1>9 DEF Reconcile, Todo
  <2>2. CASE current.event \in VisibleEvents
    BY <1>0, <1>2, <1>9, <2>1, <2>2 DEF Reconcile
  <2>3. CASE current.event \notin VisibleEvents
    BY <1>6, <1>9, <2>1, <2>3 DEF Reconcile
  <2>. QED BY <2>2, <2>3
<1>10. CASE ReconcileFails
  BY <1>0, <1>2, <1>10 DEF ReconcileFails, Todo
<1>11. ASSUME NEW e \in Events, Resolve(e) PROVE VerdictInv'
  <2>1. /\ delivery[e] = "none" /\ measured' = measured /\ alive' = alive /\ pc' \notin {"idle", "list"}
        /\ \E st \in {"RESOLVED", "REJECTED"} : Settled(e, st)
    BY <1>11 DEF Resolve, Stale
  <2>2. \A f \in Events : /\ f # e => delivery'[f] = delivery[f]
                          /\ delivery'[e] \in {"RESOLVED", "REJECTED"}
    BY <1>0, <2>1 DEF Settled
  <2>. QED BY <1>0, <2>1, <2>2, VerdictStays
<1>12. CASE ListFails \/ Die
  <2>1. measured' = measured /\ alive' = alive /\ pc' = "idle"
    BY <1>12 DEF ListFails, Die, Ends
  <2>2. CASE ListFails
    <3>1. /\ pc = "list" /\ \A e \in Events : delivery'[e] = IF e \in Todo THEN "FAILED" ELSE "none"
      BY <2>2 DEF ListFails
    <3>2. \A e \in Events : delivery[e] = "none" \/ e \in Todo
      BY <1>0, <3>1 DEF VerdictInv, Todo
    <3>3. \A e \in Events : \/ delivery'[e] = "FAILED"
                            \/ delivery'[e] = "none" /\ delivery[e] = "none"
      BY <3>1, <3>2
    <3>. QED BY <1>0, <2>1, <3>3, VerdictStays
  <2>3. CASE Die
    <3>1. \A e \in Events : delivery'[e] = IF delivery[e] = "none" THEN "none" ELSE "FAILED"
      BY <2>3 DEF Die
    <3>. QED BY <1>0, <2>1, <3>1, VerdictStays
  <2>. QED BY <1>12, <2>2, <2>3
<1>13. ASSUME \/ List \/ Report \/ WorldChanges \/ PersonReconciles \/ UNCHANGED vars
              \/ \E i \in DOMAIN issues : PersonCloses(i)
              \/ \E e \in Events : LateCreate(e)
       PROVE  VerdictInv'
  BY <1>3, <1>13
     DEF List, Report, Ends, WorldChanges, PersonReconciles, vars, PersonCloses, LateCreate, Created
<1>. QED
  BY <1>1, <1>4, <1>5, <1>7, <1>8, <1>9, <1>10, <1>11, <1>12, <1>13 DEF Next, Cycle

-----------------------------------------------------------------------------
(* The issues of a run, and the event it is creating.                      *)

\* The step lemma of AliveInv.
LEMMA AliveStep == AlertInv /\ [Next]_vars => AliveInv'
<1>. SUFFICES ASSUME AlertInv, [Next]_vars PROVE AliveInv'
  OBVIOUS
<1>0. TypeOK /\ AliveInv
  BY DEF AlertInv
<1>1. CASE HealthRun
  BY <1>0, <1>1 DEF HealthRun, AliveInv, OpenEvents, tracker
<1>2. ASSUME Shrinks, alive' = alive, known' \subseteq known \cup VisibleEvents,
             pc' \in {"idle", "list"} => known' = {}
      PROVE  AliveInv'
  <2>1. VisibleEvents \subseteq alive
    BY <1>0 DEF AliveInv, VisibleEvents, Visible
  <2>. QED BY <1>0, <1>2, <2>1 DEF AliveInv, Shrinks
<1>3. ASSUME NEW e \in Events, Creates(e) PROVE AliveInv'
  <2>1. PICK late \in BOOLEAN : Created(e, late)
    BY <1>3 DEF Creates, LateCreate, CreateAccepted
  <2>2. issues \in Seq(Issue) /\ beyond \subseteq Events
    BY <1>0 DEF TypeOK
  <2>3. /\ \A i \in DOMAIN issues' : i \in DOMAIN issues \/ i = Len(issues) + 1
        /\ \A i \in DOMAIN issues : issues'[i] = issues[i]
        /\ issues'[Len(issues) + 1].event = e
    <3>1. /\ DOMAIN issues' = 1..(Len(issues) + 1) /\ DOMAIN issues = 1..Len(issues) /\ Len(issues) \in Nat
          /\ \A i \in DOMAIN issues : issues'[i] = issues[i]
          /\ issues'[Len(issues) + 1] =
                 [event |-> e, late |-> late, beyond |-> ~late /\ e \in beyond, found |-> FALSE]
      BY <2>1, <2>2, CreatedAppends
    <3>. QED BY <3>1
  <2>4. alive' = alive \cup {e} /\ known' = known /\ (pc' = pc \/ pc' \in {"deliver", "reconcile"})
    BY <1>3, <2>1 DEF Created, Creates, LateCreate, CreateAccepted, CreateAmbiguous
  <2>. QED BY <1>0, <2>3, <2>4 DEF AliveInv
<1>4. Shrinks \/ \E e \in Events : Creates(e)
  BY <1>0, IssuesStep
<1>5. ASSUME NEW e \in Events, CreateAccepted(e) \/ CreateAmbiguous(e) \/ LateCreate(e), ~Creates(e)
      PROVE  alive' = alive /\ known' = known /\ pc' = "reconcile"
  BY <1>5 DEF Creates, CreateAmbiguous, Untouched
<1>6. ASSUME \/ ListFails \/ Report \/ Die
      PROVE  alive' = alive /\ known' = {}
  BY <1>6 DEF ListFails, Report, Die, Ends
<1>7. ASSUME List PROVE alive' = alive /\ known' = VisibleEvents /\ pc' = "deliver"
  BY <1>7 DEF List
<1>8. ASSUME \/ Reconcile \/ ReconcileFails \/ WorldChanges \/ PersonReconciles \/ UNCHANGED vars
             \/ \E i \in DOMAIN issues : PersonCloses(i)
             \/ \E e \in Events : Update(e) \/ CreateRefused(e) \/ Resolve(e)
      PROVE  alive' = alive /\ known' = known /\ (pc' = pc \/ pc' \in {"deliver", "create"})
  BY <1>8 DEF Reconcile, ReconcileFails, WorldChanges, PersonReconciles, vars, PersonCloses, Update,
              CreateRefused, Resolve, RetryOrGiveUp
<1>9. CASE \E e \in Events : Creates(e)
  BY <1>3, <1>9
<1>10. CASE Shrinks /\ ~\E e \in Events : Creates(e)
  <2>1. ASSUME alive' = alive, known' = known, pc' = pc \/ pc' \in {"deliver", "create", "reconcile"}
        PROVE  AliveInv'
    BY <1>0, <1>2, <1>10, <2>1 DEF AliveInv
  <2>. QED BY <1>1, <1>2, <1>5, <1>6, <1>7, <1>8, <1>10, <2>1 DEF Next, Cycle
<1>. QED BY <1>4, <1>9, <1>10

\* The step lemma of CreateInv.
LEMMA CreateStep == AlertInv /\ [Next]_vars => CreateInv'
<1>. SUFFICES ASSUME AlertInv, [Next]_vars PROVE CreateInv'
  OBVIOUS
<1>0. /\ CreateInv /\ faults \in Nat /\ inflight \in [Events -> Nat] /\ delivery \in [Events -> Statuses]
  BY BoundAssumption DEF AlertInv, TypeOK, Statuses
<1>1. ASSUME inflight' = inflight, faults' \in {faults, faults + 1},
             pc' \in {"create", "reconcile"} =>
                 current'.event \in Todo \ known /\ delivery' = delivery /\ known' = known
      PROVE  CreateInv'
  BY <1>0, <1>1 DEF CreateInv, Todo
<1>2. ASSUME NEW e \in Events, CreateRefused(e) PROVE CreateInv'
  <2>1. e \in Todo \ known
    BY <1>0, <1>2 DEF CreateRefused, Attempting, CreateInv
  <2>. QED BY <1>1, <1>2, <2>1 DEF CreateRefused, RetryOrGiveUp, Spend, tracker
<1>3. ASSUME NEW e \in Events, CreateAmbiguous(e) PROVE CreateInv'
  <2>1. e \in Todo \ known
    BY <1>0, <1>3 DEF CreateAmbiguous, Attempting, CreateInv
  <2>2. /\ faults' = faults + 1 /\ current'.event = e /\ delivery' = delivery /\ known' = known
    BY <1>3 DEF CreateAmbiguous, Spend
  <2>3. inflight' = inflight \/ inflight' = [inflight EXCEPT ![e] = @ + 1]
    BY <1>3 DEF CreateAmbiguous
  <2>. QED BY <1>0, <2>1, <2>2, <2>3 DEF CreateInv, Todo
<1>4. CASE Reconcile
  BY <1>0, <1>1, <1>4 DEF Reconcile, RetryOrGiveUp, Free, tracker, CreateInv
<1>5. ASSUME NEW e \in Events, LateCreate(e) PROVE CreateInv'
  <2>1. /\ faults' = faults /\ inflight' = [inflight EXCEPT ![e] = @ - 1]
        /\ UNCHANGED <<pc, current, delivery, known>>
    BY <1>5 DEF LateCreate
  <2>. QED BY <1>0, <2>1 DEF CreateInv, Todo
<1>6. ASSUME \/ HealthRun \/ ListFails \/ List \/ ReconcileFails \/ Report \/ Die
             \/ \E e \in Events : Update(e) \/ CreateAccepted(e) \/ Resolve(e)
      PROVE  /\ inflight' = inflight /\ faults' \in {faults, faults + 1}
             /\ pc' \notin {"create", "reconcile"}
  BY <1>6 DEF HealthRun, ListFails, List, ReconcileFails, Report, Die, Ends, Update, CreateAccepted,
              Resolve, Spend, Free, tracker
<1>7. ASSUME \/ WorldChanges \/ PersonReconciles \/ UNCHANGED vars
             \/ \E i \in DOMAIN issues : PersonCloses(i)
      PROVE  CreateInv'
  <2>1. UNCHANGED <<inflight, faults, pc, current, delivery, known>>
    BY <1>7 DEF WorldChanges, PersonReconciles, vars, PersonCloses, tracker
  <2>. QED BY <1>0, <2>1 DEF CreateInv, Todo
<1>. QED BY <1>1, <1>2, <1>3, <1>4, <1>5, <1>6, <1>7 DEF Next, Cycle

-----------------------------------------------------------------------------
(* What the run has looked for.                                            *)

\* What was accounted for stays so when no issue is created.
LEMMA AccountedKept ==
    ASSUME NEW e, Accounted(e), Shrinks, beyond \subseteq beyond'
    PROVE  Accounted(e)'
BY DEF Accounted, Shrinks

\* A create that is late, or of another event, leaves it accounted for.
LEMMA AccountedBesides ==
    ASSUME TypeOK, NEW f \in Events, NEW late \in BOOLEAN, Created(f, late), beyond' = beyond,
           NEW e, Accounted(e), late \/ e # f
    PROVE  Accounted(e)'
<1>1. /\ DOMAIN issues' = 1..(Len(issues) + 1) /\ DOMAIN issues = 1..Len(issues) /\ Len(issues) \in Nat
      /\ \A i \in DOMAIN issues : issues'[i] = issues[i]
      /\ issues'[Len(issues) + 1] =
             [event |-> f, late |-> late, beyond |-> ~late /\ f \in beyond, found |-> FALSE]
  <2>1. issues \in Seq(Issue) /\ beyond \subseteq Events
    BY DEF TypeOK
  <2>. QED BY <2>1, CreatedAppends
<1>2. \A i \in DOMAIN issues' : i \in DOMAIN issues \/ i = Len(issues) + 1
  BY <1>1
<1>3. issues'[Len(issues) + 1].event = f /\ issues'[Len(issues) + 1].late = late
  BY <1>1
<1>. QED BY <1>1, <1>2, <1>3 DEF Accounted

\* An event whose issues were looked for and not seen has them beyond the page.
LEMMA UnseenIsBeyond ==
    ASSUME NEW e, e \notin VisibleEvents, OpenEvents \ VisibleEvents \subseteq beyond', Shrinks
    PROVE  Accounted(e)'
<1>1. ASSUME NEW i \in DOMAIN issues', issues'[i].event = e PROVE e \in beyond'
  <2>1. e \in OpenEvents
    BY <1>1 DEF Shrinks, OpenEvents
  <2>. QED BY <2>1
<1>. QED BY <1>1 DEF Accounted

\* Only an event the run has looked for is created by the run itself.
LEMMA LookedFor ==
    ASSUME AlertInv, NEW e \in Events, Attempting(e)
    PROVE  Accounted(e) /\ e \in Todo \ known /\ pc \in {"deliver", "create"}
BY DEF AlertInv, CreateInv, LookedInv, Attempting

\* The step lemma of LookedInv.
LEMMA LookedStep == AlertInv /\ [Next]_vars => LookedInv'
<1>. SUFFICES ASSUME AlertInv, [Next]_vars, NEW e \in Events, e \in (Todo \ known)',
                     pc' \in {"deliver", "create", "reconcile"}
              PROVE  Accounted(e)' \/ (pc = "reconcile" /\ e = current.event)'
  BY DEF LookedInv, Todo
<1>0. /\ TypeOK /\ LookedInv /\ CreateInv /\ delivery \in [Events -> Statuses] /\ delivery'[e] = "todo"
      /\ e \notin known'
  BY DEF AlertInv, TypeOK, Statuses, Todo
<1>1. ASSUME Shrinks, beyond' = beyond, e \in Todo \ known, pc \in {"deliver", "create", "reconcile"},
             pc = "reconcile" /\ e = current.event => pc' = "reconcile" /\ current' = current
      PROVE  Accounted(e)' \/ (pc = "reconcile" /\ e = current.event)'
  BY <1>0, <1>1, AccountedKept DEF LookedInv
<1>2. CASE HealthRun \/ ListFails \/ Report \/ Die
  BY <1>2 DEF HealthRun, ListFails, Report, Die, Ends
<1>3. CASE List
  <2>1. Shrinks
    BY <1>0, <1>3, MarkedShrinks DEF List, TypeOK
  <2>2. e \notin VisibleEvents /\ OpenEvents \ VisibleEvents \subseteq beyond'
    BY <1>0, <1>3 DEF List
  <2>. QED BY <2>1, <2>2, UnseenIsBeyond
<1>4. CASE Reconcile
  <2>1. Shrinks
    BY <1>4, UnchangedShrinks DEF Reconcile, tracker
  <2>2. /\ pc = "reconcile" /\ known' = known /\ current.event \in Todo
        /\ beyond' = beyond \cup (OpenEvents \ VisibleEvents)
    BY <1>0, <1>4 DEF Reconcile, CreateInv
  <2>3. /\ e \in Todo
        /\ e = current.event => current.event \notin VisibleEvents
    <3>1. CASE current.event \in VisibleEvents
      BY <1>0, <1>4, <2>2, <3>1 DEF Reconcile, Settled, Todo
    <3>2. CASE current.event \notin VisibleEvents
      BY <1>0, <1>4, <2>2, <3>2 DEF Reconcile, RetryOrGiveUp, Settled, Todo
    <3>. QED BY <3>1, <3>2
  <2>4. CASE e = current.event
    BY <2>1, <2>2, <2>3, <2>4, UnseenIsBeyond
  <2>5. CASE e # current.event
    <3>1. Accounted(e)
      BY <1>0, <2>2, <2>3, <2>5 DEF LookedInv
    <3>. QED BY <2>1, <2>2, <3>1, AccountedKept
  <2>. QED BY <2>4, <2>5
<1>5. ASSUME NEW f \in Events, Creates(f)
      PROVE  Accounted(e)' \/ (pc = "reconcile" /\ e = current.event)'
  <2>1. CASE LateCreate(f)
    <3>1. /\ Created(f, TRUE) /\ UNCHANGED <<pc, current, known, delivery, beyond>>
      BY <2>1 DEF LateCreate
    <3>2. Accounted(e) \/ (pc = "reconcile" /\ e = current.event)
      BY <1>0, <3>1 DEF LookedInv, Todo
    <3>. QED BY <1>0, <3>1, <3>2, AccountedBesides
  <2>2. CASE CreateAccepted(f) \/ (CreateAmbiguous(f) /\ Created(f, FALSE))
    <3>1. /\ Attempting(f) /\ Created(f, FALSE) /\ known' = known /\ beyond' = beyond
      BY <2>2 DEF CreateAccepted, CreateAmbiguous
    <3>2. pc \in {"deliver", "create"}
      BY <3>1, LookedFor
    <3>3. e \in Todo /\ (e = f => (pc = "reconcile" /\ e = current.event)')
      <4>1. CASE CreateAccepted(f)
        <5>1. delivery' = [delivery EXCEPT ![f] = "DELIVERED"]
          BY <4>1 DEF CreateAccepted, Settled
        <5>. QED BY <1>0, <5>1 DEF Todo
      <4>2. CASE CreateAmbiguous(f)
        <5>1. delivery' = delivery /\ pc' = "reconcile" /\ current'.event = f
          BY <4>2 DEF CreateAmbiguous
        <5>. QED BY <1>0, <5>1 DEF Todo
      <4>. QED BY <2>2, <4>1, <4>2
    <3>4. Accounted(e)
      BY <1>0, <3>1, <3>2, <3>3 DEF LookedInv
    <3>. QED BY <1>0, <3>1, <3>3, <3>4, AccountedBesides
  <2>. QED BY <1>5, <2>1, <2>2 DEF Creates
<1>6. ASSUME NEW f \in Events, CreateAmbiguous(f) \/ CreateRefused(f), ~Creates(f)
      PROVE  Accounted(e)' \/ (pc = "reconcile" /\ e = current.event)'
  <2>1. /\ Attempting(f) /\ issues' = issues /\ known' = known /\ beyond' = beyond
    BY <1>6 DEF CreateAmbiguous, CreateRefused, Creates, Untouched, tracker
  <2>2. pc \in {"deliver", "create"}
    BY <2>1, LookedFor
  <2>3. e \in Todo
    BY <1>0, <1>6 DEF CreateAmbiguous, CreateRefused, RetryOrGiveUp, Settled, Todo
  <2>. QED BY <1>0, <1>1, <2>1, <2>2, <2>3, UnchangedShrinks
<1>7. ASSUME NEW f \in Events, Update(f) \/ Resolve(f)
      PROVE  Accounted(e)' \/ (pc = "reconcile" /\ e = current.event)'
  <2>1. pc = "deliver" /\ beyond' = beyond /\ known' = known
    BY <1>7 DEF Update, Resolve
  <2>2. e \in Todo
    BY <1>0, <1>7 DEF Update, Resolve, Settled, Todo
  <2>3. issues' = issues \/ \E i \in DOMAIN issues : Closed(i)
    BY <1>7 DEF Update, Resolve, ClosedAsRecorded, Recorded, tracker
  <2>4. Shrinks
    BY <1>0, <2>3, ClosedShrinks, UnchangedShrinks DEF TypeOK
  <2>. QED BY <1>1, <2>1, <2>2, <2>4, <1>0
<1>8. CASE ReconcileFails
  <2>1. /\ issues' = issues /\ beyond' = beyond /\ known' = known /\ pc = "reconcile"
        /\ current.event \in Todo
        /\ Settled(current.event, "FAILED")
    BY <1>0, <1>8 DEF ReconcileFails, tracker, CreateInv
  <2>2. e \in Todo /\ e # current.event
    BY <1>0, <2>1 DEF Settled, Todo
  <2>. QED BY <1>0, <1>1, <2>1, <2>2, UnchangedShrinks
<1>9. CASE \/ WorldChanges \/ PersonReconciles \/ UNCHANGED vars
           \/ \E i \in DOMAIN issues : PersonCloses(i)
  <2>1. UNCHANGED <<beyond, known, delivery, pc, current>>
    BY <1>9 DEF WorldChanges, PersonReconciles, vars, PersonCloses
  <2>2. Shrinks
    <3>1. issues' = issues \/ \E i \in DOMAIN issues : Closed(i)
      BY <1>9 DEF WorldChanges, PersonReconciles, vars, PersonCloses, Visible, tracker
    <3>. QED BY <1>0, <3>1, ClosedShrinks, UnchangedShrinks DEF TypeOK
  <2>. QED BY <1>0, <1>1, <2>1, <2>2 DEF Todo
<1>. QED
  BY <1>2, <1>3, <1>4, <1>5, <1>6, <1>7, <1>8, <1>9 DEF Next, Cycle, Creates

\* The step lemma of DuplicateIsExplained: a create that is not late is of an
\* event the run has looked for.
LEMMA DuplicateStep == AlertInv /\ [Next]_vars => DuplicateIsExplained'
<1>. SUFFICES ASSUME AlertInv, [Next]_vars PROVE DuplicateIsExplained'
  OBVIOUS
<1>0. TypeOK /\ DuplicateIsExplained
  BY DEF AlertInv
<1>1. CASE Shrinks
  BY <1>0, <1>1 DEF Shrinks, DuplicateIsExplained
<1>2. ASSUME NEW e \in Events, Creates(e) PROVE DuplicateIsExplained'
  <2>1. PICK late \in BOOLEAN : /\ Created(e, late)
                                /\ late \/ (Attempting(e) /\ beyond' = beyond)
    BY <1>2 DEF Creates, LateCreate, CreateAccepted, CreateAmbiguous
  <2>. DEFINE n == Len(issues)
  <2>2. /\ DOMAIN issues' = 1..(n + 1) /\ DOMAIN issues = 1..n /\ n \in Nat
        /\ \A i \in DOMAIN issues : issues'[i] = issues[i]
        /\ issues'[n + 1] =
               [event |-> e, late |-> late, beyond |-> ~late /\ e \in beyond, found |-> FALSE]
    <3>1. issues \in Seq(Issue) /\ beyond \subseteq Events
      BY <1>0 DEF TypeOK
    <3>. QED BY <2>1, <3>1, CreatedAppends
  <2>. HIDE DEF n
  <2>3. /\ issues'[n + 1].event = e /\ issues'[n + 1].late = late
        /\ issues'[n + 1].beyond = (~late /\ e \in beyond)
    BY <2>2
  <2>4. \A i \in DOMAIN issues : issues[i].event = e => issues[i].late \/ late \/ e \in beyond
    BY <2>1, LookedFor DEF Accounted
  <2>5. SUFFICES ASSUME NEW i \in DOMAIN issues', NEW j \in DOMAIN issues', i < j,
                        issues'[i].event = issues'[j].event
                 PROVE  issues'[i].late \/ issues'[j].late \/ issues'[j].beyond
    BY DEF DuplicateIsExplained
  <2>6. i \in DOMAIN issues /\ (j \in DOMAIN issues \/ j = n + 1)
    BY <2>2, <2>5
  <2>7. CASE j \in DOMAIN issues
    BY <1>0, <2>2, <2>5, <2>6, <2>7 DEF DuplicateIsExplained
  <2>8. CASE j = n + 1
    BY <2>2, <2>3, <2>4, <2>5, <2>6, <2>8
  <2>. QED BY <2>6, <2>7, <2>8
<1>. QED BY <1>0, <1>1, <1>2, IssuesStep

-----------------------------------------------------------------------------
(* The theorems.                                                           *)

\* Nothing is open, measured or to do at the start.
LEMMA AlertInit == Init => AlertInv
<1>. SUFFICES ASSUME Init PROVE AlertInv
  OBVIOUS
<1>1. issues = <<>> /\ DOMAIN issues = {} /\ issues \in Seq(Issue)
  BY DEF Init
<1>2. TypeOK
  BY <1>1, BoundAssumption, EventsAreNamed DEF Init, TypeOK, Idle
<1>3. VerdictInv
  <2>1. Routed(measured) = {}
    BY DEF Init, Routed, Findings, HealthFindings, PinFindings
  <2>. QED BY <2>1 DEF Init, VerdictInv
<1>4. AliveInv /\ CreateInv /\ LookedInv /\ DuplicateIsExplained
  BY <1>1, BoundAssumption DEF Init, AliveInv, CreateInv, LookedInv, DuplicateIsExplained
<1>. QED BY <1>2, <1>3, <1>4 DEF AlertInv

\* The invariant is inductive.
THEOREM AlertInductive == Spec => []AlertInv
<1>1. AlertInv /\ [Next]_vars => AlertInv'
  BY TypeStep, VerdictStep, AliveStep, CreateStep, LookedStep, DuplicateStep DEF AlertInv
<1>. QED BY AlertInit, <1>1, PTL DEF Spec

\* What the run and the tracker hold keeps its shape, through every failure,
\* retry and death of run_cycle (alert_delivery.py).
THEOREM AlertTypeCorrect == Spec => []TypeOK
<1>1. AlertInv => TypeOK
  BY DEF AlertInv
<1>. QED BY <1>1, AlertInductive, PTL

\* An alert already open is updated, not duplicated (alert_delivery.py:14-17),
\* whatever the size of the page and the number of attempts: two open issues of
\* one event are a create that took effect after the run had looked for it, or
\* a first issue beyond the page that was read.
THEOREM DuplicatesAreExplained == Spec => []DuplicateIsExplained
<1>1. AlertInv => DuplicateIsExplained
  BY DEF AlertInv
<1>. QED BY <1>1, AlertInductive, PTL

\* In a run that ends with no failure each routed event was delivered, and what
\* was delivered was open while it ran.
LEMMA RoutedWasOpen ==
    ASSUME AlertInv, ExitZero, NEW e \in Events, e \in Routed(measured)
    PROVE  e \in alive
<1>1. delivery[e] \in Statuses
  BY DEF AlertInv, TypeOK, Statuses
<1>. QED BY <1>1 DEF AlertInv, VerdictInv, ExitZero, Statuses

\* An exit code of 0 (alert_delivery.main) means that every limit that was
\* broken when the run measured, and is not suppressed, had an open alert during
\* the run: its own, or the one that says its report was missing.
THEOREM CleanRunsCover == Spec => []CleanRunCovers
<1>1. AlertInv => CleanRunCovers
  <2>. SUFFICES ASSUME AlertInv, ExitZero PROVE CleanRunCovers
    BY DEF CleanRunCovers
  <2>0. measured.broken \subseteq Checks /\ measured.gone \subseteq Pins
    BY DEF AlertInv, TypeOK
  <2>1. ASSUME NEW c \in measured.broken \ Suppressed
        PROVE  {CheckEvent(c), HealthMissing} \cap alive # {}
    <3>1. CASE measured.healthLost
      <4>1. [event |-> HealthMissing, level |-> "alert"] \in Findings(measured)
        BY <3>1 DEF Findings
      <4>2. HealthMissing \in Routed(measured)
        BY <4>1 DEF Routed
      <4>. QED BY <4>2, EventsAreNamed, RoutedWasOpen
    <3>2. CASE ~measured.healthLost
      <4>. DEFINE f == [event |-> CheckEvent(c), level |-> Level(c, measured.unseen)]
      <4>1. f \in Findings(measured)
        BY <3>2, <2>1 DEF Findings, HealthFindings
      <4>2. f.level # "known_or_out_of_scope" /\ f.event = CheckEvent(c)
        BY <2>1 DEF Level
      <4>3. CheckEvent(c) \in Routed(measured)
        BY <4>1, <4>2 DEF Routed
      <4>. QED BY <2>0, <2>1, <4>3, EventsAreNamed, RoutedWasOpen
    <3>. QED BY <3>1, <3>2
  <2>2. ASSUME NEW p \in measured.gone
        PROVE  {Unavailable(p), Unverified(p), PinsMissing} \cap alive # {}
    <3>1. CASE measured.pinsLost
      <4>1. [event |-> PinsMissing, level |-> "alert"] \in Findings(measured)
        BY <3>1 DEF Findings
      <4>2. PinsMissing \in Routed(measured)
        BY <4>1 DEF Routed
      <4>. QED BY <4>2, EventsAreNamed, RoutedWasOpen
    <3>2. CASE ~measured.pinsLost /\ p \in measured.unknown
      <4>1. [event |-> Unverified(p), level |-> "unknown"] \in Findings(measured)
        BY <3>2 DEF Findings, PinFindings
      <4>2. Unverified(p) \in Routed(measured)
        BY <4>1 DEF Routed
      <4>. QED BY <2>0, <2>2, <4>2, EventsAreNamed, RoutedWasOpen
    <3>3. CASE ~measured.pinsLost /\ p \notin measured.unknown
      <4>1. [event |-> Unavailable(p), level |-> "alert"] \in Findings(measured)
        BY <2>2, <3>3 DEF Findings, PinFindings
      <4>2. Unavailable(p) \in Routed(measured)
        BY <4>1 DEF Routed
      <4>. QED BY <2>0, <2>2, <4>2, EventsAreNamed, RoutedWasOpen
    <3>. QED BY <3>1, <3>2, <3>3
  <2>. QED BY <2>1, <2>2 DEF CleanRunCovers
<1>. QED BY <1>1, AlertInductive, PTL

\* What is routed and neither waits nor was closed is either open or reported
\* as not delivered.
LEMMA RoutedIsTold ==
    ASSUME AlertInv, NEW e \in Events, Resolve(e), NEW gap \in Events, gap \in Routed(measured)
    PROVE  Told(gap)
<1>1. delivery[gap] \in Statuses
  BY DEF AlertInv, TypeOK, Statuses
<1>2. delivery[gap] # "todo"
  BY DEF Resolve, Todo
<1>. QED BY <1>1, <1>2 DEF AlertInv, VerdictInv, Statuses, Told

\* run_cycle closes an alert as "condition cleared" only if its report was read
\* and did not name the condition, or the alert of the gap was open during the
\* run or is reported as not delivered.
THEOREM ClosingsAreExplained == Spec => ClosingIsExplained
<1>1. ASSUME AlertInv, NEW e \in Events, Resolve(e) PROVE Explained(e)
  <2>0. e \notin Routed(measured)
    BY <1>1 DEF AlertInv, VerdictInv, Resolve, Stale
  <2>1. ASSUME NEW gap \in Events, gap \in Routed(measured) PROVE Told(gap)
    BY <1>1, <2>1, RoutedIsTold
  <2>2. ASSUME measured.healthLost PROVE Told(HealthMissing)
    <3>1. [event |-> HealthMissing, level |-> "alert"] \in Findings(measured)
      BY <2>2 DEF Findings
    <3>2. HealthMissing \in Routed(measured)
      BY <3>1 DEF Routed
    <3>. QED BY <2>1, <3>2, EventsAreNamed
  <2>3. ASSUME measured.pinsLost PROVE Told(PinsMissing)
    <3>1. [event |-> PinsMissing, level |-> "alert"] \in Findings(measured)
      BY <2>3 DEF Findings
    <3>2. PinsMissing \in Routed(measured)
      BY <3>1 DEF Routed
    <3>. QED BY <2>1, <3>2, EventsAreNamed
  <2>4. \A c \in Checks \ Suppressed : e = CheckEvent(c) =>
           IF measured.healthLost THEN Told(HealthMissing)
           ELSE c \notin measured.broken \cup measured.unseen
    <3>1. ASSUME NEW c \in Checks, e = CheckEvent(c), c \notin Suppressed, ~measured.healthLost,
                 c \in measured.broken \cup measured.unseen
          PROVE  FALSE
      <4>. DEFINE f == [event |-> CheckEvent(c), level |-> Level(c, measured.unseen)]
      <4>1. f \in Findings(measured)
        BY <3>1 DEF Findings, HealthFindings
      <4>2. f.level # "known_or_out_of_scope" /\ f.event = e
        BY <3>1 DEF Level
      <4>. QED BY <2>0, <4>1, <4>2 DEF Routed
    <3>. QED BY <2>2, <3>1
  <2>5. e = Truncation =>
           IF measured.healthLost THEN Told(HealthMissing) ELSE measured.unseen = {}
    <3>1. ASSUME e = Truncation, ~measured.healthLost, measured.unseen # {}
          PROVE  FALSE
      <4>1. [event |-> Truncation, level |-> "alert"] \in Findings(measured)
        BY <3>1 DEF Findings, HealthFindings
      <4>. QED BY <2>0, <3>1, <4>1 DEF Routed
    <3>. QED BY <2>2, <3>1
  <2>6. \A p \in Pins : e = Unavailable(p) =>
           IF measured.pinsLost THEN Told(PinsMissing)
           ELSE IF p \in measured.unknown THEN Told(Unverified(p)) ELSE p \notin measured.gone
    <3>1. ASSUME NEW p \in Pins, e = Unavailable(p), ~measured.pinsLost, p \notin measured.unknown,
                 p \in measured.gone
          PROVE  FALSE
      <4>1. [event |-> Unavailable(p), level |-> "alert"] \in Findings(measured)
        BY <3>1 DEF Findings, PinFindings
      <4>. QED BY <2>0, <3>1, <4>1 DEF Routed
    <3>2. ASSUME NEW p \in Pins, ~measured.pinsLost, p \in measured.unknown
          PROVE  Told(Unverified(p))
      <4>1. [event |-> Unverified(p), level |-> "unknown"] \in Findings(measured)
        BY <3>2 DEF Findings, PinFindings
      <4>2. Unverified(p) \in Routed(measured)
        BY <4>1 DEF Routed
      <4>. QED BY <2>1, <4>2, EventsAreNamed
    <3>. QED BY <2>3, <3>1, <3>2
  <2>7. \A p \in Pins : e = Unverified(p) =>
           IF measured.pinsLost THEN Told(PinsMissing) ELSE p \notin measured.unknown
    <3>1. ASSUME NEW p \in Pins, e = Unverified(p), ~measured.pinsLost, p \in measured.unknown
          PROVE  FALSE
      <4>1. [event |-> Unverified(p), level |-> "unknown"] \in Findings(measured)
        BY <3>1 DEF Findings, PinFindings
      <4>. QED BY <2>0, <3>1, <4>1 DEF Routed
    <3>. QED BY <2>3, <3>1
  <2>. QED BY <2>4, <2>5, <2>6, <2>7 DEF Explained
<1>2. AlertInv => [\A e \in Events : Resolve(e) => Explained(e)]_vars
  BY <1>1
<1>3. Spec => [][\A e \in Events : Resolve(e) => Explained(e)]_vars
  BY <1>2, AlertInductive, PTL
<1>. QED BY <1>3, PTL DEF ClosingIsExplained
=============================================================================
