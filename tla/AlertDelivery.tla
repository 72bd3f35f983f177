---------------------------- MODULE AlertDelivery ----------------------------
(***************************************************************************)
(* From a limit that is broken to an open issue, and back: the health run  *)
(* (operational_health.evaluate), the events built from its report and the *)
(* pins report (alert_events.findings, build) and one cycle of delivery    *)
(* over GitHub Issues (alert_delivery.run_cycle).                          *)
(*                                                                         *)
(* Runs are serial (one concurrency group); the tracker, people and the    *)
(* measured world change at any time.  A call may be refused, may take     *)
(* effect and lose its answer, may take effect later, and the runner may   *)
(* die between two calls.  What is read in a cycle is used after the world *)
(* and the tracker have moved.                                             *)
(***************************************************************************)
EXTENDS Naturals, Sequences

CONSTANTS
    Checks,      \* limits evaluate() compares: framework ages, cron gaps, reviews
    Frameworks,  \* the checks that are measured by querying jobs
    Suppressed,  \* frameworks with a known exception or out of the execution scope
    Pins,
    PageSize,    \* open issues one list call returns (100), the newest first
    MaxAttempts, \* policy delivery.max_attempts
    MaxFaults,   \* bound on failed, late or lost calls, lost reports and deaths
    MaxChanges   \* bound on changes of the world and issues closed by people

ASSUME CheckAssumption == Suppressed \subseteq Frameworks /\ Frameworks \subseteq Checks
ASSUME BoundAssumption == /\ PageSize \in Nat \ {0} /\ MaxAttempts \in Nat \ {0}
                          /\ MaxFaults \in Nat /\ MaxChanges \in Nat

\* event_id() digests source, metric and subject: the triple stands for it.
CheckEvent(c) == <<"operational_health", "limit", c>>
Truncation == <<"operational_health", "job_queries_truncated", "workflow">>
Unavailable(p) == <<"pin_inventory", "pin_unavailable", p>>
Unverified(p) == <<"pin_inventory", "pin_unverified", p>>
HealthMissing == <<"health_monitor", "health_report_missing", "operational-health">>
PinsMissing == <<"health_monitor", "pins_report_missing", "tool-pins">>

Events == {CheckEvent(c) : c \in Checks} \cup {Unavailable(p) : p \in Pins}
          \cup {Unverified(p) : p \in Pins} \cup {Truncation, HealthMissing, PinsMissing}
NoEvent == <<"none", "none", "none">>

VARIABLES
    broken,    \* world: the checks over their limit
    gone,      \* world: the pins their origin no longer has
    issues,    \* the open issues of the tracker, oldest first
    inflight,  \* inflight[e]: creates that may still take effect
    pc,        \* where the cycle is
    delivery,  \* delivery[e]: what the cycle has done about e so far
    known,     \* events of the alerts open_alerts() found at the start
    current,   \* the event being created, its attempt, and whether it may be retried
    faults, changes,
    measured,  \* history: what the reports of this cycle were made from
    alive,     \* history: events with an open issue at some moment of this cycle
    beyond     \* history: events open but not on the page this cycle read

vars == <<broken, gone, issues, inflight, pc, delivery, known, current,
          faults, changes, measured, alive, beyond>>
world == <<broken, gone>>
tracker == <<issues, inflight>>

-----------------------------------------------------------------------------
(* evaluate() and build().                                                 *)

Idle == [event |-> NoEvent, attempt |-> 0, retry |-> FALSE]

\* Mutant: the exceptions are read the wrong way round.
LevelInverted(c, unseen) == IF c \in unseen THEN "unknown"
                            ELSE IF c \notin Suppressed THEN "known_or_out_of_scope" ELSE "alert"

\* The level of a broken limit; a framework whose data lies beyond the query
\* budget has no age, and is unknown whatever its exception says.
Level(c, unseen) == IF c \in unseen THEN "unknown"
                    ELSE IF c \in Suppressed THEN "known_or_out_of_scope" ELSE "alert"

\* Mutant: a framework that was not reached is left out, not unknown.
HealthFindingsSeen(over, unseen) ==
    {[event |-> CheckEvent(c), level |-> Level(c, unseen)] : c \in over \ unseen}

HealthFindings(over, unseen) ==
    {[event |-> CheckEvent(c), level |-> Level(c, unseen)] : c \in over \cup unseen}
    \cup {[event |-> Truncation, level |-> "alert"] : u \in {x \in {unseen} : x # {}}}

PinFindings(absent, unknown) ==
    {[event |-> Unavailable(p), level |-> "alert"] : p \in absent \ unknown}
    \cup {[event |-> Unverified(p), level |-> "unknown"] : p \in unknown}

\* A missing or invalid report is an alert of its own, and all there is.
Findings(m) ==
    (IF m.healthLost THEN {[event |-> HealthMissing, level |-> "alert"]}
     ELSE HealthFindings(m.broken, m.unseen))
    \cup (IF m.pinsLost THEN {[event |-> PinsMissing, level |-> "alert"]}
          ELSE PinFindings(m.gone, m.unknown))

\* build() drops the suppressed levels and keeps one event per identity.
Routed(m) == {f.event : f \in {g \in Findings(m) : g.level # "known_or_out_of_scope"}}

-----------------------------------------------------------------------------
(* The tracker.                                                            *)

Visible == {i \in DOMAIN issues : i + PageSize > Len(issues)}
OpenEvents == {issues[i].event : i \in DOMAIN issues}
VisibleEvents == {issues[i].event : i \in Visible}

\* open_alerts() raises on two issues of one event: a person must reconcile.
Ambiguous == \E i, j \in Visible : i # j /\ issues[i].event = issues[j].event

Created(e, late) ==
    /\ issues' = Append(issues, [event |-> e, late |-> late, beyond |-> ~late /\ e \in beyond,
                                 found |-> FALSE])
    /\ alive' = alive \cup {e}
\* A closed issue leaves the list; the others keep their order.
Closed(i) == issues' = [k \in 1..(Len(issues) - 1) |-> issues[IF k < i THEN k ELSE k + 1]]
Untouched == UNCHANGED <<issues, alive>>

\* The issues of the page are the ones the cycle knows; a person may close one.
Marked(page) == issues' = [i \in DOMAIN issues |-> [issues[i] EXCEPT !.found = i \in page]]
Recorded(e) == {i \in DOMAIN issues : issues[i].found /\ issues[i].event = e}
ClosedAsRecorded(e) == \/ \E i \in Recorded(e) : Closed(i)
                       \/ Recorded(e) = {} /\ UNCHANGED issues

Spend == faults < MaxFaults /\ faults' = faults + 1
Free == faults' = faults
Todo == {e \in Events : delivery[e] = "todo"}
Settled(e, status) == delivery' = [delivery EXCEPT ![e] = status]

\* The end of a run: what its process held is gone, the open issues remain.
Ends == pc' = "idle" /\ known' = {} /\ current' = Idle /\ beyond' = {} /\ Marked({})

-----------------------------------------------------------------------------
(* One cycle.                                                              *)

Init ==
    /\ broken = {} /\ gone = {}
    /\ issues = <<>> /\ inflight = [e \in Events |-> 0]
    /\ pc = "idle" /\ delivery = [e \in Events |-> "none"]
    /\ known = {} /\ current = Idle
    /\ faults = 0 /\ changes = 0
    /\ measured = [broken |-> {}, gone |-> {}, unseen |-> {}, unknown |-> {},
                   healthLost |-> FALSE, pinsLost |-> FALSE]
    /\ alive = {} /\ beyond = {}

\* The cron fires: both reports are made, and the events of the run built.
HealthRun ==
    /\ pc = "idle"
    /\ \E m \in [broken : {broken}, gone : {gone}, unseen : SUBSET Frameworks,
                 unknown : SUBSET Pins, healthLost : BOOLEAN, pinsLost : BOOLEAN] :
        /\ measured' = m
        /\ IF m.healthLost \/ m.pinsLost \/ m.unseen # {} \/ m.unknown # {} THEN Spend ELSE Free
        /\ delivery' = [e \in Events |-> IF e \in Routed(m) THEN "todo" ELSE "none"]
    /\ pc' = "list"
    /\ alive' = OpenEvents
    /\ UNCHANGED <<world, tracker, known, current, changes, beyond>>

\* Without the destination's view no write is safe: FAILED_RECONCILE for all.
ListFails ==
    /\ pc = "list"
    /\ IF Ambiguous THEN Free ELSE Spend
    /\ delivery' = [e \in Events |-> IF e \in Todo THEN "FAILED" ELSE "none"]
    /\ Ends
    /\ UNCHANGED <<world, inflight, changes, measured, alive>>

List ==
    /\ pc = "list" /\ ~Ambiguous
    /\ known' = VisibleEvents /\ Marked(Visible)
    /\ beyond' = OpenEvents \ VisibleEvents
    /\ pc' = "deliver"
    /\ UNCHANGED <<world, inflight, delivery, current, faults, changes, measured, alive>>

\* An alert the destination already holds gets one comment, never a retry.
Update(e) ==
    /\ pc = "deliver" /\ e \in Todo \cap known
    /\ \/ Free /\ Settled(e, "DELIVERED")
       \/ Spend /\ Settled(e, "ALREADY_FAILED")
    /\ UNCHANGED <<world, tracker, pc, known, current, changes, measured, alive, beyond>>

\* The create of an event: its first attempt, or the one after a back-off.
Attempting(e) == \/ pc = "deliver" /\ e \in Todo \ known
                 \/ pc = "create" /\ e = current.event
Attempt == IF pc = "create" THEN current.attempt ELSE 1

CreateAccepted(e) ==
    /\ Attempting(e)
    /\ Created(e, FALSE)
    /\ Settled(e, "DELIVERED")
    /\ pc' = "deliver" /\ current' = Idle
    /\ UNCHANGED <<world, inflight, known, faults, changes, measured, beyond>>

\* Sleep and try again while attempts remain, or give the event up.
\* Mutant: one attempt too many.
RetryOneMore(e, attempt, retryable) ==
    IF retryable /\ attempt <= MaxAttempts
    THEN /\ current' = [event |-> e, attempt |-> attempt + 1, retry |-> FALSE]
         /\ pc' = "create" /\ UNCHANGED delivery
    ELSE Settled(e, "FAILED") /\ pc' = "deliver" /\ current' = Idle

RetryOrGiveUp(e, attempt, retryable) ==
    IF retryable /\ attempt < MaxAttempts
    THEN /\ current' = [event |-> e, attempt |-> attempt + 1, retry |-> FALSE]
         /\ pc' = "create" /\ UNCHANGED delivery
    ELSE Settled(e, "FAILED") /\ pc' = "deliver" /\ current' = Idle

\* 401/403 and other 4xx end it; 408, 429 and an unsent request are retried.
CreateRefused(e) ==
    /\ Attempting(e) /\ Spend
    /\ \E retryable \in BOOLEAN : RetryOrGiveUp(e, Attempt, retryable)
    /\ UNCHANGED <<world, tracker, known, changes, measured, alive, beyond>>

\* A timeout, a 5xx, a sent request without an answer, or an answer that cannot
\* be read (which is not retryable): it took effect, will, or never does.
CreateAmbiguous(e) ==
    /\ Attempting(e) /\ Spend
    /\ \E retryable \in BOOLEAN :
          current' = [event |-> e, attempt |-> Attempt, retry |-> retryable]
    /\ \/ Created(e, FALSE) /\ UNCHANGED inflight
       \/ inflight' = [inflight EXCEPT ![e] = @ + 1] /\ Untouched
       \/ UNCHANGED inflight /\ Untouched
    /\ pc' = "reconcile"
    /\ UNCHANGED <<world, delivery, known, changes, measured, beyond>>

\* Mutant: the retry does not look for the create that may have landed.
ReconcileBlindly ==
    /\ pc = "reconcile" /\ Free
    /\ RetryOrGiveUp(current.event, current.attempt, current.retry)
    /\ UNCHANGED <<world, tracker, known, changes, measured, alive, beyond>>

\* The destination is read again before anything is tried again.
Reconcile ==
    /\ pc = "reconcile" /\ ~Ambiguous /\ Free
    /\ beyond' = beyond \cup (OpenEvents \ VisibleEvents)
    /\ IF current.event \in VisibleEvents
       THEN Settled(current.event, "DELIVERED") /\ pc' = "deliver" /\ current' = Idle
       ELSE RetryOrGiveUp(current.event, current.attempt, current.retry)
    /\ UNCHANGED <<world, tracker, known, changes, measured, alive>>

\* Mutant: a destination that cannot be read is believed to hold the alert.
ReconcileBelieves ==
    /\ pc = "reconcile" /\ Spend
    /\ Settled(current.event, "DELIVERED") /\ pc' = "deliver" /\ current' = Idle
    /\ UNCHANGED <<world, tracker, known, changes, measured, alive, beyond>>

ReconcileFails ==
    /\ pc = "reconcile"
    /\ IF Ambiguous THEN Free ELSE Spend
    /\ Settled(current.event, "FAILED") /\ pc' = "deliver" /\ current' = Idle
    /\ UNCHANGED <<world, tracker, known, changes, measured, alive, beyond>>

\* Every known alert that is not routed is commented, labelled and closed; a
\* call that fails leaves it open, or closed without the run knowing.
Stale == {e \in known : delivery[e] = "none"}
Resolve(e) ==
    /\ pc = "deliver" /\ Todo = {} /\ e \in Stale
    /\ \/ /\ \/ Free /\ Settled(e, "RESOLVED")
             \/ Spend /\ Settled(e, "REJECTED")
          /\ ClosedAsRecorded(e)
       \/ Spend /\ Settled(e, "REJECTED") /\ UNCHANGED issues
    /\ UNCHANGED <<world, inflight, pc, known, current, changes, measured, alive, beyond>>

Report ==
    /\ pc = "deliver" /\ Todo = {} /\ Stale = {}
    /\ Ends
    /\ UNCHANGED <<world, inflight, delivery, faults, changes, measured, alive>>

\* The runner is lost: no report, whatever was written stays.
Die ==
    /\ pc # "idle" /\ Spend
    /\ Ends
    /\ delivery' = [e \in Events |-> IF delivery[e] = "none" THEN "none" ELSE "FAILED"]
    /\ UNCHANGED <<world, inflight, changes, measured, alive>>

Cycle == \/ HealthRun \/ List \/ ListFails \/ Reconcile \/ ReconcileFails \/ Report
         \/ \E e \in Events : \/ Update(e) \/ Resolve(e)
                             \/ CreateAccepted(e) \/ CreateRefused(e) \/ CreateAmbiguous(e)

-----------------------------------------------------------------------------
(* The world, late answers and people.                                     *)

LateCreate(e) ==
    /\ inflight[e] > 0
    /\ inflight' = [inflight EXCEPT ![e] = @ - 1]
    /\ Created(e, TRUE)
    /\ UNCHANGED <<world, pc, delivery, known, current, faults, changes, measured, beyond>>

Change == changes < MaxChanges /\ changes' = changes + 1
WorldChanges ==
    /\ Change
    /\ \/ \E c \in Checks : broken' = (broken \ {c}) \cup ({c} \ broken) /\ UNCHANGED gone
       \/ \E p \in Pins : gone' = (gone \ {p}) \cup ({p} \ gone) /\ UNCHANGED broken
    /\ UNCHANGED <<tracker, pc, delivery, known, current, faults, measured, alive, beyond>>

PersonCloses(i) ==
    /\ Change
    /\ Closed(i)
    /\ UNCHANGED <<world, inflight, pc, delivery, known, current, faults, measured, alive, beyond>>

\* "reconcile by hand": one of two issues of the same alert is closed.
PersonReconciles ==
    /\ \E i, j \in Visible :
        /\ i # j /\ issues[i].event = issues[j].event
        /\ Closed(i)
    /\ UNCHANGED <<world, inflight, pc, delivery, known, current, faults, changes,
                   measured, alive, beyond>>

Next == \/ Cycle \/ Die \/ WorldChanges \/ PersonReconciles
        \/ \E e \in Events : LateCreate(e)
        \/ \E i \in DOMAIN issues : PersonCloses(i)

Spec == Init /\ [][Next]_vars

\* The cron fires again and a run that is not lost goes on; a person reconciles
\* duplicates, which the adapter refuses to touch.
Fairness == WF_vars(Cycle) /\ WF_vars(PersonReconciles)
FairSpec == Spec /\ Fairness

-----------------------------------------------------------------------------
(* Properties.                                                             *)

Issue == [event : Events, late : BOOLEAN, beyond : BOOLEAN, found : BOOLEAN]

\* Statuses of a delivery, and what the run may hold about each event.
TypeOK ==
    /\ broken \subseteq Checks /\ gone \subseteq Pins
    /\ issues \in Seq(Issue)
    /\ inflight \in [Events -> 0..MaxFaults]
    /\ pc \in {"idle", "list", "deliver", "create", "reconcile"}
    /\ delivery \in [Events -> {"none", "todo", "DELIVERED", "ALREADY_FAILED", "FAILED",
                                "RESOLVED", "REJECTED"}]
    /\ known \subseteq Events
    /\ current \in [event : Events \cup {NoEvent}, attempt : 0..MaxAttempts, retry : BOOLEAN]
    /\ (pc \in {"create", "reconcile"}) <=> (current.event # NoEvent)
    /\ faults \in 0..MaxFaults /\ changes \in 0..MaxChanges
    /\ measured \in [broken : SUBSET Checks, gone : SUBSET Pins, unseen : SUBSET Frameworks,
                     unknown : SUBSET Pins, healthLost : BOOLEAN, pinsLost : BOOLEAN]
    /\ alive \subseteq Events /\ beyond \subseteq Events

\* An alert already open is updated, not duplicated (alert_delivery.py:14-17):
\* two issues of one event are open only when a create took effect after the
\* run had looked for it, or the first was beyond the page that was read.
DuplicateIsExplained ==
    \A i, j \in DOMAIN issues :
        i < j /\ issues[i].event = issues[j].event =>
            issues[i].late \/ issues[j].late \/ issues[j].beyond

\* main() exits 0 only when no event failed.  Every limit that was broken when
\* such a run measured, and is not suppressed, had an open alert during the run:
\* its own, or the one that says its report was missing.
ExitZero == /\ pc = "idle"
            /\ \A e \in Events : delivery[e] \notin {"FAILED", "ALREADY_FAILED"}
CleanRunCovers ==
    ExitZero =>
        /\ \A c \in measured.broken \ Suppressed :
              {CheckEvent(c), HealthMissing} \cap alive # {}
        /\ \A p \in measured.gone :
              {Unavailable(p), Unverified(p), PinsMissing} \cap alive # {}

\* Somebody is told of a gap: its alert was open during the run, or the run fails
\* because the alert could not be delivered (main() exits 1).
Told(gap) == gap \in alive \/ delivery[gap] = "FAILED"

\* What the report says of an event the run does not route: it was read and did
\* not name the condition, or it was not read and somebody is told of that gap.
Explained(e) ==
    /\ \A c \in Checks \ Suppressed : e = CheckEvent(c) =>
          IF measured.healthLost THEN Told(HealthMissing)
          ELSE c \notin measured.broken \cup measured.unseen
    /\ e = Truncation =>
          IF measured.healthLost THEN Told(HealthMissing) ELSE measured.unseen = {}
    /\ \A p \in Pins : e = Unavailable(p) =>
          IF measured.pinsLost THEN Told(PinsMissing)
          ELSE IF p \in measured.unknown THEN Told(Unverified(p)) ELSE p \notin measured.gone
    /\ \A p \in Pins : e = Unverified(p) =>
          IF measured.pinsLost THEN Told(PinsMissing) ELSE p \notin measured.unknown

\* resolve() says "condition cleared" of every known alert that is not routed.
\* That is so only when its report was read and did not name the condition; an
\* alert that is closed because the report is missing, or the pin could not be
\* verified, is never closed in silence: the alert of that gap was open during
\* the run, or it was refused and the run fails on it (alert_delivery.py:149-171).
ClosingIsExplained == [][\A e \in Events : Resolve(e) => Explained(e)]_vars

\* Whatever failed before, a limit that stays broken has an open alert again and
\* again, and one that stays respected is again and again without a visible one.
AlertsFollowConditions ==
    \A c \in Checks \ Suppressed :
        /\ <>[](c \in broken) => []<>(CheckEvent(c) \in OpenEvents)
        /\ <>[](c \notin broken) => []<>(CheckEvent(c) \notin VisibleEvents)
=============================================================================
