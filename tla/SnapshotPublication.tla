-------------------------- MODULE SnapshotPublication --------------------------
(***************************************************************************)
(* The publication of a frozen SBOM snapshot to a versioned bucket         *)
(* (scripts/pipeline/analytics/s3_run.py, snapshot.py, s3_ingestion.py):   *)
(* publishers upload the same frozen objects with conditional puts, the    *)
(* manifest last, and read everything back; a recoverer trusts only what   *)
(* it reads.  One action per request to the store; any of them may be lost,*)
(* answered late, or have its answer lost, and any run may be killed.      *)
(***************************************************************************)
EXTENDS Integers, Sequences, FiniteSets

CONSTANTS
  Runs,           \* the operators' runs of s3_run on one frozen plan and its snapshot
  N,              \* payload objects of the plan, in upload order
  PutAttempts,    \* Limits.put_attempts
  MaxFaults,      \* bound: calls that fail, conflict or lose their answer, kills, recoveries
  MaxChanges      \* bound: changes made to the bucket outside the pipeline

ASSUME PublicationConstants ==
  /\ N \in Nat \ {0} /\ PutAttempts \in Nat \ {0}
  /\ MaxFaults \in Nat /\ MaxChanges \in Nat

VARIABLES
  store,      \* key -> the versions of the object, oldest first
  stray,      \* whether a key outside the plan is under the snapshot's prefix
  inflight,   \* conditional puts whose answer was lost and that may still land
  job,        \* run -> where it is and what it has read
  intact,     \* run -> history: was the snapshot whole when its verification began
  faults,
  changes

publicationVars == <<store, stray, inflight, job, intact, faults, changes>>

Payload == 1..N
Manifest == N + 1
Keys == 1..Manifest
NoVersions == [k \in Payload |-> 0]

(* A version: frozen content (the manifest's also names a version of every  *)
(* payload object), other content, or a delete marker.                       *)
Frozen(of) == [kind |-> "frozen", of |-> of]
Other == [kind |-> "other", of |-> NoVersions]
Gone == [kind |-> "gone", of |-> NoVersions]

Latest(k) == Len(store[k])
Present(k) == store[k] # << >> /\ store[k][Latest(k)] # Gone
Object(k) == store[k][Latest(k)]

(* The object a run writes at a key: _manifest names the versions it read.  *)
Request(p, k) == Frozen(IF k = Manifest THEN job[p].versions ELSE NoVersions)

(* Complete and unchanged: the manifest is the frozen one, every object's    *)
(* latest version is the one it names and nothing else is under the prefix.  *)
Whole ==
  /\ Present(Manifest) /\ Object(Manifest).kind = "frozen"
  /\ \A k \in Payload : /\ Latest(k) = Object(Manifest).of[k]
                        /\ Present(k) /\ Object(k) = Frozen(NoVersions)
  /\ ~stray

(***************************************************************************)
(* A run.  `pass` is 1 while it publishes, 2 and 4 while it reads the      *)
(* snapshot before and after the retry, and 3 in the retry itself, whose   *)
(* puts are counted; a recovery reads the snapshot twice, passes 5 and 6.  *)
(***************************************************************************)
Idle == [pc |-> "idle", pass |-> 0, at |-> 1, attempt |-> 1, versions |-> NoVersions,
         seen |-> 0, before |-> 0, wrote |-> FALSE]

At(p, pc) == job[p].pc = pc
Spend == faults < MaxFaults /\ faults' = faults + 1
Goto(p, record) == job' = [job EXCEPT ![p] = record]
Moves(p, pc) == Goto(p, [job[p] EXCEPT !.pc = pc, !.at = 1, !.attempt = 1])
Ends(p, answer) == Goto(p, [Idle EXCEPT !.pc = answer])
Finished == {"idle", "success"}

(* A dispatch: the local plan, the assumed role, the bucket's settings and   *)
(* the probe under another prefix are checked before the snapshot is read.   *)
Publish(p) ==
  /\ At(p, "idle")
  /\ Goto(p, [Idle EXCEPT !.pc = "marker", !.pass = 1])
  /\ intact' = [intact EXCEPT ![p] = FALSE]
  /\ UNCHANGED <<store, stray, inflight, faults, changes>>

Recover(p) ==
  /\ At(p, "idle") /\ Spend
  /\ Goto(p, [Idle EXCEPT !.pc = "open", !.pass = 5])
  /\ intact' = [intact EXCEPT ![p] = FALSE]
  /\ UNCHANGED <<store, stray, inflight, changes>>

(* A refused check, a call that raises, or a kill, at any point of the run.  *)
Fail(p) ==
  /\ job[p].pc \notin Finished /\ Spend
  /\ Ends(p, "idle")
  /\ UNCHANGED <<store, stray, inflight, intact, changes>>

(* publish_snapshot: a manifest already there is read, never written over.   *)
Marker(p) ==
  /\ At(p, "marker")
  /\ Moves(p, IF Present(Manifest) THEN "open" ELSE "put")
  /\ UNCHANGED <<store, stray, inflight, intact, faults, changes>>

(***************************************************************************)
(* create(): the put with If-None-Match, and what each answer leads to.    *)
(***************************************************************************)
Put(k, item) == [store EXCEPT ![k] = Append(@, item)]

Putting(p) == At(p, "put")
Took(p, version) ==
  LET k == job[p].at
      next == [job[p] EXCEPT !.attempt = 1, !.wrote = job[p].pass = 3] IN
  IF k = Manifest THEN Goto(p, [next EXCEPT !.pc = "open", !.at = 1])
  ELSE Goto(p, [next EXCEPT !.versions[k] = version, !.at = IF k = N THEN 1 ELSE k + 1,
                            !.pc = IF k = N THEN "files" ELSE "put"])

(* compare(): anything but the frozen bytes is a conflict; nothing at all    *)
(* is a missing read-back.                                                   *)
Compared(p) ==
  LET k == job[p].at IN
  IF Present(k) /\ Object(k) = Request(p, k) THEN Took(p, Latest(k)) ELSE Ends(p, "idle")

(* 200: the version the answer names is read back; versions never change.    *)
PutLands(p) ==
  /\ Putting(p) /\ ~Present(job[p].at)
  /\ store' = Put(job[p].at, Request(p, job[p].at))
  /\ Took(p, Latest(job[p].at) + 1)
  /\ UNCHANGED <<stray, inflight, intact, faults, changes>>

(* Mutant of PutRefused: a refused put is an error of the run. *)
RefusedIsError(p) ==
  /\ Putting(p) /\ Present(job[p].at)
  /\ Ends(p, "idle")
  /\ UNCHANGED <<store, stray, inflight, intact, faults, changes>>

(* 412: the object is there; it must be the same.                            *)
PutRefused(p) ==
  /\ Putting(p) /\ Present(job[p].at)
  /\ Compared(p)
  /\ UNCHANGED <<store, stray, inflight, intact, faults, changes>>

(* 409: the same conditional request again, PutAttempts times.               *)
PutConflicts(p) ==
  /\ Putting(p) /\ Spend
  /\ IF job[p].attempt < PutAttempts
     THEN Goto(p, [job[p] EXCEPT !.attempt = @ + 1, !.wrote = job[p].pass = 3])
     ELSE Ends(p, "idle")
  /\ UNCHANGED <<store, stray, inflight, intact, changes>>

(* A timeout or a 5xx: the put was lost, has landed, or will land later.     *)
PutUnknown(p) ==
  LET k == job[p].at IN
  /\ Putting(p) /\ Spend
  /\ Goto(p, [job[p] EXCEPT !.pc = "reconcile", !.wrote = job[p].pass = 3])
  /\ \/ UNCHANGED <<store, inflight>>
     \/ ~Present(k) /\ store' = Put(k, Request(p, k)) /\ UNCHANGED inflight
     \/ inflight' = inflight \cup {[key |-> k, item |-> Request(p, k)]} /\ UNCHANGED store
  /\ UNCHANGED <<stray, intact, changes>>

(* One read settles it: absent is WRITE_OUTCOME_UNKNOWN and ends the run.    *)
Reconcile(p) ==
  /\ At(p, "reconcile")
  /\ Compared(p)
  /\ UNCHANGED <<store, stray, inflight, intact, faults, changes>>

(* A put nobody waits for any more reaches the store, still conditional.     *)
LateLanding ==
  \E late \in inflight :
    /\ inflight' = inflight \ {late}
    /\ store' = IF Present(late.key) THEN store ELSE Put(late.key, late.item)
    /\ UNCHANGED <<stray, job, intact, faults, changes>>

(***************************************************************************)
(* Reading back, before the manifest is written ("files", "inventory") and *)
(* in read_snapshot ("open", "recheck", "latest", "relist").               *)
(***************************************************************************)

(* The manifest as first seen: what it names is read in those versions,      *)
(* which a versioned bucket keeps.                                           *)
Open(p) ==
  /\ At(p, "open")
  /\ IF Present(Manifest) /\ Object(Manifest).kind = "frozen"
     THEN Goto(p, [job[p] EXCEPT !.pc = "recheck", !.at = 1, !.seen = Latest(Manifest),
                                 !.versions = Object(Manifest).of])
     ELSE Ends(p, "idle")
  /\ intact' = [intact EXCEPT ![p] = Whole]
  /\ UNCHANGED <<store, stray, inflight, faults, changes>>

(* Mutant of Files: the recorded version is enough, the latest is not read. *)
FilesRecorded(p) ==
  /\ job[p].pc \in {"files", "recheck"}
  /\ Moves(p, IF job[p].pc = "files" THEN "inventory" ELSE "latest")
  /\ UNCHANGED <<store, stray, inflight, intact, faults, changes>>

(* _read_files: the latest version of every object is the recorded one.      *)
Files(p) ==
  LET k == job[p].at IN
  /\ job[p].pc \in {"files", "recheck"}
  /\ IF ~(Present(k) /\ Latest(k) = job[p].versions[k]) THEN Ends(p, "idle")
     ELSE IF k < N THEN Goto(p, [job[p] EXCEPT !.at = k + 1])
     ELSE IF At(p, "files") THEN Moves(p, "inventory")
     ELSE Goto(p, [job[p] EXCEPT !.pc = "latest", !.at = 1, !.versions = NoVersions])
  /\ UNCHANGED <<store, stray, inflight, intact, faults, changes>>

(* _inventory before the manifest is written: one already there is allowed.  *)
Inventory(p) ==
  /\ At(p, "inventory")
  /\ IF stray \/ \E k \in Payload : ~Present(k) THEN Ends(p, "idle")
     ELSE Goto(p, [job[p] EXCEPT !.pc = "put", !.at = Manifest])
  /\ UNCHANGED <<store, stray, inflight, intact, faults, changes>>

LatestManifest(p) ==
  /\ At(p, "latest")
  /\ IF Present(Manifest) /\ Latest(Manifest) = job[p].seen THEN Moves(p, "relist") ELSE Ends(p, "idle")
  /\ UNCHANGED <<store, stray, inflight, intact, faults, changes>>

(* The last inventory ends the pass.  A publisher goes on to read, retry and *)
(* read again; the retry may write nothing and leave the manifest as it was. *)
PassEnds(p) ==
  LET pass == job[p].pass
      next == [Idle EXCEPT !.pc = IF pass = 2 THEN "marker" ELSE "open", !.pass = pass + 1,
                           !.before = IF pass = 2 THEN job[p].seen ELSE job[p].before]
      refused == \/ stray \/ \E k \in Keys : ~Present(k)
                 \/ pass = 3 /\ job[p].wrote
                 \/ pass = 4 /\ job[p].seen # job[p].before IN
  /\ At(p, "relist")
  /\ IF refused THEN Ends(p, "idle")
     ELSE IF pass \in {4, 6} THEN Ends(p, "success")
     ELSE Goto(p, next)
  /\ UNCHANGED <<store, stray, inflight, intact, faults, changes>>

(***************************************************************************)
(* Changes nobody in the pipeline makes: the bucket's policy denies them,  *)
(* the read-backs are there for the day it does not.                       *)
(***************************************************************************)
Change ==
  /\ changes < MaxChanges /\ changes' = changes + 1
  /\ \/ stray' = TRUE /\ UNCHANGED store
     \/ \E k \in Keys, item \in {Other, Gone} :
          /\ Present(k)
          /\ store' = Put(k, item)
          /\ UNCHANGED stray
  /\ UNCHANGED <<inflight, job, intact, faults>>

PublicationInit ==
  /\ store = [k \in Keys |-> << >>]
  /\ stray = FALSE /\ inflight = {}
  /\ job = [p \in Runs |-> Idle]
  /\ intact = [p \in Runs |-> FALSE]
  /\ faults = 0 /\ changes = 0

Publishing(p) ==
  \/ Publish(p) \/ Marker(p) \/ PutLands(p) \/ PutRefused(p) \/ Reconcile(p) \/ Open(p)
  \/ Files(p) \/ Inventory(p) \/ LatestManifest(p) \/ PassEnds(p)

PublicationNext ==
  \/ \E p \in Runs : Publishing(p) \/ Recover(p) \/ Fail(p) \/ PutConflicts(p) \/ PutUnknown(p)
  \/ LateLanding
  \/ Change
================================================================================
