---------------------------- MODULE EvidenceCustody ----------------------------
(***************************************************************************)
(* Create-once custody of the evidence of one release, after               *)
(* scripts/pipeline/release/evidence_store.py and evidence_custody.py.     *)
(*                                                                         *)
(* Archivers follow the order of the public operations: store the payload, *)
(* reference its confirmed version in a manifest, freeze the signed commit *)
(* record, and finalize it; readers recover the record.  Each call to the  *)
(* transport is one action; calls of different processes interleave, and   *)
(* any call may fail, lose its response, or be the last one of a process   *)
(* that dies.  Nothing is ever deleted: the transport has no such call.    *)
(*                                                                         *)
(* A payload names its own key (the key holds its SHA-256).  A commit      *)
(* record is what commit.json says: the payload, the version it pins, and  *)
(* the bundle that signs both.                                             *)
(***************************************************************************)
EXTENDS Naturals, FiniteSets

CONSTANTS
    Archivers, Readers,
    Payloads,    \* custody ZIPs whose inventory, identity and origins are in order
    Sound,       \* those the pinned HGC-03 verifier accepts
    Bundles,     \* signatures: two over the same manifest are different bytes
    Genuine,     \* those the external trust policy authenticates
    Adoption,    \* what the external adoption policy says of this release
    Foreign,     \* writes of other tools on the same keys: [key, content]
    CommitKey,   \* commit.json
    Damaged,     \* bytes or metadata that are not those the key announces
    None,
    MaxFaults    \* bound on failed calls, lost responses and deaths

Processes == Archivers \cup Readers
Keys == Payloads \cup {CommitKey}
Record == [payload : Payloads, version : Nat \ {0}, bundle : Bundles]

ASSUME ProcessAssumption ==
    Archivers \cap Readers = {}
ASSUME ContentAssumption ==
    /\ Sound \subseteq Payloads
    /\ Genuine \subseteq Bundles
    /\ None \notin Payloads \cup Bundles
    /\ CommitKey \notin Payloads
    /\ Damaged \notin Payloads \cup Record
ASSUME EnvironmentAssumption ==
    /\ Adoption \in {"unset", "unlisted", "legacy", "required"}
    /\ Foreign \subseteq [key : {CommitKey}, content : Record]
                            \cup [key : Payloads, content : {Damaged}]
    /\ MaxFaults \in Nat

VARIABLES
    objects,  \* objects[k]: content and version ID of the object at k
    seq,      \* version IDs given out
    call,     \* call[p]: the operation p is executing
    request,  \* request[a]: the confirmed payload, then the frozen commit of a
    answer,   \* answer[p]: what the last commit_record or recover of p returned
    faults,
    foreign,  \* the foreign writes that took effect
    creators, \* history: the archivers that were told CREATED
    seen      \* history: what was the case during the last call of a reader

vars == <<objects, seq, call, request, answer, faults, foreign, creators, seen>>
history == <<creators, seen>>

-----------------------------------------------------------------------------
(* Objects and calls.                                                      *)

Absent == [content |-> None, version |-> 0]
NoRequest == [payload |-> None, version |-> 0, bundle |-> None]
Object == {Absent} \cup [content : Payloads \cup {Damaged} \cup Record, version : Nat \ {0}]
Request == {NoRequest}
           \cup [payload : Payloads, version : Nat \ {0}, bundle : Bundles \cup {None}]

\* WriteStatus, without ERROR for the statuses that settle a commit.
Confirmed == {"CREATED", "ALREADY_PRESENT_IDENTICAL"}
Decisive == Confirmed \cup {"CONFLICT"}
Absences == {"ADOPTION_UNKNOWN", "LEGACY_NO_CUSTODY", "REQUIRED_MISSING"}
Verdicts == Absences \cup {"COMPLETE_VERIFIED", "PARTIAL", "INVALID"}

Answers == Decisive \cup Verdicts \cup {"none", "ERROR"}

Stages == {"idle", "put", "check", "reconcile", "peek", "before", "get", "keys", "verify"}
Call == [pc : Stages,
         key : Keys \cup {None},              \* the key create_once works on
         version : Nat,                       \* the version put_if_absent returned
         found : Record \cup {NoRequest},     \* the commit record recover has read
         pending : Decisive \cup {"none"}]    \* commit_record's result, once recovered
Idle == [pc |-> "idle", key |-> None, version |-> 0, found |-> NoRequest, pending |-> "none"]

Present(k) == objects[k] # Absent
Frozen(a) == request[a].bundle # None
\* The FrozenObject create_once is given.
Content(a) == IF call[a].key = CommitKey THEN request[a] ELSE call[a].key

\* _verify_payload past the authentication: the exact version, never the
\* latest; the bytes the key announces; the verdict of the HGC-03 script.
Verifies(objs, record) ==
    /\ objs[record.payload].version = record.version
    /\ objs[record.payload].content = record.payload
    /\ record.payload \in Sound
Complete(objs) ==
    /\ objs[CommitKey] # Absent
    /\ objs[CommitKey].content.bundle \in Genuine
    /\ Verifies(objs, objs[CommitKey].content)

\* What a reader should be told of these objects.
Truth(objs) ==
    IF objs[CommitKey] = Absent
    THEN IF \E p \in Payloads : objs[p] # Absent THEN "partial" ELSE "absent"
    ELSE IF Complete(objs) THEN "complete" ELSE "broken"

Charge(outcome) ==
    IF outcome = "ok" THEN UNCHANGED faults
    ELSE faults < MaxFaults /\ faults' = faults + 1

Store(k, content) ==
    /\ objects' = [objects EXCEPT ![k] = [content |-> content, version |-> seq + 1]]
    /\ seq' = seq + 1
    /\ seen' = [r \in Readers |->
                    IF call[r].pc = "idle" THEN seen[r] ELSE seen[r] \cup {Truth(objects')}]

Goto(p, stage) == call' = [call EXCEPT ![p].pc = stage]
Return(p, result) ==
    /\ call' = [call EXCEPT ![p] = Idle]
    /\ answer' = [answer EXCEPT ![p] = result]
\* store_payload returned without a confirmed payload.
GiveUp(a) == call' = [call EXCEPT ![a] = Idle] /\ UNCHANGED answer
Fail(a) == IF call[a].key \in Payloads THEN GiveUp(a) ELSE Return(a, "ERROR")
\* commit_record goes on to recover(), and returns status if that completes.
Recovering(a, status) == call' = [call EXCEPT ![a].pc = "get", ![a].pending = status]

-----------------------------------------------------------------------------
(* EvidenceStore.create_once                                               *)

\* prepare_payload has accepted p; store_payload calls create_once.
StorePayload(a, p) ==
    /\ call[a].pc = "idle"
    /\ request[a] = NoRequest
    /\ call' = [call EXCEPT ![a].pc = "put", ![a].key = p]
    /\ UNCHANGED <<objects, seq, request, answer, faults, foreign, history>>

\* Mutant: the put is sent without If-None-Match and replaces what is there.
PutOverwriting(a) ==
    /\ call[a].pc = "put"
    /\ Store(call[a].key, Content(a))
    /\ call' = [call EXCEPT ![a].pc = "check", ![a].version = seq + 1]
    /\ UNCHANGED <<request, answer, faults, foreign, creators>>

\* put_if_absent, atomic in the transport.  A failed call (TransportError, or
\* any exception outside the protocol) may have landed, like a lost response.
PutIfAbsent(a) ==
    /\ call[a].pc = "put"
    /\ \E outcome \in {"ok", "lost", "failed"}, landed \in BOOLEAN :
        /\ Charge(outcome)
        /\ outcome = "ok" => landed
        /\ IF landed /\ ~Present(call[a].key)
           THEN Store(call[a].key, Content(a))
           ELSE UNCHANGED <<objects, seq, seen>>
        /\ \/ outcome = "failed" /\ Fail(a)
           \/ /\ outcome = "ok" /\ ~Present(call[a].key)
              /\ call' = [call EXCEPT ![a].pc = "check", ![a].version = seq + 1]
              /\ UNCHANGED answer
           \/ /\ outcome = "lost" \/ (outcome = "ok" /\ Present(call[a].key))
              /\ Goto(a, "reconcile")
              /\ UNCHANGED answer
    /\ UNCHANGED <<request, foreign, creators>>

\* create_once succeeded, with this version: store_payload returns it to the
\* archiver, commit_record goes on to its final read-back.
Created(a, status, version) ==
    /\ request' = [request EXCEPT ![a] =
            IF call[a].key = CommitKey THEN @
            ELSE [payload |-> call[a].key, version |-> version, bundle |-> None]]
    /\ UNCHANGED answer
    /\ IF call[a].key = CommitKey THEN Recovering(a, status)
       ELSE call' = [call EXCEPT ![a] = Idle]

\* The read-back of the exact version that was created.
CheckCreated(a) ==
    /\ call[a].pc = "check"
    /\ \E outcome \in {"ok", "failed"} :
        /\ Charge(outcome)
        /\ IF outcome = "ok" /\ objects[call[a].key] = [content |-> Content(a), version |-> call[a].version]
           THEN Created(a, "CREATED", call[a].version)
           ELSE Fail(a) /\ UNCHANGED request
    /\ UNCHANGED <<objects, seq, foreign, history>>

\* Mutants: whatever is there is taken for the request; a record that is
\* there and identical is reported as created.
ReconcileAny(a) ==
    /\ call[a].pc = "reconcile" /\ Present(call[a].key)
    /\ Created(a, "ALREADY_PRESENT_IDENTICAL", objects[call[a].key].version)
    /\ UNCHANGED <<objects, seq, faults, foreign, history>>
ReconcileCreated(a) ==
    /\ call[a].pc = "reconcile" /\ objects[call[a].key].content = Content(a)
    /\ Created(a, "CREATED", objects[call[a].key].version)
    /\ UNCHANGED <<objects, seq, faults, foreign, history>>

\* After a 412 or a lost response: read what is there and compare.
Reconcile(a) ==
    /\ call[a].pc = "reconcile"
    /\ \E outcome \in {"ok", "failed"} :
        /\ Charge(outcome)
        /\ IF outcome = "failed" \/ ~Present(call[a].key)
           THEN Fail(a) /\ UNCHANGED request
           ELSE \/ /\ objects[call[a].key].content = Content(a)
                   /\ Created(a, "ALREADY_PRESENT_IDENTICAL", objects[call[a].key].version)
                \/ /\ objects[call[a].key].content # Content(a)
                   /\ IF call[a].key = CommitKey THEN Return(a, "CONFLICT") ELSE GiveUp(a)
                   /\ UNCHANGED request
    /\ UNCHANGED <<objects, seq, foreign, history>>

\* manifest_bytes and freeze_commit: the manifest pins the confirmed version,
\* the signer (external) signs it, and only an authenticated bundle is frozen.
FreezeCommit(a, bundle) ==
    /\ call[a].pc = "idle"
    /\ request[a] # NoRequest
    /\ ~Frozen(a)
    /\ bundle \in Genuine
    /\ request' = [request EXCEPT ![a].bundle = bundle]
    /\ UNCHANGED <<objects, seq, call, answer, faults, foreign, history>>

-----------------------------------------------------------------------------
(* commit_record                                                           *)

\* A call with the frozen request, the first one or a retry.
CommitRecord(a) ==
    /\ call[a].pc = "idle"
    /\ Frozen(a)
    /\ call' = [call EXCEPT ![a].pc = "peek", ![a].key = CommitKey]
    /\ answer' = [answer EXCEPT ![a] = "none"]
    /\ UNCHANGED <<objects, seq, request, faults, foreign, history>>

\* Mutants: an existing record is an error; or a conflict, unread.
PeekExists(a) ==
    /\ call[a].pc = "peek"
    /\ IF Present(CommitKey) THEN Return(a, "ERROR") ELSE Goto(a, "before") /\ UNCHANGED answer
    /\ UNCHANGED <<objects, seq, request, faults, foreign, history>>
PeekConflict(a) ==
    /\ call[a].pc = "peek"
    /\ IF Present(CommitKey) THEN Return(a, "CONFLICT") ELSE Goto(a, "before") /\ UNCHANGED answer
    /\ UNCHANGED <<objects, seq, request, faults, foreign, history>>

\* The commit record, read before anything is written.
Peek(a) ==
    /\ call[a].pc = "peek"
    /\ \E outcome \in {"ok", "failed"} :
        /\ Charge(outcome)
        /\ \/ outcome = "failed" /\ Return(a, "ERROR")
           \/ /\ outcome = "ok" /\ ~Present(CommitKey)
              /\ Goto(a, "before") /\ UNCHANGED answer
           \/ /\ outcome = "ok" /\ Present(CommitKey)
              /\ Recovering(a, IF objects[CommitKey].content = request[a]
                               THEN "ALREADY_PRESENT_IDENTICAL" ELSE "CONFLICT")
              /\ UNCHANGED answer
    /\ UNCHANGED <<objects, seq, request, foreign, history>>

\* Mutant: the record is written and verified afterwards only.
BeforeUnverified(a) ==
    /\ call[a].pc = "before" /\ Goto(a, "put")
    /\ UNCHANGED <<objects, seq, request, answer, faults, foreign, history>>

\* _verify_payload of the request, before the record exists.
Before(a) ==
    /\ call[a].pc = "before"
    /\ \E outcome \in {"ok", "failed"} :
        /\ Charge(outcome)
        /\ IF outcome = "ok" /\ Verifies(objects, request[a])
           THEN Goto(a, "put") /\ UNCHANGED answer
           ELSE Return(a, "ERROR")
    /\ UNCHANGED <<objects, seq, request, foreign, history>>

-----------------------------------------------------------------------------
(* recover, called by a reader or by commit_record                         *)

Recover(r) ==
    /\ call[r].pc = "idle"
    /\ Goto(r, "get")
    /\ answer' = [answer EXCEPT ![r] = "none"]
    /\ seen' = [seen EXCEPT ![r] = {Truth(objects)}]
    /\ UNCHANGED <<objects, seq, request, faults, foreign, creators>>

\* A reader is given the state; commit_record turns it into its own result.
Conclude(p, state) ==
    /\ IF p \in Readers THEN Return(p, state)
       ELSE Return(p, IF state = "COMPLETE_VERIFIED" THEN call[p].pending ELSE "ERROR")
    /\ creators' = IF /\ p \in Archivers /\ state = "COMPLETE_VERIFIED"
                      /\ call[p].pending = "CREATED"
                   THEN creators \cup {p} ELSE creators

\* Mutant: a denied read is an absence.
GetDenied(p) ==
    /\ call[p].pc = "get"
    /\ \E outcome \in {"ok", "failed"} :
        /\ Charge(outcome)
        /\ IF outcome = "failed" \/ ~Present(CommitKey) THEN Goto(p, "keys")
           ELSE call' = [call EXCEPT ![p].pc = "verify", ![p].found = objects[CommitKey].content]
    /\ UNCHANGED <<objects, seq, request, answer, foreign, history>>

\* store.get(commit.json), then authentication of what it holds.
GetCommit(p) ==
    /\ call[p].pc = "get"
    /\ \E outcome \in {"ok", "failed"} :
        /\ Charge(outcome)
        /\ \/ outcome = "failed" /\ Conclude(p, "ERROR")
           \/ /\ outcome = "ok" /\ ~Present(CommitKey)
              /\ Goto(p, "keys") /\ UNCHANGED <<answer, creators>>
           \/ /\ outcome = "ok" /\ Present(CommitKey)
              /\ IF objects[CommitKey].content.bundle \in Genuine
                 THEN /\ call' = [call EXCEPT ![p].pc = "verify",
                                              ![p].found = objects[CommitKey].content]
                      /\ UNCHANGED <<answer, creators>>
                 ELSE Conclude(p, "INVALID")
    /\ UNCHANGED <<objects, seq, request, foreign, seen>>

\* What the absence of both objects means is for the adoption policy to say.
AbsenceVerdict ==
    IF Adoption = "legacy" THEN "LEGACY_NO_CUSTODY"
    ELSE IF Adoption = "required" THEN "REQUIRED_MISSING" ELSE "ADOPTION_UNKNOWN"

\* store.keys(payload/), asked only without a commit record.
ListPayloads(p) ==
    /\ call[p].pc = "keys"
    /\ \E outcome \in {"ok", "failed"} :
        /\ Charge(outcome)
        /\ Conclude(p, IF outcome = "failed" THEN "ERROR"
                       ELSE IF \E k \in Payloads : Present(k) THEN "PARTIAL"
                       ELSE AbsenceVerdict)
    /\ UNCHANGED <<objects, seq, request, foreign, seen>>

\* _verify_payload of the record that was read.  An unusable destination or a
\* script that times out says nothing of the record: they are failures.
VerifyPayload(p) ==
    /\ call[p].pc = "verify"
    /\ \E outcome \in {"ok", "failed"} :
        /\ Charge(outcome)
        /\ Conclude(p, IF outcome = "failed" THEN "ERROR"
                       ELSE IF Verifies(objects, call[p].found) THEN "COMPLETE_VERIFIED"
                       ELSE "INVALID")
    /\ UNCHANGED <<objects, seq, request, foreign, seen>>

-----------------------------------------------------------------------------
(* What surrounds the calls.                                               *)

\* A process dies; what an archiver had in hand may be lost with it.
Crash(p) ==
    /\ call[p].pc # "idle" \/ (p \in Archivers /\ request[p] # NoRequest)
    /\ Charge("lost")
    /\ Return(p, "none")
    /\ \/ UNCHANGED request
       \/ p \in Archivers /\ request' = [request EXCEPT ![p] = NoRequest]
    /\ UNCHANGED <<objects, seq, foreign, history>>

\* Another tool that has the bucket's write permission, as in the tests.
PutForeign(f) ==
    /\ f \notin foreign
    /\ ~Present(f.key)
    /\ Store(f.key, f.content)
    /\ foreign' = foreign \cup {f}
    /\ UNCHANGED <<call, request, answer, faults, creators>>

-----------------------------------------------------------------------------
Init ==
    /\ objects = [k \in Keys |-> Absent]
    /\ seq = 0
    /\ call = [p \in Processes |-> Idle]
    /\ request = [a \in Archivers |-> NoRequest]
    /\ answer = [p \in Processes |-> "none"]
    /\ faults = 0
    /\ foreign = {}
    /\ creators = {}
    /\ seen = [r \in Readers |-> {}]

\* The steps of an operation once it has been called.
Progress(p) ==
    \/ p \in Archivers /\ (PutIfAbsent(p) \/ CheckCreated(p) \/ Reconcile(p) \/ Peek(p) \/ Before(p))
    \/ GetCommit(p) \/ ListPayloads(p) \/ VerifyPayload(p)

Next ==
    \/ \E a \in Archivers : \/ \E k \in Payloads : StorePayload(a, k)
                            \/ \E b \in Bundles : FreezeCommit(a, b)
                            \/ CommitRecord(a)
    \/ \E r \in Readers : Recover(r)
    \/ \E p \in Processes : Progress(p) \/ Crash(p)
    \/ \E f \in Foreign : PutForeign(f)

Spec == Init /\ [][Next]_vars

\* A call that has begun goes on, and a frozen request is tried again.
FairSpec ==
    /\ Spec
    /\ \A p \in Processes : WF_vars(Progress(p))
    /\ \A a \in Archivers : WF_vars(CommitRecord(a))

-----------------------------------------------------------------------------
(* Properties.                                                             *)

\* The state has its types: an object that is present has a version ID.
TypeOK ==
    /\ objects \in [Keys -> Object]
    /\ seq \in Nat
    /\ call \in [Processes -> Call]
    /\ request \in [Archivers -> Request]
    /\ answer \in [Processes -> Answers]
    /\ faults \in 0 .. MaxFaults
    /\ foreign \subseteq Foreign
    /\ creators \subseteq Archivers
    /\ seen \in [Readers -> SUBSET {"absent", "partial", "complete", "broken"}]

ForeignCommit == \E f \in foreign : f.key = CommitKey

\* "Do not expose a complete record prematurely": at every moment, whatever
\* calls are half done, a commit record that commit_record wrote is signed and
\* its payload is there, at the pinned version, and passes the HGC-03 script.
NothingPremature ==
    Present(CommitKey) /\ ~ForeignCommit => Complete(objects)

\* commit_record reports a finished record only for the very bytes it was
\* given, and only when the record is complete, other tools or not.
ConfirmedIsComplete ==
    \A a \in Archivers : answer[a] \in Confirmed =>
        objects[CommitKey].content = request[a] /\ Complete(objects)

\* commit_record reports CONFLICT only when other bytes have taken the key:
\* an inconclusive call, a 412 or a lost response, is never one.
ConflictIsReal ==
    \A a \in Archivers : answer[a] = "CONFLICT" =>
        Present(CommitKey) /\ objects[CommitKey].content # request[a]

\* Of the archivers that finalize a release, together or again and again, at
\* most one is ever told that it created the record.
CreatedOnce == \A a, b \in creators : a = b

\* commit_record only fails for a reason: without a failed call, a foreign
\* record or a payload the HGC-03 script refuses, no race yields an ERROR.
ErrorIsExplained ==
    \A a \in Archivers : answer[a] = "ERROR" =>
        \/ faults > 0
        \/ ForeignCommit
        \/ request[a].payload \notin Sound

\* A reader that reaches a verdict was told what was the case at some moment
\* of its call, although recover reads the commit, the inventory and the
\* payload one after the other; a failure is never a verdict.  PARTIAL rests on
\* the order in which archivers write, which a foreign record does not keep.
VerdictWasTrue ==
    \A r \in Readers :
        /\ answer[r] \in Absences => "absent" \in seen[r]
        /\ answer[r] = "PARTIAL" /\ ~ForeignCommit => "partial" \in seen[r]
        /\ answer[r] = "COMPLETE_VERIFIED" => "complete" \in seen[r]
        /\ answer[r] = "INVALID" => "broken" \in seen[r]

\* An archiver that keeps its frozen request and tries again learns what
\* became of it: created, already there, or in conflict.
CommitSettles ==
    \A a \in Archivers :
        Frozen(a) /\ request[a].payload \in Sound
            ~> answer[a] \in Decisive \/ ~Frozen(a) \/ ForeignCommit

-----------------------------------------------------------------------------
(* The inductive invariant.                                                *)

Creating(a) == call[a].pc \in {"put", "check", "reconcile"}
Rereading(p) == call[p].pc \in {"get", "keys", "verify"}

\* Which operation a process may be in, and on which request.
Shape ==
    /\ Present(CommitKey) => objects[CommitKey].content \in Record
    /\ \A r \in Readers : call[r].pc = "idle" \/ Rereading(r)
    /\ \A a \in Archivers :
        /\ Creating(a) => call[a].key \in Keys /\ (call[a].key = CommitKey <=> Frozen(a))
        /\ call[a].pc \in {"peek", "before"} => call[a].key = CommitKey /\ Frozen(a)
        /\ Rereading(a) => Frozen(a) /\ Present(CommitKey) /\ call[a].pending # "none"
        /\ call[a].pc # "keys"
        /\ call[a].pc # "idle" /\ Frozen(a) => answer[a] = "none"
        /\ ~Frozen(a) => answer[a] = "none"

\* What an archiver has in hand is in the store, and is signed once frozen.
RequestsAreStored ==
    \A a \in Archivers : request[a] # NoRequest =>
        /\ objects[request[a].payload]
            = [content |-> request[a].payload, version |-> request[a].version]
        /\ Frozen(a) => request[a].bundle \in Genuine

\* create_once works on a commit record whose payload has been verified; what
\* it created is there, and so is what a 412 told it of.
CreationIsSound ==
    \A a \in Archivers :
        /\ Creating(a) /\ call[a].key = CommitKey => request[a].payload \in Sound
        /\ call[a].pc = "check" =>
            /\ call[a].version # 0
            /\ objects[call[a].key] = [content |-> Content(a), version |-> call[a].version]
        /\ call[a].pc = "reconcile" /\ faults = 0 => Present(call[a].key)

\* recover verifies the record that is there, and the result commit_record
\* holds back is true of it.
ReadingIsSound ==
    /\ \A p \in Processes : call[p].pc = "verify" =>
        /\ Present(CommitKey)
        /\ call[p].found = objects[CommitKey].content
        /\ call[p].found.bundle \in Genuine
    /\ \A a \in Archivers : Rereading(a) =>
        (call[a].pending \in Confirmed <=> objects[CommitKey].content = request[a])

\* The archivers that have created the record, or are about to say so.
Claims(a) ==
    \/ a \in creators
    \/ call[a].pc = "check" /\ call[a].key = CommitKey
    \/ Rereading(a) /\ call[a].pending = "CREATED"
OneClaim ==
    \A a \in Archivers : Claims(a) =>
        Present(CommitKey) /\ \A b \in Archivers : Claims(b) => a = b

\* What a reader has watched since its call began.
SeenIsSound ==
    \A r \in Readers :
        /\ Rereading(r) => Truth(objects) \in seen[r]
        /\ call[r].pc = "keys" =>
            /\ (\A p \in Payloads : ~Present(p)) => "absent" \in seen[r]
            /\ ~Present(CommitKey) \/ ForeignCommit \/ "partial" \in seen[r]

IInv ==
    /\ TypeOK /\ Shape /\ RequestsAreStored /\ CreationIsSound /\ ReadingIsSound
    /\ OneClaim /\ SeenIsSound
    /\ NothingPremature /\ ConfirmedIsComplete /\ ConflictIsReal
    /\ ErrorIsExplained /\ VerdictWasTrue

-----------------------------------------------------------------------------
(* The register that finalizing a release implements.                      *)

Committed == IF Present(CommitKey) THEN {objects[CommitKey].content} ELSE {}
Asked == [a \in Archivers |-> IF Frozen(a) THEN {request[a]} ELSE {}]
Told == [a \in Archivers |-> answer[a]]

Register == INSTANCE CommitRegister WITH
    Records <- Record,
    Fit <- {r \in Record : r.payload \in Sound /\ r.bundle \in Genuine},
    committed <- Committed,
    asked <- Asked,
    told <- Told,
    claims <- {a \in Archivers : Claims(a)}

\* Whatever the calls of several archivers, other tools and deaths add up to,
\* each step is one of a register that is written once: the record changes
\* from nothing to one that was asked for and verified, or that another tool
\* put there, and never again; answers agree with it, and the right to be told
\* CREATED is given to one archiver, with the write.
ImplementsRegister == Register!Spec
=============================================================================
