--------------------------- MODULE CustodyTheorems ---------------------------
(***************************************************************************)
(* The invariant of EvidenceCustody is inductive, for any archivers,       *)
(* readers, payloads, signatures, adoption policy and writes of other      *)
(* tools, and any number of faults.  First the types each action keeps and *)
(* what each action does, stated once so that the preservation of the      *)
(* invariant reads as one fact per action and conjunct; then that          *)
(* preservation, and its consequences as the theorems at the end.          *)
(***************************************************************************)
EXTENDS EvidenceCustody, TLAPS

-----------------------------------------------------------------------------
(* Types and effects, one action at a time.                                *)

\* A process's call may be replaced by any call.
LEMMA CallSet ==
    ASSUME call \in [Processes -> Call], NEW p \in Processes, NEW c \in Call,
           call' = [call EXCEPT ![p] = c]
    PROVE  call' \in [Processes -> Call]
OBVIOUS

\* The helpers of the actions keep the types of what they change: Goto.
LEMMA GotoType ==
    ASSUME TypeOK, NEW p \in Processes, NEW stage \in Stages, Goto(p, stage)
    PROVE  call' \in [Processes -> Call]
BY DEF Goto, Call, TypeOK

\* Recovering keeps the type of call.
LEMMA RecoveringType ==
    ASSUME TypeOK, NEW a \in Processes, NEW s \in Decisive, Recovering(a, s)
    PROVE  call' \in [Processes -> Call]
<1>1. call[a] \in Call
  BY DEF TypeOK
<1>2. [call[a] EXCEPT !.pc = "get", !.pending = s] \in Call
  BY <1>1 DEF Call, Stages
<1>3. call' = [call EXCEPT ![a] = [call[a] EXCEPT !.pc = "get", !.pending = s]]
  BY DEF Recovering
<1> QED BY <1>2, <1>3, CallSet DEF TypeOK

\* A call that ends keeps the type of call.
LEMMA IdleType ==
    ASSUME TypeOK, NEW p \in Processes, call' = [call EXCEPT ![p] = Idle]
    PROVE  call' \in [Processes -> Call]
<1>1. Idle \in Call
  BY DEF Idle, Call, Stages
<1> QED BY <1>1, CallSet DEF TypeOK

\* Return keeps the types of call and answer.
LEMMA ReturnType ==
    ASSUME TypeOK, NEW p \in Processes, NEW s \in Answers, Return(p, s)
    PROVE  call' \in [Processes -> Call] /\ answer' \in [Processes -> Answers]
BY IdleType DEF Return, TypeOK, Answers

\* Charge keeps the bound on faults.
LEMMA ChargeType ==
    ASSUME NEW outcome, faults \in 0 .. MaxFaults, Charge(outcome)
    PROVE  faults' \in 0 .. MaxFaults
BY EnvironmentAssumption DEF Charge

\* The early read of commit_record keeps the types.
LEMMA PeekTypes ==
    ASSUME TypeOK, NEW a \in Archivers, Peek(a)
    PROVE  TypeOK'
<1>1. faults' \in 0 .. MaxFaults
  BY ChargeType DEF Peek, TypeOK
<1>. a \in Processes
  BY DEF Processes
<1>2. call' \in [Processes -> Call] /\ answer' \in [Processes -> Answers]
  <2>1. CASE Return(a, "ERROR")
    BY <2>1, ReturnType DEF Answers
  <2>2. CASE Goto(a, "before") /\ UNCHANGED answer
    BY <2>2, GotoType DEF TypeOK, Answers, Stages
  <2>3. ASSUME NEW s \in Decisive, Recovering(a, s), UNCHANGED answer
        PROVE  call' \in [Processes -> Call] /\ answer' \in [Processes -> Answers]
    BY <2>3, RecoveringType DEF TypeOK, Answers
  <2>4. \/ Return(a, "ERROR")
        \/ Goto(a, "before") /\ UNCHANGED answer
        \/ \E s \in Decisive : Recovering(a, s) /\ UNCHANGED answer
    BY DEF Peek, Decisive, Confirmed
  <2> QED BY <2>1, <2>2, <2>3, <2>4
<1> QED BY <1>1, <1>2 DEF TypeOK, Peek, history, Answers

\* The read of recover keeps the types: the record it holds is a record.
LEMMA GetCommitTypes ==
    ASSUME TypeOK, Shape, NEW p \in Processes, GetCommit(p)
    PROVE  TypeOK'
<1>1. faults' \in 0 .. MaxFaults
  BY ChargeType DEF GetCommit, TypeOK
<1>2. ASSUME NEW s \in {"ERROR", "INVALID"}, Conclude(p, s)
      PROVE  /\ call' \in [Processes -> Call] /\ answer' \in [Processes -> Answers]
             /\ creators' \subseteq Archivers
  <2>1. call[p].pending \in Answers
    BY DEF TypeOK, Call, Answers
  <2>2. PICK t \in Answers : Return(p, t)
    BY <1>2, <2>1 DEF Conclude, Answers, Verdicts
  <2> QED BY <1>2, <2>2, ReturnType DEF Conclude, TypeOK
<1>3. ASSUME Present(CommitKey),
             call' = [call EXCEPT ![p].pc = "verify", ![p].found = objects[CommitKey].content]
      PROVE  call' \in [Processes -> Call]
  <2>1. call[p] \in Call /\ objects[CommitKey].content \in Record
    BY <1>3 DEF TypeOK, Shape
  <2>2. [call[p] EXCEPT !.pc = "verify", !.found = objects[CommitKey].content] \in Call
    BY <2>1 DEF Call, Stages
  <2>3. call' = [call EXCEPT ![p] = [call[p] EXCEPT !.pc = "verify", !.found = objects[CommitKey].content]]
    BY <1>3
  <2> QED BY <2>2, <2>3, CallSet DEF TypeOK
<1>4. /\ call' \in [Processes -> Call] /\ answer' \in [Processes -> Answers]
      /\ creators' \subseteq Archivers
  <2>1. CASE Goto(p, "keys") /\ UNCHANGED <<answer, creators>>
    BY <2>1, GotoType DEF TypeOK, Answers, Stages
  <2> QED BY <1>2, <1>3, <2>1 DEF GetCommit, TypeOK, Answers
<1> QED BY <1>1, <1>4 DEF TypeOK, GetCommit, Answers

\* create_once that succeeds keeps the types, the confirmed payload included.
LEMMA CreatedType ==
    ASSUME TypeOK, NEW a \in Archivers, NEW s \in Confirmed, NEW v \in Nat \ {0},
           call[a].key \in Keys, Created(a, s, v)
    PROVE  /\ call' \in [Processes -> Call] /\ answer' \in [Processes -> Answers]
           /\ request' \in [Archivers -> Request]
<1>1. a \in Processes /\ s \in Decisive
  BY DEF Processes, Decisive
<1>2. call' \in [Processes -> Call]
  BY <1>1, RecoveringType, IdleType DEF Created
<1>3. request' \in [Archivers -> Request]
  <2>1. call[a].key # CommitKey => [payload |-> call[a].key, version |-> v, bundle |-> None] \in Request
    BY DEF Request, Keys
  <2> QED BY <2>1 DEF Created, TypeOK
<1> QED BY <1>2, <1>3 DEF Created, TypeOK

\* A create_once that fails keeps the types.
LEMMA FailType ==
    ASSUME TypeOK, NEW a \in Archivers, Fail(a)
    PROVE  call' \in [Processes -> Call] /\ answer' \in [Processes -> Answers]
<1>1. a \in Processes /\ "ERROR" \in Answers
  BY DEF Processes, Answers
<1> QED BY <1>1, IdleType, ReturnType DEF Fail, GiveUp, TypeOK

\* The check of what was created keeps the types.
LEMMA CheckCreatedTypes ==
    ASSUME TypeOK, Shape, CreationIsSound, NEW a \in Archivers, CheckCreated(a)
    PROVE  TypeOK'
<1>1. faults' \in 0 .. MaxFaults
  BY ChargeType DEF CheckCreated, TypeOK
<1>2. /\ call[a].key \in Keys /\ call[a].version \in Nat \ {0} /\ "CREATED" \in Confirmed
  <2>1. call[a] \in Call
    BY DEF TypeOK, Processes
  <2> QED BY <2>1 DEF Call, CheckCreated, Shape, Creating, CreationIsSound, Confirmed
<1>3. \/ Created(a, "CREATED", call[a].version)
      \/ Fail(a) /\ UNCHANGED request
  BY DEF CheckCreated
<1>4. /\ call' \in [Processes -> Call] /\ answer' \in [Processes -> Answers]
      /\ request' \in [Archivers -> Request]
  BY <1>2, <1>3, CreatedType, FailType DEF TypeOK
<1> QED BY <1>1, <1>4 DEF TypeOK, CheckCreated, history

\* The reconciliation keeps the types.
LEMMA ReconcileTypes ==
    ASSUME TypeOK, Shape, NEW a \in Archivers, Reconcile(a)
    PROVE  TypeOK'
<1>1. faults' \in 0 .. MaxFaults
  BY ChargeType DEF Reconcile, TypeOK
<1>2. call[a].key \in Keys /\ "ALREADY_PRESENT_IDENTICAL" \in Confirmed
  BY DEF Reconcile, Shape, Creating, Confirmed
<1>3. ASSUME Present(call[a].key) PROVE objects[call[a].key].version \in Nat \ {0}
  BY <1>2, <1>3 DEF TypeOK, Object, Present, Absent
<1>4. \/ Fail(a) /\ UNCHANGED request
      \/ Present(call[a].key) /\ Created(a, "ALREADY_PRESENT_IDENTICAL", objects[call[a].key].version)
      \/ Return(a, "CONFLICT") /\ UNCHANGED request
      \/ GiveUp(a) /\ UNCHANGED request
  BY DEF Reconcile
<1>5. a \in Processes /\ "CONFLICT" \in Answers
  BY DEF Processes, Answers, Decisive
<1>6. /\ call' \in [Processes -> Call] /\ answer' \in [Processes -> Answers]
      /\ request' \in [Archivers -> Request]
  BY <1>2, <1>3, <1>4, <1>5, CreatedType, FailType, ReturnType, IdleType DEF TypeOK, GiveUp
<1> QED BY <1>1, <1>6 DEF TypeOK, Reconcile, history

\* What a create writes is an object, and the bytes of a commit are a record.
LEMMA ContentType ==
    ASSUME TypeOK, Shape, NEW a \in Archivers, Creating(a)
    PROVE  /\ call[a].key \in Keys
           /\ Content(a) \in Payloads \cup Record
           /\ call[a].key = CommitKey => Content(a) \in Record
           /\ call[a].key # CommitKey => Content(a) = call[a].key
<1>1. call[a].key \in Keys /\ (call[a].key = CommitKey <=> Frozen(a))
  BY DEF Shape
<1>2. Frozen(a) => request[a] \in Record
  BY DEF TypeOK, Frozen, Request, NoRequest, Record
<1> QED BY <1>1, <1>2 DEF Content, Keys

\* A write of a payload, a record or damaged bytes keeps the types.
LEMMA StoreType ==
    ASSUME TypeOK, NEW k \in Keys, NEW c \in Payloads \cup {Damaged} \cup Record, Store(k, c)
    PROVE  /\ objects' \in [Keys -> Object] /\ seq' \in Nat
           /\ seen' \in [Readers -> SUBSET {"absent", "partial", "complete", "broken"}]
<1>1. [content |-> c, version |-> seq + 1] \in Object
  BY DEF TypeOK, Object
<1>2. Truth(objects') \in {"absent", "partial", "complete", "broken"}
  BY DEF Truth
<1> QED BY <1>1, <1>2 DEF Store, TypeOK

\* put_if_absent keeps the types.
LEMMA PutIfAbsentTypes ==
    ASSUME TypeOK, Shape, NEW a \in Archivers, PutIfAbsent(a)
    PROVE  TypeOK'
<1>1. faults' \in 0 .. MaxFaults
  BY ChargeType DEF PutIfAbsent, TypeOK
<1>2. a \in Processes /\ seq + 1 \in Nat
  BY DEF Processes, TypeOK
<1>3. Store(call[a].key, Content(a)) \/ UNCHANGED <<objects, seq, seen>>
  BY DEF PutIfAbsent
<1>4. /\ objects' \in [Keys -> Object] /\ seq' \in Nat
      /\ seen' \in [Readers -> SUBSET {"absent", "partial", "complete", "broken"}]
  BY <1>3, ContentType, StoreType DEF TypeOK, PutIfAbsent, Creating
<1>5. \/ Fail(a)
      \/ /\ call' = [call EXCEPT ![a].pc = "check", ![a].version = seq + 1]
         /\ UNCHANGED answer
      \/ Goto(a, "reconcile") /\ UNCHANGED answer
  BY DEF PutIfAbsent
<1>6. ASSUME call' = [call EXCEPT ![a].pc = "check", ![a].version = seq + 1]
      PROVE  call' \in [Processes -> Call]
  <2>1. call[a] \in Call
    BY <1>2 DEF TypeOK
  <2>2. [call[a] EXCEPT !.pc = "check", !.version = seq + 1] \in Call
    BY <1>2, <2>1 DEF Call, Stages
  <2>3. call' = [call EXCEPT ![a] = [call[a] EXCEPT !.pc = "check", !.version = seq + 1]]
    BY <1>6
  <2> QED BY <1>2, <2>2, <2>3, CallSet DEF TypeOK
<1>7. call' \in [Processes -> Call] /\ answer' \in [Processes -> Answers]
  BY <1>2, <1>5, <1>6, FailType, GotoType DEF TypeOK, Stages
<1> QED BY <1>1, <1>4, <1>7 DEF TypeOK, PutIfAbsent

\* The other processes are where they were.
Others(p) == \A q \in Processes : q # p => call'[q] = call[q] /\ answer'[q] = answer[q]

\* What the helpers do to the call of one process: Goto moves it.
LEMMA GotoEffect ==
    ASSUME TypeOK, NEW p \in Processes, NEW stage \in Stages, Goto(p, stage), UNCHANGED answer
    PROVE  /\ call'[p].pc = stage /\ call'[p].key = call[p].key
           /\ call'[p].version = call[p].version /\ call'[p].found = call[p].found
           /\ call'[p].pending = call[p].pending /\ answer'[p] = answer[p] /\ Others(p)
BY DEF Goto, TypeOK, Call, Others

\* Return ends it with an answer.
LEMMA ReturnEffect ==
    ASSUME TypeOK, NEW p \in Processes, NEW s, Return(p, s)
    PROVE  call'[p] = Idle /\ answer'[p] = s /\ Others(p)
BY DEF Return, TypeOK, Others

\* GiveUp ends it without one.
LEMMA GiveUpEffect ==
    ASSUME TypeOK, NEW p \in Processes, GiveUp(p)
    PROVE  call'[p] = Idle /\ answer'[p] = answer[p] /\ Others(p)
BY DEF GiveUp, TypeOK, Others

\* Recovering moves it into recover with a result held back.
LEMMA RecoveringEffect ==
    ASSUME TypeOK, NEW p \in Processes, NEW s \in Decisive, Recovering(p, s), UNCHANGED answer
    PROVE  /\ call'[p].pc = "get" /\ call'[p].pending = s /\ call'[p].key = call[p].key
           /\ answer'[p] = answer[p] /\ Others(p)
<1>1. call[p] \in Call
  BY DEF TypeOK
<1>2. call' = [call EXCEPT ![p] = [call[p] EXCEPT !.pc = "get", !.pending = s]]
  BY DEF Recovering
<1> QED BY <1>1, <1>2 DEF TypeOK, Call, Others

\* create_once has returned: with a commit to reread, a payload confirmed at
\* this version, or nothing.
Rereads(a, s) ==
    /\ call[a].key = CommitKey /\ call'[a].pc = "get" /\ call'[a].pending = s
    /\ request'[a] = request[a] /\ answer'[a] = answer[a]
Confirms(a, v) ==
    /\ call[a].key \in Payloads /\ call'[a] = Idle /\ answer'[a] = answer[a]
    /\ request'[a] = [payload |-> call[a].key, version |-> v, bundle |-> None]
Ends(a, s) ==
    /\ call'[a] = Idle /\ request'[a] = request[a]
    /\ answer'[a] = IF call[a].key = CommitKey THEN s ELSE answer[a]
OtherArchivers(a) == \A b \in Archivers : b # a =>
    call'[b] = call[b] /\ answer'[b] = answer[b] /\ request'[b] = request[b]

\* Created either rereads the commit or confirms the payload.
LEMMA CreatedEffect ==
    ASSUME TypeOK, NEW a \in Archivers, NEW s \in Confirmed, NEW v,
           call[a].key \in Keys, Created(a, s, v)
    PROVE  /\ Rereads(a, s) \/ Confirms(a, v)
           /\ Others(a) /\ OtherArchivers(a)
<1>. a \in Processes /\ s \in Decisive /\ Archivers \subseteq Processes
  BY DEF Processes, Decisive
<1>1. CASE call[a].key = CommitKey
  <2>1. Recovering(a, s) /\ UNCHANGED answer /\ \A b \in Archivers : request'[b] = request[b]
    BY <1>1 DEF Created, TypeOK
  <2> QED BY <1>1, <2>1, RecoveringEffect DEF Rereads, Others, OtherArchivers
<1>2. CASE call[a].key # CommitKey
  <2>1. GiveUp(a) /\ call[a].key \in Payloads
    BY <1>2 DEF Created, GiveUp, Keys
  <2>2. /\ request'[a] = [payload |-> call[a].key, version |-> v, bundle |-> None]
        /\ \A b \in Archivers : b # a => request'[b] = request[b]
    BY <1>2 DEF Created, TypeOK
  <2> QED BY <2>1, <2>2, GiveUpEffect DEF Confirms, Others, OtherArchivers
<1> QED BY <1>1, <1>2

\* create_once that does not create ends, with an answer on the commit only.
LEMMA EndEffect ==
    ASSUME TypeOK, NEW a \in Archivers, NEW s, call[a].key \in Keys,
           IF call[a].key = CommitKey THEN Return(a, s) ELSE GiveUp(a), UNCHANGED request
    PROVE  Ends(a, s) /\ Others(a) /\ OtherArchivers(a)
<1>. a \in Processes /\ Archivers \subseteq Processes
  BY DEF Processes
<1>1. CASE call[a].key = CommitKey
  BY <1>1, ReturnEffect DEF Ends, Others, OtherArchivers
<1>2. CASE call[a].key # CommitKey
  BY <1>2, GiveUpEffect DEF Ends, Others, OtherArchivers
<1> QED BY <1>1, <1>2

\* Fail ends create_once with an ERROR on the commit only.
LEMMA FailEffect ==
    ASSUME TypeOK, NEW a \in Archivers, call[a].key \in Keys, Fail(a), UNCHANGED request
    PROVE  Ends(a, "ERROR") /\ Others(a) /\ OtherArchivers(a)
<1>1. IF call[a].key = CommitKey THEN Return(a, "ERROR") ELSE GiveUp(a)
  BY ContentAssumption DEF Fail, Keys
<1> QED BY <1>1, EndEffect

\* The check of what was created confirms it unless the read fails: what
\* put_if_absent wrote is still there.
LEMMA CheckEffect ==
    ASSUME IInv, NEW a \in Archivers, CheckCreated(a)
    PROVE  /\ UNCHANGED <<objects, seq, foreign, creators, seen>> /\ Others(a) /\ OtherArchivers(a)
           /\ faults' \in Nat /\ faults' >= faults
           /\ \/ Rereads(a, "CREATED") \/ Confirms(a, call[a].version)
              \/ Ends(a, "ERROR") /\ faults' > 0
<1>1. call[a].key \in Keys /\ "CREATED" \in Confirmed /\ faults \in 0 .. MaxFaults
  BY DEF IInv, CheckCreated, Shape, Creating, Confirmed, TypeOK
<1>2. PICK outcome \in {"ok", "failed"} :
        /\ Charge(outcome)
        /\ IF outcome = "ok" /\ objects[call[a].key] = [content |-> Content(a), version |-> call[a].version]
           THEN Created(a, "CREATED", call[a].version)
           ELSE Fail(a) /\ UNCHANGED request
  BY DEF CheckCreated
<1>3. objects[call[a].key] = [content |-> Content(a), version |-> call[a].version]
  BY DEF CheckCreated, IInv, CreationIsSound
<1>4. faults' \in Nat /\ faults' >= faults /\ (outcome = "failed" => faults' > 0)
  BY <1>1, <1>2, EnvironmentAssumption DEF Charge
<1>5. CASE outcome = "ok"
  <2>1. Created(a, "CREATED", call[a].version)
    BY <1>2, <1>3, <1>5
  <2> QED BY <1>1, <1>4, <2>1, CreatedEffect DEF IInv, CheckCreated, history
<1>6. CASE outcome = "failed"
  <2>1. Fail(a) /\ UNCHANGED request
    BY <1>2, <1>6
  <2> QED BY <1>1, <1>4, <1>6, <2>1, FailEffect DEF IInv, CheckCreated, history
<1> QED BY <1>5, <1>6

\* The reconciliation confirms only the same bytes, reports CONFLICT only of
\* others, and fails only after a fault.
LEMMA ReconcileEffect ==
    ASSUME IInv, NEW a \in Archivers, Reconcile(a)
    PROVE  /\ UNCHANGED <<objects, seq, foreign, creators, seen>> /\ Others(a) /\ OtherArchivers(a)
           /\ faults' \in Nat /\ faults' >= faults
           /\ \/ /\ Rereads(a, "ALREADY_PRESENT_IDENTICAL") \/ Confirms(a, objects[call[a].key].version)
                 /\ Present(call[a].key) /\ objects[call[a].key].content = Content(a)
              \/ Ends(a, "ERROR") /\ faults' > 0
              \/ Ends(a, "CONFLICT") /\ Present(call[a].key) /\ objects[call[a].key].content # Content(a)
<1>1. /\ call[a].key \in Keys /\ "ALREADY_PRESENT_IDENTICAL" \in Confirmed /\ faults \in 0 .. MaxFaults
      /\ faults = 0 => Present(call[a].key)
  BY DEF IInv, Reconcile, Shape, Creating, Confirmed, TypeOK, CreationIsSound
<1>2. PICK outcome \in {"ok", "failed"} :
        /\ Charge(outcome)
        /\ IF outcome = "failed" \/ ~Present(call[a].key)
           THEN Fail(a) /\ UNCHANGED request
           ELSE \/ /\ objects[call[a].key].content = Content(a)
                   /\ Created(a, "ALREADY_PRESENT_IDENTICAL", objects[call[a].key].version)
                \/ /\ objects[call[a].key].content # Content(a)
                   /\ IF call[a].key = CommitKey THEN Return(a, "CONFLICT") ELSE GiveUp(a)
                   /\ UNCHANGED request
  BY DEF Reconcile
<1>3. /\ faults' \in Nat /\ faults' >= faults
      /\ outcome = "failed" \/ ~Present(call[a].key) => faults' > 0
  BY <1>1, <1>2, EnvironmentAssumption DEF Charge
<1>4. CASE outcome = "failed" \/ ~Present(call[a].key)
  BY <1>1, <1>2, <1>3, <1>4, FailEffect DEF IInv, Reconcile, history
<1>5. CASE ~(outcome = "failed" \/ ~Present(call[a].key))
  <2>1. CASE objects[call[a].key].content = Content(a)
    BY <1>1, <1>2, <1>3, <1>5, <2>1, CreatedEffect DEF IInv, Reconcile, history
  <2>2. CASE objects[call[a].key].content # Content(a)
    BY <1>1, <1>2, <1>3, <1>5, <2>2, EndEffect DEF IInv, Reconcile, history
  <2> QED BY <2>1, <2>2
<1> QED BY <1>4, <1>5

\* Only a failure is charged, and then faults is positive.
LEMMA ChargeEffect ==
    ASSUME TypeOK, NEW outcome, Charge(outcome)
    PROVE  /\ faults \in Nat /\ faults' \in Nat /\ faults' >= faults
           /\ outcome # "ok" => faults' > 0
BY EnvironmentAssumption DEF Charge, TypeOK

\* StorePayload starts create_once on the payload's key.
LEMMA StorePayloadEffect ==
    ASSUME TypeOK, NEW a \in Archivers, NEW k \in Payloads, StorePayload(a, k)
    PROVE  call'[a].pc = "put" /\ call'[a].key = k /\ answer'[a] = answer[a] /\ Others(a)
<1>1. call[a] \in Call /\ a \in Processes
  BY DEF TypeOK, Processes
<1>2. call' = [call EXCEPT ![a] = [call[a] EXCEPT !.pc = "put", !.key = k]]
  BY DEF StorePayload
<1> QED BY <1>1, <1>2 DEF StorePayload, TypeOK, Call, Others

\* CommitRecord starts a call on the commit and forgets the last answer.
LEMMA CommitRecordEffect ==
    ASSUME TypeOK, NEW a \in Archivers, CommitRecord(a)
    PROVE  call'[a].pc = "peek" /\ call'[a].key = CommitKey /\ answer'[a] = "none" /\ Others(a)
<1>1. call[a] \in Call /\ a \in Processes
  BY DEF TypeOK, Processes
<1>2. call' = [call EXCEPT ![a] = [call[a] EXCEPT !.pc = "peek", !.key = CommitKey]]
  BY DEF CommitRecord
<1> QED BY <1>1, <1>2 DEF CommitRecord, TypeOK, Call, Others

\* Peek fails, goes on to the checks, or recovers with a result that compares
\* the record with the request.
LEMMA PeekEffect ==
    ASSUME TypeOK, NEW a \in Archivers, Peek(a)
    PROVE  /\ Others(a) /\ faults \in Nat /\ faults' \in Nat /\ faults' >= faults
           /\ \/ call'[a] = Idle /\ answer'[a] = "ERROR" /\ faults' > 0
              \/ /\ ~Present(CommitKey)
                 /\ call'[a].pc = "before" /\ call'[a].key = call[a].key /\ answer'[a] = answer[a]
              \/ /\ Present(CommitKey)
                 /\ call'[a].pc = "get" /\ answer'[a] = answer[a]
                 /\ call'[a].pending = IF objects[CommitKey].content = request[a]
                                       THEN "ALREADY_PRESENT_IDENTICAL" ELSE "CONFLICT"
<1>. a \in Processes /\ "before" \in Stages
  BY DEF Processes, Stages
<1>1. PICK outcome \in {"ok", "failed"} :
        /\ Charge(outcome)
        /\ \/ outcome = "failed" /\ Return(a, "ERROR")
           \/ /\ outcome = "ok" /\ ~Present(CommitKey)
              /\ Goto(a, "before") /\ UNCHANGED answer
           \/ /\ outcome = "ok" /\ Present(CommitKey)
              /\ Recovering(a, IF objects[CommitKey].content = request[a]
                               THEN "ALREADY_PRESENT_IDENTICAL" ELSE "CONFLICT")
              /\ UNCHANGED answer
  BY DEF Peek
<1>2. /\ faults \in Nat /\ faults' \in Nat /\ faults' >= faults
      /\ outcome # "ok" => faults' > 0
  BY <1>1, ChargeEffect
<1>3. CASE outcome = "failed" /\ Return(a, "ERROR")
  BY <1>2, <1>3, ReturnEffect
<1>4. CASE ~Present(CommitKey) /\ Goto(a, "before") /\ UNCHANGED answer
  BY <1>2, <1>4, GotoEffect
<1>5. CASE /\ Present(CommitKey) /\ UNCHANGED answer
           /\ Recovering(a, IF objects[CommitKey].content = request[a]
                            THEN "ALREADY_PRESENT_IDENTICAL" ELSE "CONFLICT")
  BY <1>2, <1>5, RecoveringEffect DEF Decisive, Confirmed
<1> QED BY <1>1, <1>3, <1>4, <1>5

\* Before lets only a verified payload through to the write.
LEMMA BeforeEffect ==
    ASSUME TypeOK, NEW a \in Archivers, Before(a)
    PROVE  /\ Others(a) /\ faults \in Nat /\ faults' \in Nat /\ faults' >= faults
           /\ \/ /\ call'[a] = Idle /\ answer'[a] = "ERROR"
                 /\ faults' > 0 \/ ~Verifies(objects, request[a])
              \/ /\ Verifies(objects, request[a])
                 /\ call'[a].pc = "put" /\ call'[a].key = call[a].key /\ answer'[a] = answer[a]
<1>. a \in Processes /\ "put" \in Stages
  BY DEF Processes, Stages
<1>1. PICK outcome \in {"ok", "failed"} :
        /\ Charge(outcome)
        /\ IF outcome = "ok" /\ Verifies(objects, request[a])
           THEN Goto(a, "put") /\ UNCHANGED answer
           ELSE Return(a, "ERROR")
  BY DEF Before
<1>2. /\ faults \in Nat /\ faults' \in Nat /\ faults' >= faults
      /\ outcome # "ok" => faults' > 0
  BY <1>1, ChargeEffect
<1>3. CASE outcome = "ok" /\ Verifies(objects, request[a])
  BY <1>1, <1>2, <1>3, GotoEffect
<1>4. CASE ~(outcome = "ok" /\ Verifies(objects, request[a]))
  BY <1>1, <1>2, <1>4, ReturnEffect
<1> QED BY <1>3, <1>4

\* Recover starts the call of a reader and what it sees.
LEMMA RecoverEffect ==
    ASSUME TypeOK, NEW r \in Readers, Recover(r)
    PROVE  /\ call'[r].pc = "get" /\ answer'[r] = "none" /\ Others(r)
           /\ seen' = [seen EXCEPT ![r] = {Truth(objects)}]
<1>1. call[r] \in Call /\ r \in Processes
  BY DEF TypeOK, Processes
<1>2. call' = [call EXCEPT ![r] = [call[r] EXCEPT !.pc = "get"]]
  BY DEF Recover, Goto
<1> QED BY <1>1, <1>2 DEF Recover, TypeOK, Call, Others

\* recover has returned this state.
Concludes(p, state) ==
    /\ call'[p] = Idle
    /\ answer'[p] = IF p \in Readers THEN state
                    ELSE IF state = "COMPLETE_VERIFIED" THEN call[p].pending ELSE "ERROR"
    /\ creators' = IF p \in Archivers /\ state = "COMPLETE_VERIFIED" /\ call[p].pending = "CREATED"
                   THEN creators \cup {p} ELSE creators

\* Conclude ends the call of one process with what recover says.
LEMMA ConcludeEffect ==
    ASSUME TypeOK, NEW p \in Processes, NEW state, Conclude(p, state)
    PROVE  Concludes(p, state) /\ Others(p)
<1>1. PICK t : Return(p, t) /\ t = IF p \in Readers THEN state
                    ELSE IF state = "COMPLETE_VERIFIED" THEN call[p].pending ELSE "ERROR"
  BY DEF Conclude
<1> QED BY <1>1, ReturnEffect DEF Conclude, Concludes

\* GetCommit fails, finds nothing, finds a signed record, or finds an
\* unsigned one.
LEMMA GetCommitEffect ==
    ASSUME TypeOK, Shape, NEW p \in Processes, GetCommit(p)
    PROVE  /\ Others(p) /\ faults \in Nat /\ faults' \in Nat /\ faults' >= faults
           /\ \/ Concludes(p, "ERROR") /\ faults' > 0
              \/ /\ ~Present(CommitKey) /\ UNCHANGED creators
                 /\ call'[p].pc = "keys" /\ call'[p].pending = call[p].pending /\ answer'[p] = answer[p]
              \/ /\ Present(CommitKey) /\ objects[CommitKey].content.bundle \in Genuine
                 /\ UNCHANGED creators /\ answer'[p] = answer[p]
                 /\ call'[p].pc = "verify" /\ call'[p].found = objects[CommitKey].content
                 /\ call'[p].pending = call[p].pending
              \/ /\ Concludes(p, "INVALID")
                 /\ Present(CommitKey) /\ objects[CommitKey].content.bundle \notin Genuine
<1>. "keys" \in Stages
  BY DEF Stages
<1>1. PICK outcome \in {"ok", "failed"} :
        /\ Charge(outcome)
        /\ \/ outcome = "failed" /\ Conclude(p, "ERROR")
           \/ /\ outcome = "ok" /\ ~Present(CommitKey)
              /\ Goto(p, "keys") /\ UNCHANGED <<answer, creators>>
           \/ /\ outcome = "ok" /\ Present(CommitKey)
              /\ IF objects[CommitKey].content.bundle \in Genuine
                 THEN /\ call' = [call EXCEPT ![p].pc = "verify",
                                              ![p].found = objects[CommitKey].content]
                      /\ UNCHANGED <<answer, creators>>
                 ELSE Conclude(p, "INVALID")
  BY DEF GetCommit
<1>2. /\ faults \in Nat /\ faults' \in Nat /\ faults' >= faults
      /\ outcome # "ok" => faults' > 0
  BY <1>1, ChargeEffect
<1>3. CASE outcome = "failed" /\ Conclude(p, "ERROR")
  BY <1>2, <1>3, ConcludeEffect
<1>4. CASE ~Present(CommitKey) /\ Goto(p, "keys") /\ UNCHANGED <<answer, creators>>
  BY <1>2, <1>4, GotoEffect
<1>5. CASE /\ Present(CommitKey) /\ objects[CommitKey].content.bundle \in Genuine
           /\ call' = [call EXCEPT ![p].pc = "verify", ![p].found = objects[CommitKey].content]
           /\ UNCHANGED <<answer, creators>>
  <2>1. call[p] \in Call
    BY DEF TypeOK
  <2>2. call' = [call EXCEPT ![p] = [call[p] EXCEPT !.pc = "verify", !.found = objects[CommitKey].content]]
    BY <1>5
  <2>3. /\ call'[p].pc = "verify" /\ call'[p].found = objects[CommitKey].content
        /\ call'[p].pending = call[p].pending /\ Others(p)
    BY <1>5, <2>1, <2>2 DEF TypeOK, Call, Others
  <2> QED BY <1>2, <1>5, <2>3
<1>6. CASE /\ Present(CommitKey) /\ objects[CommitKey].content.bundle \notin Genuine
           /\ Conclude(p, "INVALID")
  BY <1>2, <1>6, ConcludeEffect
<1> QED BY <1>1, <1>3, <1>4, <1>5, <1>6

\* ListPayloads fails, finds a payload, or finds none.
LEMMA ListPayloadsEffect ==
    ASSUME TypeOK, NEW p \in Processes, ListPayloads(p)
    PROVE  /\ Others(p) /\ faults \in Nat /\ faults' \in Nat /\ faults' >= faults
           /\ \/ Concludes(p, "ERROR") /\ faults' > 0
              \/ Concludes(p, "PARTIAL") /\ \E k \in Payloads : Present(k)
              \/ Concludes(p, AbsenceVerdict) /\ \A k \in Payloads : ~Present(k)
<1>1. PICK outcome \in {"ok", "failed"} :
        /\ Charge(outcome)
        /\ Conclude(p, IF outcome = "failed" THEN "ERROR"
                       ELSE IF \E k \in Payloads : Present(k) THEN "PARTIAL"
                       ELSE AbsenceVerdict)
  BY DEF ListPayloads
<1>2. /\ faults \in Nat /\ faults' \in Nat /\ faults' >= faults
      /\ outcome # "ok" => faults' > 0
  BY <1>1, ChargeEffect
<1>3. CASE outcome = "failed"
  BY <1>1, <1>2, <1>3, ConcludeEffect
<1>4. CASE outcome = "ok" /\ \E k \in Payloads : Present(k)
  BY <1>1, <1>2, <1>4, ConcludeEffect
<1>5. CASE outcome = "ok" /\ \A k \in Payloads : ~Present(k)
  BY <1>1, <1>2, <1>5, ConcludeEffect
<1> QED BY <1>3, <1>4, <1>5

\* VerifyPayload fails, verifies the payload it was pinned to, or does not.
LEMMA VerifyPayloadEffect ==
    ASSUME TypeOK, NEW p \in Processes, VerifyPayload(p)
    PROVE  /\ Others(p) /\ faults \in Nat /\ faults' \in Nat /\ faults' >= faults
           /\ \/ Concludes(p, "ERROR") /\ faults' > 0
              \/ Concludes(p, "COMPLETE_VERIFIED") /\ Verifies(objects, call[p].found)
              \/ Concludes(p, "INVALID") /\ ~Verifies(objects, call[p].found)
<1>1. PICK outcome \in {"ok", "failed"} :
        /\ Charge(outcome)
        /\ Conclude(p, IF outcome = "failed" THEN "ERROR"
                       ELSE IF Verifies(objects, call[p].found) THEN "COMPLETE_VERIFIED"
                       ELSE "INVALID")
  BY DEF VerifyPayload
<1>2. /\ faults \in Nat /\ faults' \in Nat /\ faults' >= faults
      /\ outcome # "ok" => faults' > 0
  BY <1>1, ChargeEffect
<1>3. CASE outcome = "failed"
  BY <1>1, <1>2, <1>3, ConcludeEffect
<1>4. CASE outcome = "ok" /\ Verifies(objects, call[p].found)
  BY <1>1, <1>2, <1>4, ConcludeEffect
<1>5. CASE outcome = "ok" /\ ~Verifies(objects, call[p].found)
  BY <1>1, <1>2, <1>5, ConcludeEffect
<1> QED BY <1>3, <1>4, <1>5

\* What a write to an absent key leaves alone.
Grows(k) ==
    /\ objects[k] = Absent /\ objects'[k] # Absent
    /\ \A j \in Keys : j # k => objects'[j] = objects[j]
    /\ \A r \in Readers :
        seen'[r] = IF call[r].pc = "idle" THEN seen[r] ELSE seen[r] \cup {Truth(objects')}

\* A write to an absent key leaves every other key alone.
LEMMA StoreEffect ==
    ASSUME TypeOK, NEW k \in Keys, NEW c, ~Present(k), Store(k, c)
    PROVE  Grows(k) /\ objects'[k] = [content |-> c, version |-> seq + 1]
BY DEF Store, TypeOK, Present, Absent, Grows

\* PutIfAbsent writes to an absent key or nothing; it may fail either way.
LEMMA PutIfAbsentEffect ==
    ASSUME TypeOK, NEW a \in Archivers, call[a].key \in Keys, PutIfAbsent(a)
    PROVE  /\ Others(a) /\ faults \in Nat /\ faults' \in Nat /\ faults' >= faults
           /\ \/ /\ ~Present(call[a].key) /\ Grows(call[a].key)
                 /\ objects'[call[a].key] = [content |-> Content(a), version |-> seq + 1]
              \/ UNCHANGED <<objects, seq, seen>>
           /\ \/ Ends(a, "ERROR") /\ faults' > 0
              \/ /\ ~Present(call[a].key)
                 /\ objects'[call[a].key] = [content |-> Content(a), version |-> seq + 1]
                 /\ call'[a].pc = "check" /\ call'[a].key = call[a].key
                 /\ call'[a].version = seq + 1 /\ answer'[a] = answer[a]
              \/ /\ call'[a].pc = "reconcile" /\ call'[a].key = call[a].key
                 /\ answer'[a] = answer[a]
                 /\ faults' > 0 \/ Present(call[a].key)
<1>. a \in Processes /\ "reconcile" \in Stages
  BY DEF Processes, Stages
<1>1. PICK outcome \in {"ok", "lost", "failed"}, landed \in BOOLEAN :
        /\ Charge(outcome)
        /\ outcome = "ok" => landed
        /\ IF landed /\ ~Present(call[a].key)
           THEN Store(call[a].key, Content(a))
           ELSE UNCHANGED <<objects, seq, seen>>
        /\ \/ outcome = "failed" /\ Fail(a)
           \/ /\ outcome = "ok" /\ ~Present(call[a].key)
              /\ call' = [call EXCEPT ![a].pc = "check", ![a].version = seq + 1]
              /\ UNCHANGED answer
           \/ /\ outcome = "lost" \/ (outcome = "ok" /\ Present(call[a].key))
              /\ Goto(a, "reconcile")
              /\ UNCHANGED answer
  BY DEF PutIfAbsent
<1>2. /\ faults \in Nat /\ faults' \in Nat /\ faults' >= faults
      /\ outcome # "ok" => faults' > 0
  BY <1>1, ChargeEffect
<1>3. \/ /\ landed /\ ~Present(call[a].key) /\ Grows(call[a].key)
         /\ objects'[call[a].key] = [content |-> Content(a), version |-> seq + 1]
      \/ ~(landed /\ ~Present(call[a].key)) /\ UNCHANGED <<objects, seq, seen>>
  BY <1>1, StoreEffect
<1>4. UNCHANGED request
  BY DEF PutIfAbsent
<1>5. CASE outcome = "failed" /\ Fail(a)
  BY <1>2, <1>3, <1>4, <1>5, FailEffect
<1>6. CASE /\ outcome = "ok" /\ ~Present(call[a].key)
           /\ call' = [call EXCEPT ![a].pc = "check", ![a].version = seq + 1]
           /\ UNCHANGED answer
  <2>1. call[a] \in Call
    BY DEF TypeOK
  <2>2. call' = [call EXCEPT ![a] = [call[a] EXCEPT !.pc = "check", !.version = seq + 1]]
    BY <1>6
  <2>3. /\ call'[a].pc = "check" /\ call'[a].key = call[a].key
        /\ call'[a].version = seq + 1 /\ Others(a)
    BY <1>6, <2>1, <2>2 DEF TypeOK, Call, Others
  <2> QED BY <1>1, <1>2, <1>3, <1>6, <2>3
<1>7. CASE /\ outcome = "lost" \/ (outcome = "ok" /\ Present(call[a].key))
           /\ Goto(a, "reconcile")
           /\ UNCHANGED answer
  BY <1>2, <1>3, <1>7, GotoEffect
<1> QED BY <1>1, <1>5, <1>6, <1>7

\* Before keeps the types.
LEMMA BeforeTypes ==
    ASSUME TypeOK, NEW a \in Archivers, Before(a)
    PROVE  TypeOK'
<1>1. faults' \in 0 .. MaxFaults
  BY ChargeType DEF Before, TypeOK
<1>2. a \in Processes /\ "ERROR" \in Answers /\ "put" \in Stages
  BY DEF Processes, Answers, Stages
<1>3. (Goto(a, "put") /\ UNCHANGED answer) \/ Return(a, "ERROR")
  BY DEF Before
<1>4. call' \in [Processes -> Call] /\ answer' \in [Processes -> Answers]
  BY <1>2, <1>3, GotoType, ReturnType DEF TypeOK
<1> QED BY <1>1, <1>4 DEF TypeOK, Before, history

\* Recover keeps the types.
LEMMA RecoverTypes ==
    ASSUME TypeOK, NEW r \in Readers, Recover(r)
    PROVE  TypeOK'
<1>1. r \in Processes /\ "get" \in Stages /\ "none" \in Answers
  BY DEF Processes, Stages, Answers
<1>2. call' \in [Processes -> Call]
  BY <1>1, GotoType DEF Recover
<1>3. Truth(objects) \in {"absent", "partial", "complete", "broken"}
  BY DEF Truth
<1> QED BY <1>1, <1>2, <1>3 DEF TypeOK, Recover

\* StorePayload keeps the types.
LEMMA StorePayloadTypes ==
    ASSUME TypeOK, NEW a \in Archivers, NEW k \in Payloads, StorePayload(a, k)
    PROVE  TypeOK'
<1>1. call[a] \in Call /\ a \in Processes /\ k \in Keys
  BY DEF TypeOK, Processes, Keys
<1>2. [call[a] EXCEPT !.pc = "put", !.key = k] \in Call
  BY <1>1 DEF Call, Stages
<1>3. call' = [call EXCEPT ![a] = [call[a] EXCEPT !.pc = "put", !.key = k]]
  BY DEF StorePayload
<1>4. call' \in [Processes -> Call]
  BY <1>1, <1>2, <1>3, CallSet DEF TypeOK
<1> QED BY <1>4 DEF TypeOK, StorePayload, history

\* CommitRecord keeps the types.
LEMMA CommitRecordTypes ==
    ASSUME TypeOK, NEW a \in Archivers, CommitRecord(a)
    PROVE  TypeOK'
<1>1. call[a] \in Call /\ a \in Processes /\ CommitKey \in Keys
  BY DEF TypeOK, Processes, Keys
<1>2. [call[a] EXCEPT !.pc = "peek", !.key = CommitKey] \in Call
  BY <1>1 DEF Call, Stages
<1>3. call' = [call EXCEPT ![a] = [call[a] EXCEPT !.pc = "peek", !.key = CommitKey]]
  BY DEF CommitRecord
<1>4. call' \in [Processes -> Call]
  BY <1>1, <1>2, <1>3, CallSet DEF TypeOK
<1> QED BY <1>4 DEF TypeOK, CommitRecord, history, Answers

\* FreezeCommit keeps the types.
LEMMA FreezeCommitTypes ==
    ASSUME TypeOK, NEW a \in Archivers, NEW b \in Bundles, FreezeCommit(a, b)
    PROVE  TypeOK'
<1>1. request[a] \in Request /\ request[a] # NoRequest
  BY DEF TypeOK, FreezeCommit
<1>2. [request[a] EXCEPT !.bundle = b] \in Request
  BY <1>1 DEF Request
<1>3. request' = [request EXCEPT ![a] = [request[a] EXCEPT !.bundle = b]]
  BY DEF FreezeCommit
<1>4. request' \in [Archivers -> Request]
  BY <1>1, <1>2, <1>3 DEF TypeOK
<1> QED BY <1>4 DEF TypeOK, FreezeCommit, history

\* The end of recover keeps the types.
LEMMA ConcludeTypes ==
    ASSUME TypeOK, NEW p \in Processes, NEW s \in Verdicts \cup {"ERROR"}, Conclude(p, s)
    PROVE  /\ call' \in [Processes -> Call] /\ answer' \in [Processes -> Answers]
           /\ creators' \subseteq Archivers
<1>1. call[p].pending \in Answers
  BY DEF TypeOK, Call, Answers
<1>2. PICK t \in Answers : Return(p, t)
  BY <1>1 DEF Conclude, Answers
<1> QED BY <1>2, ReturnType DEF Conclude, TypeOK

\* ListPayloads keeps the types.
LEMMA ListPayloadsTypes ==
    ASSUME TypeOK, NEW p \in Processes, ListPayloads(p)
    PROVE  TypeOK'
<1>1. faults' \in 0 .. MaxFaults
  BY ChargeType DEF ListPayloads, TypeOK
<1>2. AbsenceVerdict \in Verdicts
  BY DEF AbsenceVerdict, Verdicts, Absences
<1>3. PICK s \in Verdicts \cup {"ERROR"} : Conclude(p, s)
  BY <1>2 DEF ListPayloads, Verdicts
<1> QED BY <1>1, <1>3, ConcludeTypes DEF TypeOK, ListPayloads

\* VerifyPayload keeps the types.
LEMMA VerifyPayloadTypes ==
    ASSUME TypeOK, NEW p \in Processes, VerifyPayload(p)
    PROVE  TypeOK'
<1>1. faults' \in 0 .. MaxFaults
  BY ChargeType DEF VerifyPayload, TypeOK
<1>2. PICK s \in Verdicts \cup {"ERROR"} : Conclude(p, s)
  BY DEF VerifyPayload, Verdicts
<1> QED BY <1>1, <1>2, ConcludeTypes DEF TypeOK, VerifyPayload

\* The death of a process keeps the types.
LEMMA CrashTypes ==
    ASSUME TypeOK, NEW p \in Processes, Crash(p)
    PROVE  TypeOK'
<1>1. faults' \in 0 .. MaxFaults
  BY ChargeType DEF Crash, TypeOK
<1>2. call' \in [Processes -> Call] /\ answer' \in [Processes -> Answers]
  BY ReturnType DEF Crash, Answers
<1>3. request' \in [Archivers -> Request]
  BY DEF Crash, TypeOK, Request
<1> QED BY <1>1, <1>2, <1>3 DEF TypeOK, Crash, history

\* A write of another tool keeps the types.
LEMMA PutForeignTypes ==
    ASSUME TypeOK, NEW f \in Foreign, PutForeign(f)
    PROVE  TypeOK'
<1>1. f.key \in Keys /\ f.content \in Payloads \cup {Damaged} \cup Record
  BY EnvironmentAssumption DEF Keys
<1>2. objects' \in [Keys -> Object] /\ seq' \in Nat
      /\ seen' \in [Readers -> SUBSET {"absent", "partial", "complete", "broken"}]
  BY <1>1, StoreType DEF PutForeign
<1> QED BY <1>2 DEF TypeOK, PutForeign

-----------------------------------------------------------------------------
(* The invariant, one action at a time.                                    *)

\* CheckCreated preserves the invariant.
LEMMA CheckInv ==
    ASSUME IInv, NEW a \in Archivers, CheckCreated(a)
    PROVE  IInv'
<1>. USE DEF IInv
<1>1. /\ UNCHANGED <<objects, seq, foreign, creators, seen>> /\ Others(a) /\ OtherArchivers(a)
      /\ faults' \in Nat /\ faults' >= faults /\ faults \in Nat
      /\ \/ Rereads(a, "CREATED") \/ Confirms(a, call[a].version)
         \/ Ends(a, "ERROR") /\ faults' > 0
  BY CheckEffect DEF TypeOK
<1>2. /\ call[a].pc = "check" /\ call[a].key \in Keys
      /\ call[a].key = CommitKey <=> Frozen(a)
      /\ answer[a] = "none" /\ a \in Processes /\ a \notin Readers
      /\ objects[call[a].key] = [content |-> Content(a), version |-> call[a].version]
      /\ call[a].version # 0 /\ None \notin Bundles
  BY ProcessAssumption, ContentAssumption DEF CheckCreated, Shape, Creating, Processes,
     CreationIsSound
<1>3. TypeOK'
  BY CheckCreatedTypes
<1>4. Shape'
  BY <1>1, <1>2 DEF Shape, Others, OtherArchivers, Rereads, Confirms, Ends, Processes,
     Creating, Rereading, Present, Frozen, Idle, Absent
<1>5. RequestsAreStored'
  BY <1>1, <1>2, ContentAssumption DEF RequestsAreStored, OtherArchivers, Rereads, Confirms,
     Ends, Frozen, Content, NoRequest, Keys
<1>6. CreationIsSound'
  BY <1>1, <1>2 DEF CreationIsSound, OtherArchivers, Rereads, Confirms, Ends, Creating,
     Content, Present, Idle
<1>7. ReadingIsSound'
  BY <1>1, <1>2 DEF ReadingIsSound, Others, OtherArchivers, Rereads, Confirms, Ends,
     Rereading, Content, Present, Idle, Processes, Confirmed
<1>8. OneClaim'
  BY <1>1, <1>2 DEF OneClaim, Claims, OtherArchivers, Rereads, Confirms, Ends, Rereading,
     Present, Idle, Absent
<1>9. SeenIsSound'
  BY <1>1, <1>2 DEF SeenIsSound, Others, Rereading, Present, ForeignCommit, Processes
<1>10. NothingPremature'
  BY <1>1 DEF NothingPremature, Present, ForeignCommit, Complete, Verifies
<1>11. ConfirmedIsComplete'
  BY <1>1, <1>2 DEF ConfirmedIsComplete, OtherArchivers, Rereads, Confirms, Ends, Complete,
     Verifies, Confirmed
<1>12. ConflictIsReal'
  BY <1>1, <1>2 DEF ConflictIsReal, OtherArchivers, Rereads, Confirms, Ends, Present
<1>13. ErrorIsExplained'
  BY <1>1, <1>2 DEF ErrorIsExplained, OtherArchivers, Rereads, Confirms, Ends, ForeignCommit
<1>14. VerdictWasTrue'
  BY <1>1, <1>2 DEF VerdictWasTrue, Others, Processes, ForeignCommit
<1> QED BY <1>3, <1>4, <1>5, <1>6, <1>7, <1>8, <1>9, <1>10, <1>11, <1>12, <1>13, <1>14

\* Reconcile preserves the invariant.
LEMMA ReconcileInv ==
    ASSUME IInv, NEW a \in Archivers, Reconcile(a)
    PROVE  IInv'
<1>. USE DEF IInv
<1>1. /\ UNCHANGED <<objects, seq, foreign, creators, seen>> /\ Others(a) /\ OtherArchivers(a)
      /\ faults' \in Nat /\ faults' >= faults /\ faults \in Nat
      /\ \/ /\ Rereads(a, "ALREADY_PRESENT_IDENTICAL") \/ Confirms(a, objects[call[a].key].version)
            /\ Present(call[a].key) /\ objects[call[a].key].content = Content(a)
         \/ Ends(a, "ERROR") /\ faults' > 0
         \/ Ends(a, "CONFLICT") /\ Present(call[a].key) /\ objects[call[a].key].content # Content(a)
  BY ReconcileEffect DEF TypeOK
<1>2. /\ call[a].pc = "reconcile" /\ call[a].key \in Keys
      /\ call[a].key = CommitKey <=> Frozen(a)
      /\ answer[a] = "none" /\ a \in Processes /\ a \notin Readers
      /\ objects[call[a].key] \in Object /\ None \notin Bundles
  BY ProcessAssumption, ContentAssumption DEF Reconcile, Shape, Creating, Processes, TypeOK
<1>3. TypeOK'
  BY ReconcileTypes
<1>4. Shape'
  BY <1>1, <1>2 DEF Shape, Others, OtherArchivers, Rereads, Confirms, Ends, Processes,
     Creating, Rereading, Present, Frozen, Idle, Absent
<1>5. RequestsAreStored'
  BY <1>1, <1>2, ContentAssumption DEF RequestsAreStored, OtherArchivers, Rereads, Confirms,
     Ends, Frozen, Content, NoRequest, Keys, Object, Absent, Present
<1>6. CreationIsSound'
  BY <1>1, <1>2 DEF CreationIsSound, OtherArchivers, Rereads, Confirms, Ends, Creating,
     Content, Present, Idle
<1>7. ReadingIsSound'
  BY <1>1, <1>2 DEF ReadingIsSound, Others, OtherArchivers, Rereads, Confirms, Ends,
     Rereading, Content, Present, Idle, Processes, Confirmed
<1>8. OneClaim'
  BY <1>1, <1>2 DEF OneClaim, Claims, OtherArchivers, Rereads, Confirms, Ends, Rereading,
     Present, Idle, Absent
<1>9. SeenIsSound'
  BY <1>1, <1>2 DEF SeenIsSound, Others, Rereading, Present, ForeignCommit, Processes
<1>10. NothingPremature'
  BY <1>1 DEF NothingPremature, Present, ForeignCommit, Complete, Verifies
<1>11. ConfirmedIsComplete'
  BY <1>1, <1>2 DEF ConfirmedIsComplete, OtherArchivers, Rereads, Confirms, Ends, Complete,
     Verifies, Confirmed
<1>12. ConflictIsReal'
  BY <1>1, <1>2 DEF ConflictIsReal, OtherArchivers, Rereads, Confirms, Ends, Present, Content
<1>13. ErrorIsExplained'
  BY <1>1, <1>2 DEF ErrorIsExplained, OtherArchivers, Rereads, Confirms, Ends, ForeignCommit
<1>14. VerdictWasTrue'
  BY <1>1, <1>2 DEF VerdictWasTrue, Others, Processes, ForeignCommit
<1> QED BY <1>3, <1>4, <1>5, <1>6, <1>7, <1>8, <1>9, <1>10, <1>11, <1>12, <1>13, <1>14

\* StorePayload preserves the invariant.
LEMMA StorePayloadInv ==
    ASSUME IInv, NEW a \in Archivers, NEW k \in Payloads, StorePayload(a, k)
    PROVE  IInv'
<1>. USE DEF IInv
<1>1. /\ UNCHANGED <<objects, request, faults, foreign, creators, seen>> /\ Others(a)
      /\ call'[a].pc = "put" /\ call'[a].key = k /\ answer'[a] = answer[a]
  BY StorePayloadEffect DEF StorePayload, history
<1>2. /\ call[a].pc = "idle" /\ request[a] = NoRequest /\ k \in Keys /\ k # CommitKey
      /\ a \in Processes /\ a \notin Readers /\ a \in Archivers
  BY ProcessAssumption, ContentAssumption DEF StorePayload, Processes, Keys
<1>3. TypeOK'
  BY StorePayloadTypes
<1>4. Shape'
  BY <1>1, <1>2 DEF Shape, Others, Processes, Creating, Rereading, Present, Frozen, Idle,
     NoRequest
<1>5. RequestsAreStored'
  BY <1>1, <1>2 DEF RequestsAreStored, Frozen
<1>6. CreationIsSound'
  BY <1>1, <1>2 DEF CreationIsSound, Others, Processes, Creating, Content, Present, Idle
<1>7. ReadingIsSound'
  BY <1>1, <1>2 DEF ReadingIsSound, Others, Rereading, Present, Idle, Processes, Confirmed
<1>8. OneClaim'
  BY <1>1, <1>2 DEF OneClaim, Claims, Others, Processes, Rereading, Present, Idle
<1>9. SeenIsSound'
  BY <1>1, <1>2 DEF SeenIsSound, Others, Rereading, Present, ForeignCommit, Processes
<1>10. NothingPremature'
  BY <1>1, <1>2 DEF NothingPremature, Present, ForeignCommit, Complete, Verifies
<1>11. ConfirmedIsComplete'
  BY <1>1, <1>2 DEF ConfirmedIsComplete, Others, Processes, Complete, Verifies, Confirmed
<1>12. ConflictIsReal'
  BY <1>1, <1>2 DEF ConflictIsReal, Others, Processes, Present
<1>13. ErrorIsExplained'
  BY <1>1, <1>2 DEF ErrorIsExplained, Others, Processes, ForeignCommit
<1>14. VerdictWasTrue'
  BY <1>1, <1>2 DEF VerdictWasTrue, Others, Processes, ForeignCommit
<1> QED BY <1>3, <1>4, <1>5, <1>6, <1>7, <1>8, <1>9, <1>10, <1>11, <1>12, <1>13, <1>14

\* FreezeCommit preserves the invariant.
LEMMA FreezeCommitInv ==
    ASSUME IInv, NEW a \in Archivers, NEW b \in Bundles, FreezeCommit(a, b)
    PROVE  IInv'
<1>. USE DEF IInv
<1>1. /\ UNCHANGED <<objects, call, answer, faults, foreign, creators, seen>>
      /\ request'[a] = [payload |-> request[a].payload, version |-> request[a].version, bundle |-> b]
      /\ \A c \in Archivers : c # a => request'[c] = request[c]
  BY DEF FreezeCommit, history, TypeOK, Request, NoRequest
<1>2. /\ call[a].pc = "idle" /\ request[a] # NoRequest /\ ~Frozen(a) /\ b \in Genuine
      /\ b # None /\ answer[a] = "none" /\ request[a] \in Request
  BY ContentAssumption DEF FreezeCommit, Shape, TypeOK
<1>3. TypeOK'
  BY FreezeCommitTypes
<1>4. Shape'
  BY <1>1, <1>2 DEF Shape, Others, Processes, Creating, Rereading, Present, Frozen, Idle
<1>5. RequestsAreStored'
  BY <1>1, <1>2 DEF RequestsAreStored, Frozen
<1>6. CreationIsSound'
  BY <1>1, <1>2 DEF CreationIsSound, Others, Processes, Creating, Content, Present, Idle, Frozen
<1>7. ReadingIsSound'
  BY <1>1, <1>2 DEF ReadingIsSound, Others, Rereading, Present, Idle, Processes, Confirmed
<1>8. OneClaim'
  BY <1>1, <1>2 DEF OneClaim, Claims, Others, Processes, Rereading, Present, Idle
<1>9. SeenIsSound'
  BY <1>1, <1>2 DEF SeenIsSound, Others, Rereading, Present, ForeignCommit, Processes
<1>10. NothingPremature'
  BY <1>1, <1>2 DEF NothingPremature, Present, ForeignCommit, Complete, Verifies
<1>11. ConfirmedIsComplete'
  BY <1>1, <1>2 DEF ConfirmedIsComplete, Others, Processes, Complete, Verifies, Confirmed
<1>12. ConflictIsReal'
  BY <1>1, <1>2 DEF ConflictIsReal, Others, Processes, Present
<1>13. ErrorIsExplained'
  BY <1>1, <1>2 DEF ErrorIsExplained, Others, Processes, ForeignCommit
<1>14. VerdictWasTrue'
  BY <1>1, <1>2 DEF VerdictWasTrue, Others, Processes, ForeignCommit
<1> QED BY <1>3, <1>4, <1>5, <1>6, <1>7, <1>8, <1>9, <1>10, <1>11, <1>12, <1>13, <1>14

\* CommitRecord preserves the invariant.
LEMMA CommitRecordInv ==
    ASSUME IInv, NEW a \in Archivers, CommitRecord(a)
    PROVE  IInv'
<1>. USE DEF IInv
<1>1. /\ UNCHANGED <<objects, request, faults, foreign, creators, seen>> /\ Others(a)
      /\ call'[a].pc = "peek" /\ call'[a].key = CommitKey /\ answer'[a] = "none"
  BY CommitRecordEffect DEF CommitRecord, history
<1>2. /\ call[a].pc = "idle" /\ Frozen(a)
      /\ a \in Processes /\ a \notin Readers /\ a \in Archivers
  BY ProcessAssumption DEF CommitRecord, Processes
<1>3. TypeOK'
  BY CommitRecordTypes
<1>4. Shape'
  BY <1>1, <1>2 DEF Shape, Others, Processes, Creating, Rereading, Present, Frozen, Idle
<1>5. RequestsAreStored'
  BY <1>1, <1>2 DEF RequestsAreStored, Frozen
<1>6. CreationIsSound'
  BY <1>1, <1>2 DEF CreationIsSound, Others, Processes, Creating, Content, Present, Idle
<1>7. ReadingIsSound'
  BY <1>1, <1>2 DEF ReadingIsSound, Others, Rereading, Present, Idle, Processes, Confirmed
<1>8. OneClaim'
  BY <1>1, <1>2 DEF OneClaim, Claims, Others, Processes, Rereading, Present, Idle
<1>9. SeenIsSound'
  BY <1>1, <1>2 DEF SeenIsSound, Others, Rereading, Present, ForeignCommit, Processes
<1>10. NothingPremature'
  BY <1>1, <1>2 DEF NothingPremature, Present, ForeignCommit, Complete, Verifies
<1>11. ConfirmedIsComplete'
  BY <1>1, <1>2 DEF ConfirmedIsComplete, Others, Processes, Complete, Verifies, Confirmed
<1>12. ConflictIsReal'
  BY <1>1, <1>2 DEF ConflictIsReal, Others, Processes, Present
<1>13. ErrorIsExplained'
  BY <1>1, <1>2 DEF ErrorIsExplained, Others, Processes, ForeignCommit
<1>14. VerdictWasTrue'
  BY <1>1, <1>2 DEF VerdictWasTrue, Others, Processes, ForeignCommit
<1> QED BY <1>3, <1>4, <1>5, <1>6, <1>7, <1>8, <1>9, <1>10, <1>11, <1>12, <1>13, <1>14

\* Peek preserves the invariant.
LEMMA PeekInv ==
    ASSUME IInv, NEW a \in Archivers, Peek(a)
    PROVE  IInv'
<1>. USE DEF IInv
<1>1. /\ UNCHANGED <<objects, request, foreign, creators, seen>> /\ Others(a)
      /\ faults \in Nat /\ faults' \in Nat /\ faults' >= faults
      /\ \/ call'[a] = Idle /\ answer'[a] = "ERROR" /\ faults' > 0
         \/ /\ ~Present(CommitKey)
            /\ call'[a].pc = "before" /\ call'[a].key = call[a].key /\ answer'[a] = answer[a]
         \/ /\ Present(CommitKey)
            /\ call'[a].pc = "get" /\ answer'[a] = answer[a]
            /\ call'[a].pending = IF objects[CommitKey].content = request[a]
                                  THEN "ALREADY_PRESENT_IDENTICAL" ELSE "CONFLICT"
  BY PeekEffect DEF Peek, history
<1>2. /\ call[a].pc = "peek" /\ call[a].key = CommitKey /\ Frozen(a) /\ answer[a] = "none"
      /\ a \in Processes /\ a \notin Readers /\ a \in Archivers
  BY ProcessAssumption DEF Peek, Shape, Processes
<1>3. TypeOK'
  BY PeekTypes
<1>4. Shape'
  BY <1>1, <1>2 DEF Shape, Others, Processes, Creating, Rereading, Present, Frozen, Idle
<1>5. RequestsAreStored'
  BY <1>1, <1>2 DEF RequestsAreStored, Frozen
<1>6. CreationIsSound'
  BY <1>1, <1>2 DEF CreationIsSound, Others, Processes, Creating, Content, Present, Idle
<1>7. ReadingIsSound'
  BY <1>1, <1>2 DEF ReadingIsSound, Others, Rereading, Present, Idle, Processes, Confirmed
<1>8. OneClaim'
  BY <1>1, <1>2 DEF OneClaim, Claims, Others, Processes, Rereading, Present, Idle
<1>9. SeenIsSound'
  BY <1>1, <1>2 DEF SeenIsSound, Others, Rereading, Present, ForeignCommit, Processes
<1>10. NothingPremature'
  BY <1>1, <1>2 DEF NothingPremature, Present, ForeignCommit, Complete, Verifies
<1>11. ConfirmedIsComplete'
  BY <1>1, <1>2 DEF ConfirmedIsComplete, Others, Processes, Complete, Verifies, Confirmed
<1>12. ConflictIsReal'
  BY <1>1, <1>2 DEF ConflictIsReal, Others, Processes, Present
<1>13. ErrorIsExplained'
  BY <1>1, <1>2 DEF ErrorIsExplained, Others, Processes, ForeignCommit
<1>14. VerdictWasTrue'
  BY <1>1, <1>2 DEF VerdictWasTrue, Others, Processes, ForeignCommit
<1> QED BY <1>3, <1>4, <1>5, <1>6, <1>7, <1>8, <1>9, <1>10, <1>11, <1>12, <1>13, <1>14

\* Before preserves the invariant.
LEMMA BeforeInv ==
    ASSUME IInv, NEW a \in Archivers, Before(a)
    PROVE  IInv'
<1>. USE DEF IInv
<1>1. /\ UNCHANGED <<objects, request, foreign, creators, seen>> /\ Others(a)
      /\ faults \in Nat /\ faults' \in Nat /\ faults' >= faults
      /\ \/ /\ call'[a] = Idle /\ answer'[a] = "ERROR"
            /\ faults' > 0 \/ ~Verifies(objects, request[a])
         \/ /\ Verifies(objects, request[a])
            /\ call'[a].pc = "put" /\ call'[a].key = call[a].key /\ answer'[a] = answer[a]
  BY BeforeEffect DEF Before, history
<1>2. /\ call[a].pc = "before" /\ call[a].key = CommitKey /\ Frozen(a) /\ answer[a] = "none"
      /\ CommitKey \in Keys /\ a \in Processes /\ a \notin Readers /\ a \in Archivers
  BY ProcessAssumption DEF Before, Shape, Processes, Keys
<1>3. TypeOK'
  BY BeforeTypes
<1>4. Shape'
  BY <1>1, <1>2 DEF Shape, Others, Processes, Creating, Rereading, Present, Frozen, Idle
<1>5. RequestsAreStored'
  BY <1>1, <1>2 DEF RequestsAreStored, Frozen
<1>6. CreationIsSound'
  BY <1>1, <1>2 DEF CreationIsSound, Others, Processes, Creating, Content, Present, Idle,
     Verifies
<1>7. ReadingIsSound'
  BY <1>1, <1>2 DEF ReadingIsSound, Others, Rereading, Present, Idle, Processes, Confirmed
<1>8. OneClaim'
  BY <1>1, <1>2 DEF OneClaim, Claims, Others, Processes, Rereading, Present, Idle
<1>9. SeenIsSound'
  BY <1>1, <1>2 DEF SeenIsSound, Others, Rereading, Present, ForeignCommit, Processes
<1>10. NothingPremature'
  BY <1>1, <1>2 DEF NothingPremature, Present, ForeignCommit, Complete, Verifies
<1>11. ConfirmedIsComplete'
  BY <1>1, <1>2 DEF ConfirmedIsComplete, Others, Processes, Complete, Verifies, Confirmed
<1>12. ConflictIsReal'
  BY <1>1, <1>2 DEF ConflictIsReal, Others, Processes, Present
<1>13. ErrorIsExplained'
  <2>1. request[a] # NoRequest
    BY <1>2 DEF Frozen, NoRequest
  <2>2. objects[request[a].payload] = [content |-> request[a].payload, version |-> request[a].version]
    BY <2>1 DEF RequestsAreStored
  <2>3. Verifies(objects, request[a]) \/ request[a].payload \notin Sound
    BY <2>2 DEF Verifies
  <2> QED BY <1>1, <1>2, <2>3 DEF ErrorIsExplained, Others, Processes, ForeignCommit
<1>14. VerdictWasTrue'
  BY <1>1, <1>2 DEF VerdictWasTrue, Others, Processes, ForeignCommit
<1> QED BY <1>3, <1>4, <1>5, <1>6, <1>7, <1>8, <1>9, <1>10, <1>11, <1>12, <1>13, <1>14

\* Recover preserves the invariant.
LEMMA RecoverInv ==
    ASSUME IInv, NEW r \in Readers, Recover(r)
    PROVE  IInv'
<1>. USE DEF IInv
<1>1. /\ UNCHANGED <<objects, request, faults, foreign, creators>> /\ Others(r)
      /\ call'[r].pc = "get" /\ answer'[r] = "none"
      /\ seen' = [seen EXCEPT ![r] = {Truth(objects)}]
  BY RecoverEffect DEF Recover
<1>2. /\ call[r].pc = "idle" /\ r \in Processes /\ r \notin Archivers
  BY ProcessAssumption DEF Recover, Processes
<1>3. TypeOK'
  BY RecoverTypes
<1>4. Shape'
  BY <1>1, <1>2 DEF Shape, Others, Processes, Creating, Rereading, Present, Frozen, Idle
<1>5. RequestsAreStored'
  BY <1>1, <1>2 DEF RequestsAreStored, Frozen
<1>6. CreationIsSound'
  BY <1>1, <1>2 DEF CreationIsSound, Others, Processes, Creating, Content, Present, Idle
<1>7. ReadingIsSound'
  BY <1>1, <1>2 DEF ReadingIsSound, Others, Rereading, Present, Idle, Processes, Confirmed
<1>8. OneClaim'
  BY <1>1, <1>2 DEF OneClaim, Claims, Others, Processes, Rereading, Present, Idle
<1>9. SeenIsSound'
  BY <1>1, <1>2 DEF SeenIsSound, Others, Rereading, Present, ForeignCommit, Processes, TypeOK,
     Truth
<1>10. NothingPremature'
  BY <1>1, <1>2 DEF NothingPremature, Present, ForeignCommit, Complete, Verifies
<1>11. ConfirmedIsComplete'
  BY <1>1, <1>2 DEF ConfirmedIsComplete, Others, Processes, Complete, Verifies, Confirmed
<1>12. ConflictIsReal'
  BY <1>1, <1>2 DEF ConflictIsReal, Others, Processes, Present
<1>13. ErrorIsExplained'
  BY <1>1, <1>2 DEF ErrorIsExplained, Others, Processes, ForeignCommit
<1>14. VerdictWasTrue'
  BY <1>1, <1>2 DEF VerdictWasTrue, Others, Processes, ForeignCommit, TypeOK, Absences
<1> QED BY <1>3, <1>4, <1>5, <1>6, <1>7, <1>8, <1>9, <1>10, <1>11, <1>12, <1>13, <1>14

\* recover returns s to p: what s must rest on for the invariant to hold.
LEMMA ConcludeInv ==
    ASSUME IInv, TypeOK', NEW p \in Processes, NEW s \in Verdicts \cup {"ERROR"},
           Rereading(p), Concludes(p, s), Others(p),
           UNCHANGED <<objects, request, foreign, seen>>,
           faults \in Nat, faults' \in Nat, faults' >= faults,
           s = "ERROR" => faults' > 0,
           s = "COMPLETE_VERIFIED" => Complete(objects),
           s = "INVALID" => Present(CommitKey) /\ ~Complete(objects),
           s = "PARTIAL" => p \in Readers /\ (ForeignCommit \/ "partial" \in seen[p]),
           s \in Absences => p \in Readers /\ "absent" \in seen[p]
    PROVE  IInv'
<1>. USE DEF IInv
<1>1. /\ p \in Archivers <=> p \notin Readers
      /\ s \in {"ERROR", "COMPLETE_VERIFIED", "INVALID", "PARTIAL"} \cup Absences
  BY ProcessAssumption DEF Processes, Verdicts
<1>2. call[p].pending \in Decisive \cup {"none"}
  BY DEF TypeOK, Call
<1>3. p \in Archivers => call[p].pending # "none" /\ Present(CommitKey) /\ Frozen(p)
  BY <1>1 DEF Shape, Rereading
<1>4. Shape'
  BY <1>1, <1>3 DEF Concludes, Shape, Others, Processes, Creating, Rereading, Present, Frozen,
     Idle
<1>5. RequestsAreStored'
  BY DEF RequestsAreStored, Frozen
<1>6. CreationIsSound'
  BY <1>1 DEF Concludes, CreationIsSound, Others, Processes, Creating, Content, Present, Idle
<1>7. ReadingIsSound'
  BY <1>1 DEF Concludes, ReadingIsSound, Others, Rereading, Present, Idle, Processes, Confirmed
<1>8. OneClaim'
  BY <1>1, <1>3 DEF Concludes, OneClaim, Claims, Others, Processes, Rereading, Present, Idle
<1>9. SeenIsSound'
  BY <1>1 DEF Concludes, SeenIsSound, Others, Rereading, Present, ForeignCommit, Processes, Idle
<1>10. NothingPremature'
  BY DEF NothingPremature, Present, ForeignCommit, Complete, Verifies
<1>11. ConfirmedIsComplete'
  <2>1. Complete(objects)' <=> Complete(objects)
    BY DEF Complete, Verifies
  <2>2. p \in Archivers /\ answer'[p] \in Confirmed => s = "COMPLETE_VERIFIED" /\ call[p].pending \in Confirmed
    BY <1>1 DEF Concludes, Confirmed
  <2>3. p \in Archivers /\ call[p].pending \in Confirmed => objects[CommitKey].content = request[p]
    BY DEF ReadingIsSound
  <2> QED BY <2>1, <2>2, <2>3 DEF ConfirmedIsComplete, Others, Processes
<1>12. ConflictIsReal'
  <2>1. p \in Archivers /\ answer'[p] = "CONFLICT" => call[p].pending = "CONFLICT"
    BY <1>1 DEF Concludes
  <2>2. p \in Archivers /\ call[p].pending = "CONFLICT" => objects[CommitKey].content # request[p]
    BY DEF ReadingIsSound, Confirmed
  <2> QED BY <1>3, <2>1, <2>2 DEF ConflictIsReal, Others, Processes, Present
<1>13. ErrorIsExplained'
  <2>1. p \in Archivers /\ answer'[p] = "ERROR" => s # "COMPLETE_VERIFIED"
    BY <1>1, <1>2, <1>3 DEF Concludes, Decisive, Confirmed
  <2>2. p \in Archivers /\ s # "COMPLETE_VERIFIED" => faults' > 0 \/ ForeignCommit
    BY <1>1 DEF NothingPremature
  <2> QED BY <2>1, <2>2 DEF ErrorIsExplained, Others, Processes, ForeignCommit
<1>14. VerdictWasTrue'
  <2>1. p \in Readers => answer'[p] = s
    BY DEF Concludes
  <2>2. p \in Readers => Truth(objects) \in seen[p]
    BY DEF SeenIsSound
  <2>3. s = "COMPLETE_VERIFIED" => Truth(objects) = "complete"
    BY DEF Truth, Complete
  <2>4. s = "INVALID" => Truth(objects) = "broken"
    BY DEF Truth, Present
  <2>5. s = "INVALID" \/ s = "COMPLETE_VERIFIED" \/ s = "PARTIAL" => s \notin Absences
    BY DEF Absences
  <2> QED BY <2>1, <2>2, <2>3, <2>4, <2>5 DEF VerdictWasTrue, Others, Processes, ForeignCommit
<1> QED BY <1>4, <1>5, <1>6, <1>7, <1>8, <1>9, <1>10, <1>11, <1>12, <1>13, <1>14

\* recover goes from the commit record to the inventory or to the payload.
LEMMA ReadOnInv ==
    ASSUME IInv, TypeOK', NEW p \in Processes, call[p].pc = "get", Others(p),
           UNCHANGED <<objects, request, foreign, seen, creators>>,
           faults \in Nat, faults' \in Nat, faults' >= faults,
           answer'[p] = answer[p], call'[p].pending = call[p].pending,
           \/ ~Present(CommitKey) /\ call'[p].pc = "keys"
           \/ /\ Present(CommitKey) /\ objects[CommitKey].content.bundle \in Genuine
              /\ call'[p].pc = "verify" /\ call'[p].found = objects[CommitKey].content
    PROVE  IInv'
<1>. USE DEF IInv
<1>1. p \in Archivers <=> p \notin Readers
  BY ProcessAssumption DEF Processes
<1>2. p \in Archivers => Present(CommitKey)
  BY DEF Shape, Rereading
<1>3. Shape'
  BY <1>1, <1>2 DEF Shape, Others, Processes, Creating, Rereading, Present, Frozen, Idle
<1>4. RequestsAreStored'
  BY <1>1, <1>2 DEF RequestsAreStored, Frozen
<1>5. CreationIsSound'
  BY <1>1, <1>2 DEF CreationIsSound, Others, Processes, Creating, Content, Present, Idle
<1>6. ReadingIsSound'
  BY <1>1, <1>2 DEF ReadingIsSound, Others, Rereading, Present, Idle, Processes, Confirmed
<1>7. OneClaim'
  BY <1>1, <1>2 DEF OneClaim, Claims, Others, Processes, Rereading, Present, Idle
<1>8. SeenIsSound'
  BY <1>1, <1>2 DEF SeenIsSound, Others, Rereading, Present, ForeignCommit, Processes, Truth
<1>9. NothingPremature'
  BY <1>1, <1>2 DEF NothingPremature, Present, ForeignCommit, Complete, Verifies
<1>10. ConfirmedIsComplete'
  BY <1>1, <1>2 DEF ConfirmedIsComplete, Others, Processes, Complete, Verifies, Confirmed
<1>11. ConflictIsReal'
  BY <1>1, <1>2 DEF ConflictIsReal, Others, Processes, Present
<1>12. ErrorIsExplained'
  BY <1>1, <1>2 DEF ErrorIsExplained, Others, Processes, ForeignCommit
<1>13. VerdictWasTrue'
  BY <1>1, <1>2 DEF VerdictWasTrue, Others, Processes, ForeignCommit
<1> QED BY <1>3, <1>4, <1>5, <1>6, <1>7, <1>8, <1>9, <1>10, <1>11, <1>12, <1>13

\* GetCommit preserves the invariant.
LEMMA GetCommitInv ==
    ASSUME IInv, NEW p \in Processes, GetCommit(p)
    PROVE  IInv'
<1>1. /\ Others(p) /\ faults \in Nat /\ faults' \in Nat /\ faults' >= faults
      /\ \/ Concludes(p, "ERROR") /\ faults' > 0
         \/ /\ ~Present(CommitKey) /\ UNCHANGED creators
            /\ call'[p].pc = "keys" /\ call'[p].pending = call[p].pending /\ answer'[p] = answer[p]
         \/ /\ Present(CommitKey) /\ objects[CommitKey].content.bundle \in Genuine
            /\ UNCHANGED creators /\ answer'[p] = answer[p]
            /\ call'[p].pc = "verify" /\ call'[p].found = objects[CommitKey].content
            /\ call'[p].pending = call[p].pending
         \/ /\ Concludes(p, "INVALID")
            /\ Present(CommitKey) /\ objects[CommitKey].content.bundle \notin Genuine
  BY GetCommitEffect DEF IInv
<1>2. /\ call[p].pc = "get" /\ UNCHANGED <<objects, request, foreign, seen>>
      /\ TypeOK' /\ Rereading(p)
  BY GetCommitTypes DEF GetCommit, Rereading, IInv
<1>3. CASE Concludes(p, "ERROR") /\ faults' > 0
  BY <1>1, <1>2, <1>3, ConcludeInv DEF Verdicts, Absences
<1>4. CASE /\ Concludes(p, "INVALID")
           /\ Present(CommitKey) /\ objects[CommitKey].content.bundle \notin Genuine
  BY <1>1, <1>2, <1>4, ConcludeInv DEF Verdicts, Absences, Complete
<1>5. CASE /\ UNCHANGED creators
           /\ call'[p].pending = call[p].pending /\ answer'[p] = answer[p]
           /\ \/ ~Present(CommitKey) /\ call'[p].pc = "keys"
              \/ /\ Present(CommitKey) /\ objects[CommitKey].content.bundle \in Genuine
                 /\ call'[p].pc = "verify" /\ call'[p].found = objects[CommitKey].content
  BY <1>1, <1>2, <1>5, ReadOnInv
<1> QED BY <1>1, <1>3, <1>4, <1>5

\* ListPayloads preserves the invariant: the verdict of absence and PARTIAL
\* were true when they are given or earlier in the call.
LEMMA ListPayloadsInv ==
    ASSUME IInv, NEW p \in Processes, ListPayloads(p)
    PROVE  IInv'
<1>1. /\ Others(p) /\ faults \in Nat /\ faults' \in Nat /\ faults' >= faults
      /\ \/ Concludes(p, "ERROR") /\ faults' > 0
         \/ Concludes(p, "PARTIAL") /\ \E k \in Payloads : Present(k)
         \/ Concludes(p, AbsenceVerdict) /\ \A k \in Payloads : ~Present(k)
  BY ListPayloadsEffect DEF IInv
<1>2. /\ call[p].pc = "keys" /\ UNCHANGED <<objects, request, foreign, seen>>
      /\ TypeOK' /\ Rereading(p)
  BY ListPayloadsTypes DEF ListPayloads, Rereading, IInv
<1>3. p \in Readers
  BY <1>2 DEF IInv, Shape, Processes
<1>4. CASE Concludes(p, "ERROR") /\ faults' > 0
  BY <1>1, <1>2, <1>4, ConcludeInv DEF Verdicts, Absences
<1>5. CASE Concludes(p, "PARTIAL") /\ \E k \in Payloads : Present(k)
  <2>1. Truth(objects) \in seen[p] /\ (~Present(CommitKey) \/ ForeignCommit \/ "partial" \in seen[p])
    BY <1>2, <1>3 DEF IInv, SeenIsSound
  <2>2. ~Present(CommitKey) => Truth(objects) = "partial"
    BY <1>5 DEF Truth, Present
  <2>3. ForeignCommit \/ "partial" \in seen[p]
    BY <2>1, <2>2
  <2> QED BY <1>1, <1>2, <1>3, <1>5, <2>3, ConcludeInv DEF Verdicts, Absences
<1>6. CASE Concludes(p, AbsenceVerdict) /\ \A k \in Payloads : ~Present(k)
  <2>1. "absent" \in seen[p]
    BY <1>2, <1>3, <1>6 DEF IInv, SeenIsSound
  <2>2. AbsenceVerdict \in Absences
    BY DEF AbsenceVerdict, Absences
  <2>3. /\ AbsenceVerdict \in Verdicts \cup {"ERROR"}
        /\ AbsenceVerdict \notin {"ERROR", "COMPLETE_VERIFIED", "INVALID", "PARTIAL"}
    BY <2>2 DEF Verdicts, Absences
  <2> QED BY <1>1, <1>2, <1>3, <1>6, <2>1, <2>3, ConcludeInv
<1> QED BY <1>1, <1>4, <1>5, <1>6

\* VerifyPayload preserves the invariant: the record is immutable, so what
\* was read is what is there.
LEMMA VerifyPayloadInv ==
    ASSUME IInv, NEW p \in Processes, VerifyPayload(p)
    PROVE  IInv'
<1>1. /\ Others(p) /\ faults \in Nat /\ faults' \in Nat /\ faults' >= faults
      /\ \/ Concludes(p, "ERROR") /\ faults' > 0
         \/ Concludes(p, "COMPLETE_VERIFIED") /\ Verifies(objects, call[p].found)
         \/ Concludes(p, "INVALID") /\ ~Verifies(objects, call[p].found)
  BY VerifyPayloadEffect DEF IInv
<1>2. /\ call[p].pc = "verify" /\ UNCHANGED <<objects, request, foreign, seen>>
      /\ TypeOK' /\ Rereading(p)
  BY VerifyPayloadTypes DEF VerifyPayload, Rereading, IInv
<1>3. Present(CommitKey) /\ (Verifies(objects, call[p].found) <=> Complete(objects))
  BY <1>2 DEF IInv, ReadingIsSound, Complete, Present
<1>4. CASE Concludes(p, "ERROR") /\ faults' > 0
  BY <1>1, <1>2, <1>4, ConcludeInv DEF Verdicts, Absences
<1>5. CASE Concludes(p, "COMPLETE_VERIFIED") /\ Verifies(objects, call[p].found)
  BY <1>1, <1>2, <1>3, <1>5, ConcludeInv DEF Verdicts, Absences
<1>6. CASE Concludes(p, "INVALID") /\ ~Verifies(objects, call[p].found)
  BY <1>1, <1>2, <1>3, <1>6, ConcludeInv DEF Verdicts, Absences
<1> QED BY <1>1, <1>4, <1>5, <1>6

\* A write to an absent key changes nothing that is there, so a complete
\* record stays complete.
LEMMA GrowsKeeps ==
    ASSUME TypeOK, Shape, NEW k \in Keys, Grows(k)
    PROVE  /\ \A j \in Keys : Present(j) => objects'[j] = objects[j] /\ Present(j)'
           /\ \A j \in Keys : Present(j)' => Present(j) \/ j = k
           /\ Complete(objects) => Complete(objects')
           /\ \A r \in Readers : seen[r] \subseteq seen'[r]
           /\ \A r \in Readers : call[r].pc = "idle" => seen'[r] = seen[r]
           /\ \A r \in Readers : call[r].pc # "idle" => Truth(objects') \in seen'[r]
<1>1. /\ \A j \in Keys : Present(j) => objects'[j] = objects[j] /\ Present(j)'
      /\ \A j \in Keys : Present(j)' => Present(j) \/ j = k
  BY DEF Grows, Present
<1>2. ASSUME Complete(objects) PROVE Complete(objects')
  <2>1. /\ CommitKey \in Keys /\ Present(CommitKey)
        /\ objects[CommitKey].content \in Record /\ objects'[CommitKey] = objects[CommitKey]
    BY <1>1, <1>2 DEF Complete, Present, Shape, Keys
  <2>2. DEFINE q == objects[CommitKey].content.payload
  <2>3. q \in Keys /\ Verifies(objects, objects[CommitKey].content)
        /\ objects[CommitKey].content.version \in Nat \ {0}
    BY <1>2, <2>1 DEF Complete, Record, Keys
  <2>4. objects[q] # Absent
    BY <2>3 DEF Verifies, Absent
  <2>5. objects'[q] = objects[q]
    BY <1>1, <2>3, <2>4 DEF Present
  <2> QED BY <1>2, <2>1, <2>5 DEF Complete, Verifies
<1>3. /\ \A r \in Readers : seen[r] \subseteq seen'[r]
      /\ \A r \in Readers : call[r].pc = "idle" => seen'[r] = seen[r]
      /\ \A r \in Readers : call[r].pc # "idle" => Truth(objects') \in seen'[r]
  BY DEF Grows
<1> QED BY <1>1, <1>2, <1>3

\* What an archiver has in hand stays in the store.
LEMMA RequestsKept ==
    ASSUME TypeOK, Shape, RequestsAreStored, NEW k \in Keys, Grows(k),
           NEW a \in Archivers, request[a] # NoRequest
    PROVE  /\ request[a].payload \in Keys /\ request[a].payload # CommitKey
           /\ objects[request[a].payload]
               = [content |-> request[a].payload, version |-> request[a].version]
           /\ objects'[request[a].payload] = objects[request[a].payload]
<1>1. /\ request[a].payload \in Payloads /\ request[a].version \in Nat \ {0}
      /\ objects[request[a].payload]
               = [content |-> request[a].payload, version |-> request[a].version]
  BY DEF TypeOK, Request, RequestsAreStored
<1>2. objects[request[a].payload] # Absent
  BY <1>1 DEF Absent
<1> QED BY <1>1, <1>2, GrowsKeeps, ContentAssumption DEF Keys, Present

\* A write of another tool preserves the invariant.
LEMMA PutForeignInv ==
    ASSUME IInv, NEW f \in Foreign, PutForeign(f)
    PROVE  IInv'
<1>. USE DEF IInv
<1>1. /\ UNCHANGED <<call, request, answer, faults, creators>>
      /\ foreign' = foreign \cup {f}
  BY DEF PutForeign
<1>2. /\ f.key \in Keys /\ CommitKey \in Keys /\ Payloads \subseteq Keys
      /\ f.key = CommitKey => f.content \in Record
  BY EnvironmentAssumption, ContentAssumption DEF Keys
<1>3. Grows(f.key) /\ objects'[f.key] = [content |-> f.content, version |-> seq + 1]
  BY <1>2, StoreEffect DEF PutForeign
<1>4. /\ \A j \in Keys : Present(j) => objects'[j] = objects[j] /\ Present(j)'
      /\ \A j \in Keys : Present(j)' => Present(j) \/ j = f.key
      /\ Complete(objects) => Complete(objects')
      /\ \A r \in Readers : seen[r] \subseteq seen'[r]
      /\ \A r \in Readers : call[r].pc = "idle" => seen'[r] = seen[r]
      /\ \A r \in Readers : call[r].pc # "idle" => Truth(objects') \in seen'[r]
  BY <1>2, <1>3, GrowsKeeps
<1>5. /\ ForeignCommit => ForeignCommit'
      /\ f.key = CommitKey => ForeignCommit'
  BY <1>1 DEF ForeignCommit
<1>6. TypeOK'
  BY PutForeignTypes
<1>7. Shape'
  BY <1>1, <1>2, <1>3, <1>4 DEF Shape, Creating, Rereading, Frozen
<1>8. RequestsAreStored'
  BY <1>1, <1>2, <1>3, RequestsKept DEF RequestsAreStored, Frozen
<1>9. CreationIsSound'
  <2>1. ASSUME NEW a \in Archivers, call[a].pc = "check"
        PROVE  objects'[call[a].key] = objects[call[a].key]
    <3>1. call[a].key \in Keys /\ call[a].version # 0
          /\ objects[call[a].key] = [content |-> Content(a), version |-> call[a].version]
      BY <2>1 DEF Shape, Creating, CreationIsSound
    <3>2. Present(call[a].key)
      BY <3>1 DEF Present, Absent
    <3> QED BY <1>4, <3>1, <3>2
  <2>2. \A a \in Archivers : call[a].pc = "reconcile" => call[a].key \in Keys
    BY DEF Shape, Creating
  <2> QED BY <1>1, <1>4, <2>1, <2>2 DEF CreationIsSound, Creating, Content
<1>10. ReadingIsSound'
  <2>1. \A a \in Archivers : Rereading(a) => objects'[CommitKey] = objects[CommitKey]
    BY <1>2, <1>4 DEF Shape
  <2> QED BY <1>1, <1>2, <1>4, <2>1 DEF ReadingIsSound, Rereading
<1>11. OneClaim'
  BY <1>1, <1>2, <1>4 DEF OneClaim, Claims, Rereading
<1>12. SeenIsSound'
  <2>1. \A r \in Readers : Rereading(r) => call[r].pc # "idle"
    BY DEF Rereading
  <2>2. ~ForeignCommit' => (Present(CommitKey)' <=> Present(CommitKey)) /\ ~ForeignCommit
    BY <1>2, <1>4, <1>5
  <2>3. (\A p \in Payloads : ~Present(p)') => \A p \in Payloads : ~Present(p)
    BY <1>2, <1>4
  <2> QED BY <1>1, <1>4, <2>1, <2>2, <2>3 DEF SeenIsSound, Rereading
<1>13. NothingPremature'
  BY <1>2, <1>4, <1>5 DEF NothingPremature
<1>14. ConfirmedIsComplete'
  BY <1>1, <1>2, <1>4 DEF ConfirmedIsComplete, Complete, Present
<1>15. ConflictIsReal'
  BY <1>1, <1>2, <1>4 DEF ConflictIsReal
<1>16. ErrorIsExplained'
  BY <1>1, <1>5 DEF ErrorIsExplained
<1>17. VerdictWasTrue'
  BY <1>1, <1>4, <1>5 DEF VerdictWasTrue
<1> QED BY <1>6, <1>7, <1>8, <1>9, <1>10, <1>11, <1>12, <1>13, <1>14, <1>15, <1>16, <1>17

\* The death of a process preserves the invariant.
LEMMA CrashInv ==
    ASSUME IInv, NEW p \in Processes, Crash(p)
    PROVE  IInv'
<1>. USE DEF IInv
<1>1. /\ UNCHANGED <<objects, foreign, creators, seen>> /\ Others(p)
      /\ call'[p] = Idle /\ answer'[p] = "none" /\ faults' > 0
      /\ \A a \in Archivers : \/ request'[a] = request[a]
                              \/ a = p /\ request'[a] = NoRequest
  BY ReturnEffect, ChargeEffect DEF Crash, history, TypeOK
<1>2. p \in Archivers <=> p \notin Readers
  BY ProcessAssumption DEF Processes
<1>3. TypeOK'
  BY CrashTypes
<1>4. Shape'
  BY <1>1, <1>2 DEF Shape, Others, Processes, Creating, Rereading, Present, Frozen, Idle
<1>5. RequestsAreStored'
  BY <1>1 DEF RequestsAreStored, Frozen
<1>6. CreationIsSound'
  BY <1>1, <1>2 DEF CreationIsSound, Others, Processes, Creating, Content, Present, Idle
<1>7. ReadingIsSound'
  BY <1>1, <1>2 DEF ReadingIsSound, Others, Rereading, Present, Idle, Processes, Confirmed
<1>8. OneClaim'
  BY <1>1, <1>2 DEF OneClaim, Claims, Others, Processes, Rereading, Present, Idle
<1>9. SeenIsSound'
  BY <1>1, <1>2 DEF SeenIsSound, Others, Rereading, Present, ForeignCommit, Processes, Idle
<1>10. NothingPremature'
  BY <1>1 DEF NothingPremature, Present, ForeignCommit, Complete, Verifies
<1>11. ConfirmedIsComplete'
  BY <1>1 DEF ConfirmedIsComplete, Others, Processes, Complete, Verifies, Confirmed
<1>12. ConflictIsReal'
  BY <1>1 DEF ConflictIsReal, Others, Processes, Present
<1>13. ErrorIsExplained'
  BY <1>1 DEF ErrorIsExplained, Others, Processes, ForeignCommit
<1>14. VerdictWasTrue'
  BY <1>1 DEF VerdictWasTrue, Others, Processes, ForeignCommit, Absences
<1> QED BY <1>3, <1>4, <1>5, <1>6, <1>7, <1>8, <1>9, <1>10, <1>11, <1>12, <1>13, <1>14

\* PutIfAbsent preserves the invariant: the commit record appears after its
\* payload has been verified, and readers that started before saw the payload
\* alone.
LEMMA PutIfAbsentInv ==
    ASSUME IInv, NEW a \in Archivers, PutIfAbsent(a)
    PROVE  IInv'
<1>. USE DEF IInv
<1>0. PICK k, new : k = call[a].key /\ new = [content |-> Content(a), version |-> seq + 1]
  OBVIOUS
<1>. USE <1>0
<1>1. /\ UNCHANGED <<request, foreign, creators>>
      /\ call[a].pc = "put" /\ Creating(a) /\ a \in Processes /\ a \notin Readers
  BY ProcessAssumption DEF PutIfAbsent, Creating, Processes
<1>2. /\ k \in Keys /\ CommitKey \in Keys /\ Payloads \subseteq Keys
      /\ k = CommitKey <=> Frozen(a)
      /\ k = CommitKey => Content(a) \in Record /\ Content(a) = request[a]
      /\ answer[a] = "none" /\ seq \in Nat
  BY <1>1, ContentType DEF Shape, Keys, TypeOK, Content
<1>3. /\ Others(a) /\ faults \in Nat /\ faults' \in Nat /\ faults' >= faults
      /\ \/ ~Present(k) /\ Grows(k) /\ objects'[k] = new
         \/ UNCHANGED <<objects, seq, seen>>
      /\ \/ Ends(a, "ERROR") /\ faults' > 0
         \/ /\ ~Present(k) /\ objects'[k] = new
            /\ call'[a].pc = "check" /\ call'[a].key = k
            /\ call'[a].version = seq + 1 /\ answer'[a] = answer[a]
         \/ /\ call'[a].pc = "reconcile" /\ call'[a].key = k
            /\ answer'[a] = answer[a]
            /\ faults' > 0 \/ Present(k)
  BY <1>2, PutIfAbsentEffect
<1>4. /\ \A j \in Keys : Present(j) => objects'[j] = objects[j] /\ Present(j)'
      /\ \A j \in Keys : Present(j)' => Present(j) \/ (j = k /\ objects'[k] = new)
      /\ Complete(objects) => Complete(objects')
      /\ \A r \in Readers : seen[r] \subseteq seen'[r]
      /\ \A r \in Readers : call[r].pc = "idle" => seen'[r] = seen[r]
      /\ \A r \in Readers : Rereading(r) => Truth(objects') \in seen'[r]
  <2>1. CASE Grows(k) /\ objects'[k] = new
    BY <1>2, <2>1, GrowsKeeps DEF Rereading
  <2>2. CASE UNCHANGED <<objects, seq, seen>>
    BY <2>2 DEF Present, Complete, Verifies, SeenIsSound
  <2> QED BY <1>3, <2>1, <2>2
<1>5. ASSUME NEW b \in Archivers, request[b] # NoRequest
      PROVE  objects'[request[b].payload]
               = [content |-> request[b].payload, version |-> request[b].version]
  <2>1. CASE Grows(k)
    BY <1>2, <1>5, <2>1, RequestsKept
  <2>2. CASE UNCHANGED <<objects, seq, seen>>
    BY <1>5, <2>2 DEF RequestsAreStored
  <2> QED BY <1>3, <2>1, <2>2
<1>6. \A p \in Processes : p # a => call'[p] = call[p] /\ answer'[p] = answer[p]
  BY <1>3 DEF Others
<1>7. /\ \/ call'[a] = Idle /\ faults' > 0
            /\ answer'[a] = IF k = CommitKey THEN "ERROR" ELSE "none"
         \/ /\ ~Present(k) /\ objects'[k] = new
            /\ call'[a].pc = "check" /\ call'[a].key = k
            /\ call'[a].version = seq + 1 /\ answer'[a] = "none"
         \/ /\ call'[a].pc = "reconcile" /\ call'[a].key = k
            /\ answer'[a] = "none" /\ (faults' > 0 \/ Present(k))
      /\ ForeignCommit' <=> ForeignCommit
  BY <1>1, <1>2, <1>3 DEF Ends, ForeignCommit
<1>8. new.content = Content(a) /\ new.version = seq + 1 /\ seq + 1 # 0 /\ new # Absent
  BY <1>2 DEF Absent
<1>9. TypeOK'
  BY PutIfAbsentTypes
<1>10. Shape'
  BY <1>1, <1>2, <1>4, <1>6, <1>7, <1>8 DEF Shape, Processes, Creating, Rereading, Frozen, Idle
<1>11. RequestsAreStored'
  BY <1>1, <1>5 DEF RequestsAreStored, Frozen
<1>12. CreationIsSound'
  <2>1. ASSUME NEW b \in Archivers, b # a, call[b].pc = "check"
        PROVE  objects'[call[b].key] = objects[call[b].key]
    <3>1. call[b].key \in Keys /\ call[b].version # 0
          /\ objects[call[b].key] = [content |-> Content(b), version |-> call[b].version]
      BY <2>1 DEF Shape, Creating, CreationIsSound
    <3>2. Present(call[b].key)
      BY <3>1 DEF Present, Absent
    <3> QED BY <1>4, <3>1, <3>2
  <2>2. \A b \in Archivers : b # a => call'[b] = call[b] /\ Content(b)' = Content(b)
    BY <1>1, <1>6 DEF Processes, Content
  <2>3. \A b \in Archivers : call[b].pc = "reconcile" => call[b].key \in Keys
    BY DEF Shape, Creating
  <2>4. \A b \in Archivers : b # a => /\ Creating(b)' => Creating(b)
    BY <2>2 DEF Creating
  <2>5. call'[a].key = k => Content(a)' = Content(a)
    BY <1>1 DEF Content
  <2>6. ASSUME NEW b \in Archivers, b # a
        PROVE  /\ Creating(b)' /\ call'[b].key = CommitKey => request'[b].payload \in Sound
               /\ call'[b].pc = "check" =>
                    /\ call'[b].version # 0
                    /\ objects'[call'[b].key] = [content |-> Content(b)', version |-> call'[b].version]
               /\ call'[b].pc = "reconcile" /\ faults' = 0 => Present(call[b].key)'
    BY <1>1, <1>3, <1>4, <2>1, <2>2, <2>3, <2>4, <2>6 DEF CreationIsSound
  <2>7. /\ Creating(a)' /\ call'[a].key = CommitKey => request'[a].payload \in Sound
        /\ call'[a].pc = "check" =>
             /\ call'[a].version # 0
             /\ objects'[call'[a].key] = [content |-> Content(a)', version |-> call'[a].version]
        /\ call'[a].pc = "reconcile" /\ faults' = 0 => Present(k)'
    <3>1. k = CommitKey => request'[a].payload \in Sound
      BY <1>1 DEF CreationIsSound
    <3>2. Present(k) => Present(k)'
      BY <1>2, <1>4
    <3>3. CASE call'[a] = Idle
      BY <3>3 DEF Idle, Creating
    <3>4. CASE /\ call'[a].pc = "check" /\ call'[a].key = k /\ call'[a].version = seq + 1
               /\ objects'[k] = new
      BY <1>8, <2>5, <3>1, <3>4
    <3>5. CASE call'[a].pc = "reconcile" /\ call'[a].key = k /\ (faults' > 0 \/ Present(k))
      BY <3>1, <3>2, <3>5
    <3> QED BY <1>7, <3>3, <3>4, <3>5
  <2>8. \A b \in Archivers : call'[b].pc = "reconcile" => call'[b].key = call[b].key
    BY <1>7, <2>2 DEF Idle
  <2> QED BY <2>6, <2>7, <2>8 DEF CreationIsSound, Present
<1>13. ReadingIsSound'
  <2>1. Present(CommitKey) => Present(CommitKey)' /\ objects'[CommitKey] = objects[CommitKey]
    BY <1>2, <1>4
  <2>2. \A b \in Archivers : Rereading(b) => Present(CommitKey)
    BY DEF Shape
  <2>3. call'[a].pc # "verify" /\ ~Rereading(a)'
    BY <1>7 DEF Idle, Rereading
  <2> QED BY <1>1, <1>6, <2>1, <2>2, <2>3 DEF ReadingIsSound, Rereading, Processes
<1>14. OneClaim'
  <2>1. \A b \in Archivers : Claims(b) => Present(CommitKey)
    BY DEF OneClaim
  <2>2. \A b \in Archivers : b # a => (Claims(b)' <=> Claims(b))
    BY <1>1, <1>6 DEF Claims, Rereading, Processes
  <2>3. Claims(a)' => Claims(a) \/ (k = CommitKey /\ ~Present(k) /\ objects'[k] = new)
    BY <1>1, <1>7 DEF Claims, Rereading, Idle
  <2>4. objects'[k] = new => Present(k)'
    BY <1>8 DEF Present
  <2> QED BY <1>4, <1>2, <2>1, <2>2, <2>3, <2>4 DEF OneClaim
<1>15. SeenIsSound'
  <2>1. ASSUME NEW r \in Readers PROVE call'[r] = call[r]
    BY <1>1, <1>6, <2>1 DEF Processes
  <2>2. (\A p \in Payloads : ~Present(p)') => \A p \in Payloads : ~Present(p)
    BY <1>2, <1>4
  <2>3. ASSUME NEW r \in Readers, call[r].pc = "keys", ~Present(CommitKey), Present(CommitKey)'
        PROVE  "partial" \in seen[r]
    <3>1. k = CommitKey /\ Frozen(a)
      BY <1>2, <1>4, <2>3
    <3>2. request[a] # NoRequest
      BY <3>1 DEF Frozen, NoRequest
    <3>3. /\ request[a].payload \in Payloads /\ request[a].version # 0
          /\ objects[request[a].payload] = [content |-> request[a].payload, version |-> request[a].version]
      BY <3>2 DEF RequestsAreStored, TypeOK, Request
    <3>4. objects[request[a].payload] # Absent
      BY <3>3 DEF Absent
    <3>5. Truth(objects) = "partial"
      BY <2>3, <3>3, <3>4 DEF Truth, Present
    <3> QED BY <2>3, <3>5 DEF SeenIsSound, Rereading
  <2> QED BY <1>4, <1>7, <2>1, <2>2, <2>3 DEF SeenIsSound, Rereading
<1>16. NothingPremature'
  <2>1. CASE Present(CommitKey)
    BY <1>4, <1>7, <2>1 DEF NothingPremature
  <2>2. CASE ~Present(CommitKey) /\ Present(CommitKey)'
    <3>1. k = CommitKey /\ objects'[CommitKey] = new /\ Frozen(a) /\ Content(a) = request[a]
      BY <1>2, <1>4, <2>2
    <3>2. request[a] # NoRequest
      BY <3>1 DEF Frozen, NoRequest
    <3>3. /\ objects'[CommitKey].content = request[a] /\ request[a].bundle \in Genuine
          /\ request[a].payload \in Sound /\ objects'[CommitKey] # Absent
      BY <1>1, <1>8, <3>1, <3>2 DEF RequestsAreStored, CreationIsSound
    <3>4. objects'[request[a].payload]
            = [content |-> request[a].payload, version |-> request[a].version]
      BY <1>5, <3>2
    <3>5. Verifies(objects', request[a])
      BY <3>3, <3>4 DEF Verifies
    <3> QED BY <3>3, <3>5 DEF NothingPremature, Complete
  <2> QED BY <2>1, <2>2 DEF NothingPremature
<1>17. ConfirmedIsComplete'
  <2>1. answer'[a] \notin Confirmed
    BY <1>7 DEF Confirmed
  <2>2. Complete(objects) => objects'[CommitKey] = objects[CommitKey]
    BY <1>2, <1>4 DEF Complete, Present
  <2> QED BY <1>1, <1>4, <1>6, <2>1, <2>2 DEF ConfirmedIsComplete, Processes
<1>18. ConflictIsReal'
  BY <1>1, <1>2, <1>4, <1>6, <1>7 DEF ConflictIsReal, Processes
<1>19. ErrorIsExplained'
  BY <1>1, <1>3, <1>6, <1>7 DEF ErrorIsExplained, Processes
<1>20. VerdictWasTrue'
  BY <1>1, <1>4, <1>6, <1>7 DEF VerdictWasTrue, Processes
<1> QED BY <1>9, <1>10, <1>11, <1>12, <1>13, <1>14, <1>15, <1>16, <1>17, <1>18, <1>19, <1>20

\* The invariant holds initially.
LEMMA InitInv ==
    ASSUME Init
    PROVE  IInv
<1>1. /\ objects = [k \in Keys |-> Absent] /\ call = [p \in Processes |-> Idle]
      /\ request = [a \in Archivers |-> NoRequest] /\ answer = [p \in Processes |-> "none"]
      /\ seen = [r \in Readers |-> {}] /\ creators = {}
  BY DEF Init
<1>2. /\ Archivers \subseteq Processes /\ Readers \subseteq Processes
      /\ Payloads \subseteq Keys /\ CommitKey \in Keys
      /\ Idle.pc = "idle" /\ NoRequest.bundle = None
  BY DEF Processes, Keys, Idle, NoRequest
<1>3. TypeOK
  <2>1. Idle \in Call /\ Absent \in Object /\ NoRequest \in Request /\ "none" \in Answers
    BY DEF Idle, Call, Stages, Object, Request, Answers
  <2>2. 0 \in 0 .. MaxFaults
    BY EnvironmentAssumption
  <2> QED BY <1>1, <2>1, <2>2 DEF Init, TypeOK
<1>4. /\ \A k \in Keys : ~Present(k)
      /\ \A p \in Processes : call[p].pc = "idle" /\ answer[p] = "none"
      /\ \A a \in Archivers : request[a] = NoRequest /\ ~Frozen(a)
  BY <1>1, <1>2 DEF Present, Frozen
<1>5. Shape /\ CreationIsSound
  BY <1>2, <1>4 DEF Shape, CreationIsSound, Creating, Rereading
<1>6. RequestsAreStored /\ NothingPremature
  BY <1>2, <1>4 DEF RequestsAreStored, NothingPremature
<1>7. ReadingIsSound /\ OneClaim /\ SeenIsSound
  BY <1>1, <1>2, <1>4 DEF ReadingIsSound, OneClaim, Claims, SeenIsSound, Rereading
<1>8. ConfirmedIsComplete /\ ConflictIsReal
  BY <1>2, <1>4 DEF ConfirmedIsComplete, ConflictIsReal, Confirmed
<1>9. ErrorIsExplained /\ VerdictWasTrue
  BY <1>2, <1>4 DEF ErrorIsExplained, VerdictWasTrue, Absences
<1> QED BY <1>3, <1>5, <1>6, <1>7, <1>8, <1>9 DEF IInv

\* Stuttering preserves the invariant.
LEMMA StutterInv ==
    ASSUME IInv, UNCHANGED vars
    PROVE  IInv'
<1>1. UNCHANGED <<objects, seq, call, request, answer, faults, foreign, creators, seen>>
  BY DEF vars
<1>2. (TypeOK /\ Shape /\ RequestsAreStored)'
  BY <1>1 DEF IInv, TypeOK, Shape, RequestsAreStored, Creating, Rereading, Present, Frozen
<1>3. (CreationIsSound /\ ReadingIsSound /\ OneClaim /\ SeenIsSound)'
  BY <1>1 DEF IInv, CreationIsSound, ReadingIsSound, OneClaim, SeenIsSound, Claims, Content,
              ForeignCommit, Creating, Rereading, Present
<1>4. (NothingPremature /\ ConfirmedIsComplete /\ ConflictIsReal)'
  BY <1>1 DEF IInv, NothingPremature, ConfirmedIsComplete, ConflictIsReal, Complete, Verifies,
              ForeignCommit, Present
<1>5. (ErrorIsExplained /\ VerdictWasTrue)'
  BY <1>1 DEF IInv, ErrorIsExplained, VerdictWasTrue, ForeignCommit
<1> QED BY <1>2, <1>3, <1>4, <1>5 DEF IInv

\* Every step preserves the invariant.
LEMMA NextInv ==
    ASSUME IInv, [Next]_vars
    PROVE  IInv'
<1>1. ASSUME NEW a \in Archivers, NEW k \in Payloads, StorePayload(a, k)
      PROVE  IInv'
  BY <1>1, StorePayloadInv
<1>2. ASSUME NEW a \in Archivers, NEW b \in Bundles, FreezeCommit(a, b)
      PROVE  IInv'
  BY <1>2, FreezeCommitInv
<1>3. ASSUME NEW a \in Archivers, CommitRecord(a)
      PROVE  IInv'
  BY <1>3, CommitRecordInv
<1>4. ASSUME NEW r \in Readers, Recover(r)
      PROVE  IInv'
  BY <1>4, RecoverInv
<1>5. ASSUME NEW p \in Processes, Progress(p)
      PROVE  IInv'
  BY <1>5, PutIfAbsentInv, CheckInv, ReconcileInv, PeekInv, BeforeInv,
     GetCommitInv, ListPayloadsInv, VerifyPayloadInv DEF Progress
<1>6. ASSUME NEW p \in Processes, Crash(p)
      PROVE  IInv'
  BY <1>6, CrashInv
<1>7. ASSUME NEW f \in Foreign, PutForeign(f)
      PROVE  IInv'
  BY <1>7, PutForeignInv
<1>8. CASE UNCHANGED vars
  BY <1>8, StutterInv
<1> QED BY <1>1, <1>2, <1>3, <1>4, <1>5, <1>6, <1>7, <1>8 DEF Next

\* IInv holds in every reachable state of the custody, whatever the
\* interleaving of archivers and readers, the failed calls, the deaths and
\* the writes of other tools.
THEOREM Inductive == Spec => []IInv
<1>1. Init => IInv
  BY InitInv
<1>2. IInv /\ [Next]_vars => IInv'
  BY NextInv
<1> QED BY <1>1, <1>2, PTL DEF Spec

\* Every variable keeps its type: an object that is present has a version ID.
THEOREM TypeCorrect == Spec => []TypeOK
<1>1. IInv => TypeOK
  BY DEF IInv
<1> QED BY <1>1, Inductive, PTL

\* A commit record that commit_record wrote is never there before its
\* payload, at the pinned version, has passed verification.
THEOREM RecordsAreNeverPremature == Spec => []NothingPremature
<1>1. IInv => NothingPremature
  BY DEF IInv
<1> QED BY <1>1, Inductive, PTL

\* CREATED and ALREADY_PRESENT_IDENTICAL are only reported of the very bytes
\* of the request, in a complete record.
THEOREM ConfirmationsAreComplete == Spec => []ConfirmedIsComplete
<1>1. IInv => ConfirmedIsComplete
  BY DEF IInv
<1> QED BY <1>1, Inductive, PTL

\* CONFLICT is only reported when other bytes have taken the key.
THEOREM ConflictsAreReal == Spec => []ConflictIsReal
<1>1. IInv => ConflictIsReal
  BY DEF IInv
<1> QED BY <1>1, Inductive, PTL

\* However many archivers finalize the release, at most one is told it
\* created the record.
THEOREM AtMostOneCreated == Spec => []CreatedOnce
<1>1. IInv => CreatedOnce
  BY DEF IInv, TypeOK, OneClaim, Claims, CreatedOnce
<1> QED BY <1>1, Inductive, PTL

\* Without a fault, a foreign record or a refused payload, no interleaving
\* ends commit_record in an ERROR.
THEOREM ErrorsAreExplained == Spec => []ErrorIsExplained
<1>1. IInv => ErrorIsExplained
  BY DEF IInv
<1> QED BY <1>1, Inductive, PTL

\* What recover tells a reader was the case at some moment of its call.
THEOREM VerdictsWereTrue == Spec => []VerdictWasTrue
<1>1. IInv => VerdictWasTrue
  BY DEF IInv
<1> QED BY <1>1, Inductive, PTL

-----------------------------------------------------------------------------
(* The custody implements the register: what an observer of the commit     *)
(* record, of the frozen requests and of the answers sees of each step.    *)

\* A step of p leaves the claims of the other archivers as they were.
LEMMA OtherClaims ==
    ASSUME NEW p \in Processes, Others(p),
           \A b \in Archivers : b # p => (b \in creators' <=> b \in creators),
           NEW b \in Archivers, b # p
    PROVE  Claims(b)' <=> Claims(b)
<1>1. call'[b] = call[b] /\ (b \in creators' <=> b \in creators)
  BY DEF Others, Processes
<1> QED BY <1>1 DEF Claims, Rereading

\* What is frozen is a record.
LEMMA FrozenIsRecord ==
    ASSUME TypeOK, NEW a \in Archivers, Frozen(a)
    PROVE  request[a] \in Record /\ request[a] # NoRequest
BY DEF TypeOK, Frozen, Request, NoRequest, Record

\* A step that leaves all of the view alone is a stutter of the register.
LEMMA RegisterStutter ==
    ASSUME objects'[CommitKey] = objects[CommitKey],
           \A b \in Archivers :
              /\ Frozen(b)' <=> Frozen(b)
              /\ Frozen(b) => request'[b] = request[b]
              /\ answer'[b] = answer[b]
              /\ Claims(b)' <=> Claims(b)
    PROVE  UNCHANGED Register!registerVars
<1>1. Committed' = Committed
  BY DEF Committed, Present
<1>2. Asked' = Asked /\ Told' = Told
  BY DEF Asked, Told
<1>3. {a \in Archivers : Claims(a)}' = {a \in Archivers : Claims(a)}
  OBVIOUS
<1> QED BY <1>1, <1>2, <1>3 DEF Register!registerVars

\* A step that gives one archiver an answer, with a claim if it is CREATED.
LEMMA RegisterAnswer ==
    ASSUME IInv, IInv', NEW a \in Archivers, Frozen(a), Others(a), request'[a] = request[a],
           \A b \in Archivers : b # a => request'[b] = request[b],
           objects'[CommitKey] = objects[CommitKey],
           answer'[a] \in Decisive \cup {"ERROR"},
           answer'[a] = "CREATED" => Claims(a),
           Claims(a)' => Claims(a),
           \A b \in Archivers : b # a => (b \in creators' <=> b \in creators)
    PROVE  Register!Next
<1> DEFINE t == answer'[a]
<1>1. Committed' = Committed
  BY DEF Committed, Present
<1>2. Asked' = Asked /\ Asked[a] = {request[a]}
  <2>1. \A b \in Archivers : request'[b] = request[b]
    OBVIOUS
  <2> QED BY <2>1 DEF Asked, Frozen
<1>3. Told' = [Told EXCEPT ![a] = t]
  <2>1. \A b \in Archivers : b # a => answer'[b] = answer[b]
    BY DEF Others, Processes
  <2> QED BY <2>1 DEF Told
<1>4. {b \in Archivers : Claims(b)}' \in
        {{b \in Archivers : Claims(b)}, {b \in Archivers : Claims(b)} \ {a}}
  <2>1. \A b \in Archivers : b # a => (Claims(b)' <=> Claims(b))
    BY OtherClaims DEF Processes
  <2>2. CASE Claims(a)' <=> Claims(a)
    BY <2>1, <2>2
  <2>3. CASE ~(Claims(a)' <=> Claims(a))
    <3>1. {b \in Archivers : Claims(b)}' = {b \in Archivers : Claims(b)} \ {a}
      BY <2>1, <2>3
    <3> QED BY <3>1
  <2> QED BY <2>2, <2>3
<1>5. t \in Confirmed => Committed = {request[a]}
        /\ request[a] \in {r \in Record : r.payload \in Sound /\ r.bundle \in Genuine}
  <2> SUFFICES ASSUME t \in Confirmed
               PROVE  Committed = {request[a]} /\ request[a].payload \in Sound
                      /\ request[a].bundle \in Genuine
    BY FrozenIsRecord DEF IInv
  <2>1. objects'[CommitKey].content = request'[a] /\ Complete(objects')
    BY DEF IInv, ConfirmedIsComplete
  <2> QED BY <2>1 DEF Complete, Verifies, Committed, Present
<1>6. t = "CONFLICT" => Committed # {} /\ Committed # {request[a]}
  <2> SUFFICES ASSUME t = "CONFLICT" PROVE Committed # {} /\ Committed # {request[a]}
    OBVIOUS
  <2>1. Present(CommitKey)' /\ objects'[CommitKey].content # request'[a]
    BY DEF IInv, ConflictIsReal
  <2> QED BY <2>1 DEF Present, Committed
<1>7. Register!Answer(a, t)
  <2> HIDE DEF t
  <2>1. t = "CREATED" => a \in {b \in Archivers : Claims(b)}
    BY DEF t
  <2>2. t \in {"CREATED", "ALREADY_PRESENT_IDENTICAL"} => t \in Confirmed
    BY DEF Confirmed
  <2> QED BY <1>1, <1>2, <1>3, <1>4, <1>5, <1>6, <2>1, <2>2 DEF Register!Answer
<1>8. t \in {"CREATED", "ALREADY_PRESENT_IDENTICAL", "CONFLICT", "ERROR"}
  BY DEF Decisive, Confirmed
<1> QED BY <1>7, <1>8 DEF Register!Next

\* What every step that frees no request leaves of the requests.
LEMMA StillFrozen ==
    ASSUME \A b \in Archivers : request'[b] = request[b]
    PROVE  \A b \in Archivers : (Frozen(b)' <=> Frozen(b)) /\ request'[b] = request[b]
BY DEF Frozen

\* A write to a payload key, a failure of it or its confirmation is no step of
\* the register.
LEMMA PayloadStep ==
    ASSUME IInv, NEW a \in Archivers, ~Frozen(a), Others(a), OtherArchivers(a),
           objects'[CommitKey] = objects[CommitKey], creators' = creators,
           call[a].key \in Payloads, Creating(a),
           answer'[a] = answer[a], request'[a].bundle = None,
           call'[a] = Idle \/ (call'[a].pc \in {"check", "reconcile"} /\ call'[a].key = call[a].key)
    PROVE  UNCHANGED Register!registerVars
<1>1. ~Claims(a)' <=> a \notin creators
  BY ContentAssumption DEF Claims, Rereading, Idle
<1>2. ~Claims(a) <=> a \notin creators
  BY ContentAssumption DEF Claims, Rereading, Creating
<1>3. \A b \in Archivers : Claims(b)' <=> Claims(b)
  BY <1>1, <1>2, OtherClaims DEF Processes
<1>4. \A b \in Archivers : /\ Frozen(b)' <=> Frozen(b)
                           /\ Frozen(b) => request'[b] = request[b]
                           /\ answer'[b] = answer[b]
  BY DEF OtherArchivers, Frozen
<1> QED BY <1>3, <1>4, RegisterStutter

\* Storing a payload begins without a request.
LEMMA StorePayloadRefines ==
    ASSUME IInv, IInv', NEW a \in Archivers, NEW k \in Payloads, StorePayload(a, k)
    PROVE  [Register!Next]_Register!registerVars
<1>1. call'[a].pc = "put" /\ call'[a].key = k /\ answer'[a] = answer[a] /\ Others(a)
  BY StorePayloadEffect DEF IInv
<1>2. /\ objects' = objects /\ request' = request /\ creators' = creators /\ answer' = answer
      /\ call[a].pc = "idle"
  BY DEF StorePayload, history
<1>3. \A b \in Archivers : Claims(b)' <=> Claims(b)
  <2>1. Claims(a)' <=> Claims(a)
    BY <1>1, <1>2 DEF Claims, Rereading
  <2> QED BY <1>1, <1>2, <2>1, OtherClaims DEF Processes
<1> QED BY <1>2, <1>3, RegisterStutter DEF Frozen

\* freeze_commit asks for a record.
LEMMA FreezeCommitRefines ==
    ASSUME IInv, IInv', NEW a \in Archivers, NEW b \in Bundles, FreezeCommit(a, b)
    PROVE  [Register!Next]_Register!registerVars
<1>1. /\ objects' = objects /\ creators' = creators /\ answer' = answer /\ call' = call
      /\ request[a] # NoRequest /\ ~Frozen(a) /\ b \in Genuine
      /\ request' = [request EXCEPT ![a].bundle = b]
  BY DEF FreezeCommit, history
<1>2. request'[a] \in Record /\ request'[a].bundle = b
  <2>1. request[a] \in [payload : Payloads, version : Nat \ {0}, bundle : Bundles \cup {None}]
    BY <1>1 DEF IInv, TypeOK, Request
  <2>2. request'[a] = [request[a] EXCEPT !.bundle = b]
    BY <1>1 DEF IInv, TypeOK
  <2> QED BY <2>1, <2>2 DEF Record
<1>3. Frozen(a)' /\ \A c \in Archivers : c # a => request'[c] = request[c]
  BY <1>1, <1>2, ContentAssumption DEF Frozen, IInv, TypeOK
<1>4. Committed' = Committed /\ Told' = Told
  BY <1>1 DEF Committed, Told, Present
<1>5. {c \in Archivers : Claims(c)}' = {c \in Archivers : Claims(c)}
  BY <1>1 DEF Claims, Rereading
<1>6. Asked[a] = {} /\ Asked' = [Asked EXCEPT ![a] = {request'[a]}] /\ request'[a] \in Asked'[a]
  <2>1. Asked' = [c \in Archivers |-> IF Frozen(c)' THEN {request'[c]} ELSE {}]
    BY DEF Asked
  <2>2. \A c \in Archivers : c # a => (Frozen(c)' <=> Frozen(c))
    BY <1>3 DEF Frozen
  <2>3. Asked'[a] = {request'[a]} /\ \A c \in Archivers : c # a => Asked'[c] = Asked[c]
    BY <1>3, <2>1, <2>2 DEF Asked
  <2>4. Asked = [c \in Archivers |-> Asked[c]] /\ Asked' = [c \in Archivers |-> Asked'[c]]
    BY DEF Asked
  <2>5. Asked' = [Asked EXCEPT ![a] = {request'[a]}]
    BY <2>3, <2>4
  <2>6. Asked[a] = {}
    BY <1>1 DEF Asked
  <2> QED BY <2>3, <2>5, <2>6
<1>7. Register!Freeze(a)
  BY <1>2, <1>4, <1>5, <1>6 DEF Register!Freeze
<1> QED BY <1>7 DEF Register!Next

\* A new attempt forgets the answer to the last one.
LEMMA CommitRecordRefines ==
    ASSUME IInv, IInv', NEW a \in Archivers, CommitRecord(a)
    PROVE  [Register!Next]_Register!registerVars
<1>1. call'[a].pc = "peek" /\ answer'[a] = "none" /\ Others(a)
  BY CommitRecordEffect DEF IInv
<1>2. objects' = objects /\ request' = request /\ creators' = creators /\ call[a].pc = "idle"
  BY DEF CommitRecord, history
<1>3. Committed' = Committed /\ Asked' = Asked
  BY <1>2 DEF Committed, Asked, Present, Frozen
<1>4. Told' = [Told EXCEPT ![a] = "none"]
  BY <1>1 DEF Told, Others, Processes
<1>5. {b \in Archivers : Claims(b)}' = {b \in Archivers : Claims(b)}
  <2>1. Claims(a)' <=> Claims(a)
    BY <1>1, <1>2 DEF Claims, Rereading
  <2>2. \A b \in Archivers : Claims(b)' <=> Claims(b)
    BY <1>1, <1>2, <2>1, OtherClaims DEF Processes
  <2> QED BY <2>2
<1>6. Register!Restart(a)
  BY <1>3, <1>4, <1>5 DEF Register!Restart
<1> QED BY <1>6 DEF Register!Next

\* put_if_absent is where a commit takes effect, or another tool's write was
\* there before it.
LEMMA PutIfAbsentRefines ==
    ASSUME IInv, IInv', NEW a \in Archivers, PutIfAbsent(a)
    PROVE  [Register!Next]_Register!registerVars
<1>1. /\ call[a].key \in Keys /\ call[a].pc = "put" /\ Creating(a) /\ a \in Processes
      /\ (call[a].key = CommitKey <=> Frozen(a)) /\ request' = request /\ creators' = creators
  BY DEF IInv, Shape, Creating, PutIfAbsent, Processes, history
<1>2. /\ Others(a)
      /\ \/ /\ ~Present(call[a].key) /\ Grows(call[a].key)
            /\ objects'[call[a].key] = [content |-> Content(a), version |-> seq + 1]
         \/ UNCHANGED <<objects, seq, seen>>
      /\ \/ Ends(a, "ERROR")
         \/ /\ ~Present(call[a].key)
            /\ objects'[call[a].key] = [content |-> Content(a), version |-> seq + 1]
            /\ call'[a].pc = "check" /\ call'[a].key = call[a].key
            /\ answer'[a] = answer[a]
         \/ /\ call'[a].pc = "reconcile" /\ call'[a].key = call[a].key
            /\ answer'[a] = answer[a]
  BY <1>1, PutIfAbsentEffect DEF IInv
<1>3. OtherArchivers(a)
  BY <1>1, <1>2 DEF OtherArchivers, Others, Processes
<1>4. CASE ~Frozen(a)
  <2>1. call[a].key \in Payloads /\ call[a].key # CommitKey
    BY <1>1, <1>4 DEF Keys
  <2>2. objects'[CommitKey] = objects[CommitKey]
    BY <1>2, <2>1 DEF Grows, Keys
  <2>3. answer'[a] = answer[a] /\ request'[a].bundle = None
    BY <1>1, <1>2, <1>4, <2>1 DEF Ends, Frozen
  <2>4. call'[a] = Idle \/ (call'[a].pc \in {"check", "reconcile"} /\ call'[a].key = call[a].key)
    BY <1>2 DEF Ends
  <2> QED BY <1>1, <1>2, <1>3, <1>4, <2>1, <2>2, <2>3, <2>4, PayloadStep
<1>5. CASE Frozen(a) /\ UNCHANGED objects
  <2>1. ~(~Present(CommitKey) /\ objects'[CommitKey] = [content |-> Content(a), version |-> seq + 1])
    <3>1. seq + 1 # 0
      BY DEF IInv, TypeOK
    <3> QED BY <1>5, <3>1 DEF Present, Absent
  <2>2. \/ call'[a] = Idle /\ answer'[a] = "ERROR"
        \/ call'[a].pc = "reconcile" /\ answer'[a] = answer[a]
    BY <1>1, <1>2, <1>5, <2>1 DEF Ends
  <2>3. (Claims(a)' <=> a \in creators) /\ (Claims(a) <=> a \in creators)
    BY <1>1, <2>2 DEF Claims, Rereading, Idle
  <2>4. CASE answer'[a] = "ERROR" /\ call'[a] = Idle
    BY <1>1, <1>2, <1>5, <2>3, <2>4, RegisterAnswer
  <2>5. CASE answer'[a] = answer[a]
    <3>1. \A b \in Archivers : Claims(b)' <=> Claims(b)
      BY <1>1, <1>2, <2>3, OtherClaims
    <3>2. \A b \in Archivers : answer'[b] = answer[b]
      BY <1>2, <2>5 DEF Others, Processes
    <3> QED BY <1>1, <1>5, <3>1, <3>2, RegisterStutter DEF Frozen
  <2> QED BY <2>2, <2>4, <2>5
<1>6. CASE Frozen(a) /\ ~UNCHANGED objects
  <2>1. /\ ~Present(CommitKey) /\ call[a].key = CommitKey
        /\ objects'[CommitKey] = [content |-> request[a], version |-> seq + 1]
    BY <1>1, <1>2, <1>6 DEF Content
  <2>2. seq + 1 # 0
    BY DEF IInv, TypeOK
  <2>3. Committed = {} /\ Committed' = {request[a]}
    BY <2>1, <2>2 DEF Committed, Present, Absent
  <2>4. Asked' = Asked /\ Asked[a] = {request[a]}
    BY <1>1, <1>6 DEF Asked, Frozen
  <2>5. request[a] \in {r \in Record : r.payload \in Sound /\ r.bundle \in Genuine}
    <3>1. request[a].payload \in Sound
      BY <1>1, <2>1 DEF IInv, CreationIsSound
    <3>2. request[a].bundle \in Genuine
      BY <1>6, FrozenIsRecord DEF IInv, RequestsAreStored
    <3> QED BY <1>6, <3>1, <3>2, FrozenIsRecord DEF IInv
  <2>6. \A b \in Archivers : ~Claims(b)
    BY <2>1 DEF IInv, OneClaim
  <2>7. {b \in Archivers : Claims(b)}' \in {{}, {a}}
    <3>1. \A b \in Archivers : b # a => ~Claims(b)'
      BY <1>1, <1>2, <2>6, OtherClaims
    <3>2. CASE Claims(a)'
      <4>1. {b \in Archivers : Claims(b)}' = {a}
        BY <3>1, <3>2
      <4> QED BY <4>1
    <3>3. CASE ~Claims(a)'
      <4>1. {b \in Archivers : Claims(b)}' = {}
        BY <3>1, <3>3
      <4> QED BY <4>1
    <3> QED BY <3>2, <3>3
  <2>8. Told' \in {Told, [Told EXCEPT ![a] = "ERROR"]}
    <3>1. answer'[a] = answer[a] \/ answer'[a] = "ERROR"
      BY <1>2, <2>1 DEF Ends
    <3>2. \A b \in Archivers : b # a => answer'[b] = answer[b]
      BY <1>2 DEF Others, Processes
    <3> QED BY <3>1, <3>2 DEF Told
  <2>9. Register!Commit(a)
    BY <2>3, <2>4, <2>5, <2>7, <2>8 DEF Register!Commit
  <2> QED BY <2>9 DEF Register!Next
<1> QED BY <1>4, <1>5, <1>6

\* An archiver whose frozen request stays, in a step that writes nothing, is
\* given an answer or goes on with the claim it had.
LEMMA FrozenStep ==
    ASSUME IInv, IInv', NEW a \in Archivers, Frozen(a), Others(a), OtherArchivers(a),
           request'[a] = request[a], objects'[CommitKey] = objects[CommitKey],
           \A b \in Archivers : b # a => (b \in creators' <=> b \in creators),
           \/ answer'[a] \in Decisive \cup {"ERROR"} /\ (Claims(a)' => Claims(a))
              /\ (answer'[a] = "CREATED" => Claims(a))
           \/ answer'[a] = answer[a] /\ (Claims(a)' <=> Claims(a))
    PROVE  [Register!Next]_Register!registerVars
<1>1. \A b \in Archivers : request'[b] = request[b]
  BY DEF OtherArchivers
<1>2. CASE answer'[a] \in Decisive \cup {"ERROR"} /\ (Claims(a)' => Claims(a))
           /\ (answer'[a] = "CREATED" => Claims(a))
  BY <1>1, <1>2, RegisterAnswer
<1>3. CASE answer'[a] = answer[a] /\ (Claims(a)' <=> Claims(a))
  <2>1. \A b \in Archivers : Claims(b)' <=> Claims(b)
    BY <1>3, OtherClaims DEF Processes
  <2>2. \A b \in Archivers : answer'[b] = answer[b]
    BY <1>3 DEF OtherArchivers
  <2> QED BY <1>1, <2>1, <2>2, StillFrozen, RegisterStutter
<1> QED BY <1>2, <1>3

\* What was created keeps its claim until the answer, or loses it to an ERROR.
LEMMA CheckCreatedRefines ==
    ASSUME IInv, IInv', NEW a \in Archivers, CheckCreated(a)
    PROVE  [Register!Next]_Register!registerVars
<1>1. /\ call[a].key \in Keys /\ call[a].pc = "check" /\ Creating(a)
      /\ (call[a].key = CommitKey <=> Frozen(a))
  BY DEF IInv, Shape, Creating, CheckCreated
<1>2. /\ objects' = objects /\ creators' = creators /\ Others(a) /\ OtherArchivers(a)
      /\ \/ Rereads(a, "CREATED") \/ Confirms(a, call[a].version)
         \/ Ends(a, "ERROR")
  BY CheckEffect
<1>3. CASE ~Frozen(a)
  <2>1. call[a].key \in Payloads /\ call[a].key # CommitKey
    BY <1>1, <1>3 DEF Keys
  <2>2. /\ call'[a] = Idle /\ answer'[a] = answer[a] /\ request'[a].bundle = None
    BY <1>2, <1>3, <2>1 DEF Rereads, Confirms, Ends, Frozen
  <2> QED BY <1>1, <1>2, <1>3, <2>1, <2>2, PayloadStep
<1>4. CASE Frozen(a)
  <2>1. call[a].key = CommitKey /\ call[a].key \notin Payloads /\ Claims(a)
    BY <1>1, <1>4, ContentAssumption DEF Claims
  <2>2. CASE Rereads(a, "CREATED")
    <3>1. Claims(a)'
      BY <2>2 DEF Rereads, Claims, Rereading
    <3> QED BY <1>2, <1>4, <2>1, <2>2, <3>1, FrozenStep DEF Rereads
  <2>3. CASE Ends(a, "ERROR")
    BY <1>2, <1>4, <2>1, <2>3, FrozenStep DEF Ends
  <2> QED BY <1>2, <2>1, <2>2, <2>3 DEF Confirms
<1> QED BY <1>3, <1>4

\* A 412 or a lost response gives no claim.
LEMMA ReconcileRefines ==
    ASSUME IInv, IInv', NEW a \in Archivers, Reconcile(a)
    PROVE  [Register!Next]_Register!registerVars
<1>1. /\ call[a].key \in Keys /\ call[a].pc = "reconcile" /\ Creating(a)
      /\ (call[a].key = CommitKey <=> Frozen(a))
  BY DEF IInv, Shape, Creating, Reconcile
<1>2. /\ objects' = objects /\ creators' = creators /\ Others(a) /\ OtherArchivers(a)
      /\ \/ Rereads(a, "ALREADY_PRESENT_IDENTICAL") \/ Confirms(a, objects[call[a].key].version)
         \/ \E s \in {"ERROR", "CONFLICT"} : Ends(a, s)
  BY ReconcileEffect
<1>3. CASE ~Frozen(a)
  <2>1. call[a].key \in Payloads /\ call[a].key # CommitKey
    BY <1>1, <1>3 DEF Keys
  <2>2. /\ call'[a] = Idle /\ answer'[a] = answer[a] /\ request'[a].bundle = None
    BY <1>2, <1>3, <2>1 DEF Rereads, Confirms, Ends, Frozen
  <2> QED BY <1>1, <1>2, <1>3, <2>1, <2>2, PayloadStep
<1>4. CASE Frozen(a)
  <2>1. call[a].key = CommitKey /\ call[a].key \notin Payloads /\ (Claims(a) <=> a \in creators)
    BY <1>1, <1>4, ContentAssumption DEF Claims, Rereading
  <2>2. CASE Rereads(a, "ALREADY_PRESENT_IDENTICAL")
    <3>1. Claims(a)' <=> a \in creators
      BY <1>2, <2>2 DEF Rereads, Claims, Rereading
    <3> QED BY <1>2, <1>4, <2>1, <2>2, <3>1, FrozenStep DEF Rereads
  <2>3. ASSUME NEW s \in {"ERROR", "CONFLICT"}, Ends(a, s)
        PROVE  [Register!Next]_Register!registerVars
    <3>1. Claims(a)' <=> a \in creators
      BY <1>2, <2>3 DEF Ends, Claims, Rereading, Idle
    <3>2. answer'[a] = s /\ s \in Decisive \cup {"ERROR"} /\ s # "CREATED"
      BY <2>1, <2>3 DEF Ends, Decisive
    <3> QED BY <1>2, <1>4, <2>1, <2>3, <3>1, <3>2, FrozenStep DEF Ends
  <2> QED BY <1>2, <2>1, <2>2, <2>3 DEF Confirms
<1> QED BY <1>3, <1>4

\* Reading before the write is no step, or an ERROR.
LEMMA PeekRefines ==
    ASSUME IInv, IInv', NEW a \in Archivers, Peek(a) \/ Before(a)
    PROVE  [Register!Next]_Register!registerVars
<1>1. /\ Frozen(a) /\ call[a].pc \in {"peek", "before"} /\ objects' = objects
      /\ creators' = creators /\ request' = request
  BY DEF IInv, Shape, Peek, Before, history
<1>2. /\ Others(a)
      /\ \/ call'[a] = Idle /\ answer'[a] = "ERROR"
         \/ call'[a].pc \in {"before", "put"} /\ answer'[a] = answer[a]
         \/ /\ call'[a].pc = "get" /\ answer'[a] = answer[a]
            /\ call'[a].pending \in {"ALREADY_PRESENT_IDENTICAL", "CONFLICT"}
  BY PeekEffect, BeforeEffect DEF IInv
<1>3. (Claims(a) <=> a \in creators) /\ (Claims(a)' <=> a \in creators)
  BY <1>1, <1>2 DEF Claims, Rereading, Idle
<1>4. OtherArchivers(a)
  BY <1>1, <1>2 DEF OtherArchivers, Others, Processes
<1>5. CASE answer'[a] = "ERROR"
  BY <1>1, <1>2, <1>3, <1>4, <1>5, FrozenStep
<1>6. CASE answer'[a] = answer[a]
  BY <1>1, <1>2, <1>3, <1>4, <1>6, FrozenStep
<1> QED BY <1>2, <1>5, <1>6

\* recover gives an archiver the answer that was held back, or an ERROR; it
\* gives a reader nothing that the register knows of.
LEMMA RecoverRefines ==
    ASSUME IInv, IInv', NEW p \in Processes, GetCommit(p) \/ ListPayloads(p) \/ VerifyPayload(p)
    PROVE  [Register!Next]_Register!registerVars
<1>1. /\ call[p].pc \in {"get", "keys", "verify"} /\ objects' = objects /\ request' = request
  BY DEF GetCommit, ListPayloads, VerifyPayload
<1>2. /\ Others(p)
      /\ \/ \E s : Concludes(p, s)
         \/ /\ call'[p].pc \in {"keys", "verify"} /\ call'[p].pending = call[p].pending
            /\ answer'[p] = answer[p] /\ creators' = creators
  BY GetCommitEffect, ListPayloadsEffect, VerifyPayloadEffect DEF IInv
<1>3. CASE p \in Archivers
  <2>1. /\ Frozen(p) /\ Rereading(p) /\ call[p].pending \in Decisive
        /\ (Claims(p) <=> p \in creators \/ call[p].pending = "CREATED")
    <3>1. Rereading(p) /\ call[p].pc # "check"
      BY <1>1 DEF Rereading
    <3>2. Frozen(p) /\ call[p].pending # "none"
      BY <1>3, <3>1 DEF IInv, Shape
    <3>3. call[p].pending \in Decisive
      BY <3>2 DEF IInv, TypeOK, Call
    <3> QED BY <3>1, <3>2, <3>3 DEF Claims
  <2>2. OtherArchivers(p)
    BY <1>1, <1>2 DEF OtherArchivers, Others, Processes
  <2>3. ASSUME NEW s, Concludes(p, s)
        PROVE  [Register!Next]_Register!registerVars
    <3>1. \A b \in Archivers : b # p => (b \in creators' <=> b \in creators)
      BY <2>3 DEF Concludes
    <3>2. answer'[p] \in Decisive \cup {"ERROR"} /\ (answer'[p] = "CREATED" => Claims(p))
      BY <1>3, <2>1, <2>3, ProcessAssumption DEF Concludes
    <3>3. Claims(p)' => Claims(p)
      <4>1. call'[p] = Idle /\ (p \in creators' => p \in creators \/ call[p].pending = "CREATED")
        BY <2>3 DEF Concludes
      <4>2. Claims(p)' => p \in creators'
        BY <4>1 DEF Claims, Rereading, Idle
      <4> QED BY <2>1, <4>1, <4>2
    <3> QED BY <1>1, <1>2, <1>3, <2>1, <2>2, <3>1, <3>2, <3>3, FrozenStep
  <2>4. CASE /\ call'[p].pc \in {"keys", "verify"} /\ call'[p].pending = call[p].pending
             /\ answer'[p] = answer[p] /\ creators' = creators
    <3>1. Claims(p)' <=> Claims(p)
      BY <2>1, <2>4 DEF Claims, Rereading
    <3> QED BY <1>1, <1>2, <1>3, <2>1, <2>2, <2>4, <3>1, FrozenStep
  <2> QED BY <1>2, <2>3, <2>4
<1>4. CASE p \notin Archivers
  <2>1. creators' = creators
    BY <1>2, <1>4 DEF Concludes
  <2>2. \A b \in Archivers : answer'[b] = answer[b] /\ (Claims(b)' <=> Claims(b))
    BY <1>2, <1>4, <2>1, OtherClaims DEF Others, Processes
  <2> QED BY <1>1, <2>2, StillFrozen, RegisterStutter
<1> QED BY <1>3, <1>4

\* The call of a reader is no step of the register.
LEMMA ReaderRefines ==
    ASSUME IInv, IInv', NEW r \in Readers, Recover(r)
    PROVE  [Register!Next]_Register!registerVars
<1>1. /\ objects' = objects /\ request' = request /\ creators' = creators /\ Others(r)
  BY RecoverEffect DEF IInv, Recover
<1>2. r \in Processes /\ r \notin Archivers
  BY ProcessAssumption DEF Processes
<1>3. \A b \in Archivers : answer'[b] = answer[b] /\ (Claims(b)' <=> Claims(b))
  BY <1>1, <1>2, OtherClaims DEF Others, Processes
<1> QED BY <1>1, <1>3, StillFrozen, RegisterStutter

\* A death takes the answer and the claim, and the request or not.
LEMMA CrashRefines ==
    ASSUME IInv, IInv', NEW p \in Processes, Crash(p)
    PROVE  [Register!Next]_Register!registerVars
<1>1. /\ objects' = objects /\ creators' = creators /\ Others(p)
      /\ call'[p] = Idle /\ answer'[p] = "none"
      /\ \A a \in Archivers : \/ request'[a] = request[a]
                              \/ a = p /\ request'[a] = NoRequest
  BY ReturnEffect DEF Crash, history, IInv, TypeOK
<1>2. CASE p \notin Archivers
  <2>1. \A b \in Archivers : answer'[b] = answer[b] /\ (Claims(b)' <=> Claims(b))
    BY <1>1, <1>2, OtherClaims DEF Others, Processes
  <2> QED BY <1>1, <1>2, <2>1, StillFrozen, RegisterStutter
<1>3. CASE p \in Archivers
  <2>1. Committed' = Committed
    BY <1>1 DEF Committed, Present
  <2>2. Told' = [Told EXCEPT ![p] = "none"]
    BY <1>1, <1>3 DEF Told, Others, Processes
  <2>3. Asked' \in {Asked, [Asked EXCEPT ![p] = {}]}
    <3>1. \A b \in Archivers : b # p => (Frozen(b)' <=> Frozen(b)) /\ request'[b] = request[b]
      BY <1>1 DEF Frozen
    <3>2. CASE request'[p] = request[p]
      <4>1. \A b \in Archivers : (Frozen(b)' <=> Frozen(b)) /\ request'[b] = request[b]
        BY <3>1, <3>2 DEF Frozen
      <4>2. Asked' = Asked
        BY <4>1 DEF Asked
      <4> QED BY <4>2
    <3>3. CASE request'[p] = NoRequest
      <4>1. ~Frozen(p)'
        BY <3>3 DEF Frozen, NoRequest
      <4>2. Asked'[p] = {} /\ \A b \in Archivers : b # p => Asked'[b] = Asked[b]
        BY <1>3, <3>1, <4>1 DEF Asked
      <4>3. Asked = [b \in Archivers |-> Asked[b]] /\ Asked' = [b \in Archivers |-> Asked'[b]]
        BY DEF Asked
      <4>4. Asked' = [Asked EXCEPT ![p] = {}]
        BY <4>2, <4>3
      <4> QED BY <4>4
    <3> QED BY <1>1, <1>3, <3>2, <3>3
  <2>4. {b \in Archivers : Claims(b)}' \in
          {{b \in Archivers : Claims(b)}, {b \in Archivers : Claims(b)} \ {p}}
    <3>1. \A b \in Archivers : b # p => (Claims(b)' <=> Claims(b))
      BY <1>1, OtherClaims
    <3>2. Claims(p)' => Claims(p)
      BY <1>1 DEF Claims, Rereading, Idle
    <3>3. CASE Claims(p)' <=> Claims(p)
      BY <3>1, <3>3
    <3>4. CASE ~(Claims(p)' <=> Claims(p))
      <4>1. {b \in Archivers : Claims(b)}' = {b \in Archivers : Claims(b)} \ {p}
        BY <3>1, <3>2, <3>4
      <4> QED BY <4>1
    <3> QED BY <3>3, <3>4
  <2>5. Register!Restart(p)
    BY <2>1, <2>2, <2>3, <2>4 DEF Register!Restart
  <2> QED BY <1>3, <2>5 DEF Register!Next
<1> QED BY <1>2, <1>3

\* Another tool takes the commit key, or a payload key.
LEMMA PutForeignRefines ==
    ASSUME IInv, IInv', NEW f \in Foreign, PutForeign(f)
    PROVE  [Register!Next]_Register!registerVars
<1>1. /\ f.key \in Keys /\ (f.key = CommitKey => f.content \in Record)
      /\ call' = call /\ request' = request /\ answer' = answer /\ creators' = creators
      /\ ~Present(f.key)
  <2>1. f \in [key : {CommitKey}, content : Record] \cup [key : Payloads, content : {Damaged}]
    BY EnvironmentAssumption
  <2> QED BY <2>1, ContentAssumption DEF PutForeign, Keys
<1>2. Grows(f.key) /\ objects'[f.key] = [content |-> f.content, version |-> seq + 1]
  BY <1>1, StoreEffect DEF PutForeign, IInv
<1>3. \A b \in Archivers : Claims(b)' <=> Claims(b)
  BY <1>1 DEF Claims, Rereading
<1>4. CASE f.key # CommitKey
  <2>1. objects'[CommitKey] = objects[CommitKey]
    BY <1>2, <1>4 DEF Grows, Keys
  <2> QED BY <1>1, <1>3, <2>1, StillFrozen, RegisterStutter
<1>5. CASE f.key = CommitKey
  <2>1. seq + 1 # 0
    BY DEF IInv, TypeOK
  <2>2. Committed = {} /\ Committed' = {f.content}
    BY <1>1, <1>2, <1>5, <2>1 DEF Committed, Present, Absent
  <2>3. Asked' = Asked /\ Told' = Told
    BY <1>1 DEF Asked, Told, Frozen
  <2>4. {b \in Archivers : Claims(b)}' = {b \in Archivers : Claims(b)}
    BY <1>3
  <2>5. Register!Take
    BY <1>1, <1>5, <2>2, <2>3, <2>4 DEF Register!Take
  <2> QED BY <2>5 DEF Register!Next
<1> QED BY <1>4, <1>5

\* The register is empty at first.
LEMMA InitRefines == Init => Register!Init
<1> SUFFICES ASSUME Init PROVE Register!Init
  OBVIOUS
<1>1. /\ \A b \in Archivers : ~Frozen(b) /\ answer[b] = "none" /\ ~Claims(b)
      /\ ~Present(CommitKey)
  BY DEF Init, Frozen, NoRequest, Claims, Rereading, Present, Processes, Keys, Idle
<1>2. Committed = {} /\ Asked = [a \in Archivers |-> {}] /\ Told = [a \in Archivers |-> "none"]
  BY <1>1 DEF Committed, Asked, Told
<1>3. {a \in Archivers : Claims(a)} = {}
  BY <1>1
<1> QED BY <1>2, <1>3 DEF Register!Init

\* Each step of the custody is a step of the register, or none.
LEMMA NextRefines == IInv /\ IInv' /\ [Next]_vars => [Register!Next]_Register!registerVars
<1> SUFFICES ASSUME IInv, IInv', [Next]_vars PROVE [Register!Next]_Register!registerVars
  OBVIOUS
<1>1. ASSUME NEW a \in Archivers,
             \/ \E k \in Payloads : StorePayload(a, k)
             \/ \E b \in Bundles : FreezeCommit(a, b)
             \/ CommitRecord(a)
      PROVE  [Register!Next]_Register!registerVars
  BY <1>1, StorePayloadRefines, FreezeCommitRefines, CommitRecordRefines
<1>2. ASSUME NEW p \in Processes, Progress(p)
      PROVE  [Register!Next]_Register!registerVars
  BY <1>2, PutIfAbsentRefines, CheckCreatedRefines, ReconcileRefines, PeekRefines, RecoverRefines
     DEF Progress
<1>3. CASE UNCHANGED vars
  <2>1. /\ objects' = objects /\ call' = call /\ request' = request /\ answer' = answer
        /\ creators' = creators
    BY <1>3 DEF vars
  <2>2. \A b \in Archivers : Claims(b)' <=> Claims(b)
    BY <2>1 DEF Claims, Rereading
  <2> QED BY <2>1, <2>2, StillFrozen, RegisterStutter
<1> QED BY <1>1, <1>2, <1>3, ReaderRefines, CrashRefines, PutForeignRefines DEF Next

\* ImplementsRegister: for any archivers, readers, deaths, failed calls and
\* writes of other tools, finalizing a release is one write-once register with
\* truthful answers, whose write is the point where put_if_absent lands.
THEOREM CustodyImplementsRegister == Spec => ImplementsRegister
<1>1. Spec => []IInv
  BY Inductive
<1> QED BY <1>1, InitRefines, NextRefines, PTL DEF Spec, ImplementsRegister, Register!Spec
=============================================================================
