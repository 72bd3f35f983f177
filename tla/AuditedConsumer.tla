---------------------------- MODULE AuditedConsumer ----------------------------
(***************************************************************************)
(* The audited consumption of a runtime/-dev pair by an application team   *)
(* (examples/audited-consumer/audited_consumer.py and consume.sh), on the  *)
(* registry that PublicationGate fills: references are resolved once, the  *)
(* digests verified and locked, and the application's Dockerfile must build*)
(* from the lock alone.                                                    *)
(***************************************************************************)
EXTENDS PublicationGate, Sequences

CONSTANTS
  Dockerfiles,    \* [declared : ARG -> {"missing", "bare", "default"}, stages : Seq(Stages)]
  MaxMoves        \* bound: moves of a stable tag

(* A stage is FROM an ARG, an earlier stage or an image, and has a name.     *)
Stages == [from : [kind : {"arg", "image"}, name : STRING], as : STRING]

ASSUME ConsumerConstants ==
  /\ MaxMoves \in Nat
  /\ \A file \in Dockerfiles : file.stages \in Seq(Stages)

VARIABLES
  stable,     \* the digest behind each stable tag
  moves,
  consumer    \* one execution of consume.sh: its step, inputs and what it has verified

vars == <<gateVars, stable, moves, consumer>>

NoRelease == [run |-> 0, attempt |-> 0]
NoBuild == [final |-> "none", pulled |-> {}]
Waiting ==
  [pc |-> "idle", level |-> "none", release |-> NoRelease, by |-> "none", base |-> "runtime",
   digest |-> [f \in Frameworks |-> NoImage], seen |-> [f \in Frameworks |-> {}], build |-> NoBuild]

Consumer(pc) == consumer.pc = pc
Continues(record) == consumer' = record /\ UNCHANGED <<gateVars, stable, moves>>
Blocked == Continues(Waiting)

(***************************************************************************)
(* The Dockerfile.                                                         *)
(***************************************************************************)
Args == Frameworks      \* the build args of the lock, named after their base
Named(stages, i, name) == {j \in 1..i - 1 : stages[j].as = name}
Latest(S) == CHOOSE i \in S : \A j \in S : j <= i

(* check_dockerfile(): what the stages derive from, following their names.   *)
Root(file) ==
  LET stages == file.stages
      root[i \in DOMAIN stages] ==
        LET from == stages[i].from
            earlier == Named(stages, i, from.name) IN
        IF from.kind = "image" /\ earlier # {} THEN root[Latest(earlier)] ELSE from IN
  root

(* A file is given as its stages: how its text is read into them, and the    *)
(* sources of COPY, RUN and ADD, are left out.                               *)
Findings(file) ==
  LET stages == file.stages
      Unverified(i) ==
        LET from == stages[i].from IN
        IF from.kind = "arg" THEN from.name \notin Args \/ file.declared[from.name] # "bare"
        ELSE from.name # "scratch" /\ Named(stages, i, from.name) = {} IN
  {i \in DOMAIN stages : Unverified(i)}

(* Mutant of FinalIsRuntime: the last FROM may name any stage. *)
SomeIsRuntime(file) ==
  \E i \in DOMAIN file.stages : Root(file)[i] = [kind |-> "arg", name |-> "runtime"]

FinalIsRuntime(file) ==
  file.stages # << >> /\ Root(file)[Len(file.stages)] = [kind |-> "arg", name |-> "runtime"]

Passes(file) == Findings(file) = {} /\ FinalIsRuntime(file)

(* What a builder given the lock's build args makes of each stage: a FROM is *)
(* the newest stage of that name, or else an image it pulls.                 *)
Source(file) ==
  LET stages == file.stages
      source[i \in DOMAIN stages] ==
        LET from == stages[i].from
            earlier == {j \in 1..i - 1 : stages[j].as = from.name} IN
        IF from.kind = "arg"
        THEN IF from.name \in Args /\ file.declared[from.name] # "missing" THEN from.name ELSE "default"
        ELSE IF earlier # {} THEN source[CHOOSE j \in earlier : \A k \in earlier : k <= j]
        ELSE IF from.name = "scratch" THEN "scratch" ELSE "external" IN
  source

Built(file) ==
  LET source == Source(file) IN
  [final |-> source[Len(file.stages)],
   pulled |-> {source[i] : i \in DOMAIN file.stages} \ {"scratch"}]

(* The builds that the accepted Dockerfiles lead to.                         *)
Builds == {Built(file) : file \in {f \in Dockerfiles : Passes(f)}}

(***************************************************************************)
(* verify                                                                  *)
(***************************************************************************)
Releases ==
  {[run |-> n, attempt |-> a] : n \in Runs, a \in Attempts}
Pushed(f, release) ==
  {p \in pushed : p.framework = f /\ p.run = release.run /\ p.attempt = release.attempt}

(* The team names each base by a tag, by a digest or by the record of the    *)
(* release it approved; a record given with a reference must agree with it.  *)
Begin ==
  /\ Consumer("idle")
  /\ \E level \in {"simplified", "full-policy"}, by \in {"tag", "digest", "record"},
        release \in Releases \cup {NoRelease} :
       /\ by = "record" => release # NoRelease
       /\ release # NoRelease => \A f \in Frameworks : Pushed(f, release) # {}
       /\ Continues([Waiting EXCEPT !.pc = "resolve", !.level = level, !.by = by, !.release = release])

(* What a reference may stand for: resolve_tag() is the only reading of a tag. *)
Referred(f) ==
  CASE consumer.by = "tag" -> {stable[f]} \ {NoImage}
    [] consumer.by = "digest" -> {p.digest : p \in {q \in pushed : q.framework = f}}
    [] consumer.by = "record" -> {p.digest : p \in Pushed(f, consumer.release)}

Resolve ==
  LET f == consumer.base IN
  /\ Consumer("resolve")
  /\ \/ Referred(f) = {} /\ Blocked
     \/ \E digest \in Referred(f) :
          IF \/ consumer.release = NoRelease
             \/ digest \in {p.digest : p \in Pushed(f, consumer.release)}
          THEN Continues([consumer EXCEPT !.pc = "check", !.digest[f] = digest])
          ELSE Blocked

Invocations(f, digest) ==
  {[run |-> p.run, attempt |-> p.attempt] : p \in {q \in provenance : q.framework = f /\ q.digest = digest}}

(* verify_image_script() or full_policy(): signature, SBOMs and provenance of*)
(* this very digest, and, under the full policy, of the approved execution.  *)
Check ==
  LET f == consumer.base
      digest == consumer.digest[f]
      invocations == Invocations(f, digest)
      bound == consumer.level = "full-policy" /\ consumer.release # NoRelease IN
  /\ Consumer("check")
  /\ IF /\ <<f, digest>> \in signed /\ <<f, digest>> \in sboms /\ invocations # {}
        /\ bound => consumer.release \in invocations
     THEN Continues([consumer EXCEPT !.seen[f] = invocations, !.base = "dev",
                       !.pc = IF f = "runtime" THEN "resolve" ELSE "pair"])
     ELSE Blocked

(* Mutant of SameExecution: the pair is not compared. *)
AnyExecution == TRUE

(* Under the full policy both bases come from one execution of the workflow. *)
SameExecution ==
  consumer.level = "full-policy" => consumer.seen["runtime"] \cap consumer.seen["dev"] # {}

Pair ==
  /\ Consumer("pair")
  /\ IF SameExecution
     THEN Continues([Waiting EXCEPT !.pc = "locked", !.level = consumer.level, !.digest = consumer.digest])
     ELSE Blocked

(* check-dockerfile accepts the file, build-args reads the lock again, which *)
(* no tag can change by now, and record-consumption files what was built.    *)
(* Between the check and the builder, which reads the Dockerfile again,      *)
(* consume.sh writes nothing to the checkout, and nobody else is assumed to: *)
(* the two are one step.                                                     *)
Build ==
  /\ Consumer("locked")
  /\ \E build \in Builds : Continues([consumer EXCEPT !.pc = "recorded", !.build = build])

(* The execution is over, or a verifier is missing or out of time, or the    *)
(* process is killed: the next one is given a new directory and starts from  *)
(* nothing.                                                                  *)
Leave == ~Consumer("idle") /\ Blocked

(* The stable tags are moved by the promotion, one image after the other.    *)
Move(f) ==
  /\ moves < MaxMoves /\ moves' = moves + 1
  /\ \E p \in pushed : p.framework = f /\ stable' = [stable EXCEPT ![f] = p.digest]
  /\ UNCHANGED <<gateVars, consumer>>

Init ==
  /\ GateInit
  /\ stable = [f \in Frameworks |-> NoImage] /\ moves = 0
  /\ consumer = Waiting

Next ==
  \/ GateNext /\ UNCHANGED <<stable, moves, consumer>>
  \/ Begin \/ Resolve \/ Check \/ Pair \/ Build \/ Leave
  \/ \E f \in Frameworks : Move(f)

Spec == Init /\ [][Next]_vars

(* No image is published under a run and attempt unless the newest execution *)
(* of its contract in that run, up to that attempt, passed and was an        *)
(* execution with this very image: whatever was rebuilt, re-run, carried over*)
(* or lost on the way, an older success never stands in for a newer failure. *)
PublishedIsCertified ==
  \A p \in pushed :
    \E e \in executed :
      /\ e.run = p.run /\ e.attempt <= p.attempt /\ e.passed /\ e[p.framework] = p.digest
      /\ \A d \in executed : d.run = p.run /\ d.attempt \in e.attempt + 1 .. p.attempt => d = e

(* A lock of the full policy names a pair whose contract passed with exactly *)
(* these two images, even though its tags moved one by one, before, between  *)
(* and after the two resolutions, over publications of several attempts.     *)
LockIsCertified ==
  consumer.pc \in {"locked", "recorded"} /\ consumer.level = "full-policy" =>
    \E e \in executed : e.passed /\ \A f \in Frameworks : e[f] = consumer.digest[f]

(* What a consumption record is about was built from the lock: the final     *)
(* image on the runtime of the lock, and nothing pulled that the lock does   *)
(* not name.                                                                 *)
BuildUsesLock ==
  consumer.pc = "recorded" =>
    consumer.build.final = "runtime" /\ consumer.build.pulled \subseteq Args
================================================================================
