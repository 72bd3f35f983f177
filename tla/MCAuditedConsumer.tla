--------------------------- MODULE MCAuditedConsumer ---------------------------
(* The instance of AuditedConsumer that TLC checks. *)
EXTENDS AuditedConsumer, TLC

(* Dockerfiles of up to three stages, each from a base of the lock, another   *)
(* ARG, a stage, an image or scratch, with the ARGs declared in every way.    *)
MCFroms ==
  {[kind |-> "arg", name |-> a] : a \in {"runtime", "dev", "other"}}
    \cup {[kind |-> "image", name |-> i] : i \in {"a", "elsewhere", "scratch"}}
MCStages == [from : MCFroms, as : {"a", "final"}]
MCDockerfiles ==
  [declared : [{"runtime", "dev", "other"} -> {"missing", "bare", "default"}],
   stages : UNION {[1..n -> MCStages] : n \in 1..3}]

(* What a build produces is only ever compared. *)
MCSymmetry == Permutations(Contents)
================================================================================
