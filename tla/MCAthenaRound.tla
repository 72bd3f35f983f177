------------------------------ MODULE MCAthenaRound -----------------------------
(* An instance of AthenaRound on its own. *)
EXTENDS AthenaRound

JournalSpec == RoundInit /\ [][RoundNext]_roundVars

(* What docs/sbom-analytics-athena-lab-poc.md says of a restart: it reads the *)
(* prior executions again.  So the journal that a failed job of its own accord *)
(* uploads, once authenticated, can be validated by the dispatch that would   *)
(* resume from it.                                                            *)
JournalResumable ==
  \A i \in DOMAIN archive :
    archive[i].conclusion = "failure" /\ archive[i].authentication = "success" => Valid(archive[i].journal)
================================================================================
