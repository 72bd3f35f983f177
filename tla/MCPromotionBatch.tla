--------------------------- MODULE MCPromotionBatch ---------------------------
(***************************************************************************)
(* The instance of PromotionBatch that TLC checks: a compiled pair, an     *)
(* interpreted framework, and two build runs.                              *)
(***************************************************************************)
EXTENDS PromotionBatch, TLC

CONSTANTS runtime, dev, single

MCUnitOf == (runtime :> "pair") @@ (dev :> "pair") @@ (single :> "single")
MCRank == (runtime :> 1) @@ (dev :> 2) @@ (single :> 3)
=============================================================================
