--------------------------- MODULE MCAlertDelivery ---------------------------
(***************************************************************************)
(* The instance of AlertDelivery that TLC checks: one framework in scope,  *)
(* one pin, and a page that holds two of the alerts they can raise.        *)
(***************************************************************************)
EXTENDS AlertDelivery, TLC
=============================================================================
