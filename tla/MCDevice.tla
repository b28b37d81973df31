------------------------------ MODULE MCDevice ------------------------------
(* Instance of Device for TLC: two HAL contexts that share one work item.  *)
EXTENDS Device
=============================================================================
