--------------------------- MODULE BusRefinement ----------------------------
(***************************************************************************)
(* The QSPI bus driver implements BusService: the use of the peripheral is *)
(* the holding of sem, except in the wait of the last qspi_device_uninit,  *)
(* which ends with the switching off.                                      *)
(***************************************************************************)
EXTENDS QspiBus

Position  == [t \in Threads |-> IF At(t, "idle") THEN rc[t] ELSE op[t]]
InSession == {t \in Threads : Ready(t)}
Using(t)  == pc[t] \in {"xfer", "wait", "unlock", "sending"}
Holders   == {t \in Threads : Using(t)}
Failing   == {t \in Threads : ~At(t, "idle") /\ failed[t]}

Service ==
  INSTANCE BusService WITH
    Polling <- RdsrOps, Lossy <- RdsrOps \cup {"hl_read"},
    at <- Position, session <- InSession, users <- Holders, bad <- Failing,
    on <- periph = "on"

(* The driver gives every thread what BusService promises, on all paths of *)
(* all operations and with any call of nrfx failing: exclusive use inside  *)
(* a session, a peripheral that is on as long as anyone relies on it, and  *)
(* no "ok" after a failure but for the polls and qspi_hl_read.             *)
BusAsPromised == Service!ServiceSpec
=============================================================================
