---------------------------- MODULE MCSequential ----------------------------
(* Instance for TLC of five parts that do not share state: each behaviour   *)
(* runs one of them, and the others stay in their initial state.            *)
EXTENDS OtpProg, ChipMemory, ReadAlign, ScanParse, RpuWake

VARIABLE part

seqVars == <<otp, memVars, ask, scanVars, wakeVars, part>>

Quiet == [addr |-> 0, dptr |-> 0, size |-> 1]

SeqInit ==
  /\ OtpInit /\ MemInit /\ ScanInit /\ WakeInit
  /\ part \in {"otp", "memory", "align", "scan", "wake"}
  /\ IF part = "align" THEN AlignInit ELSE ask = Quiet

SeqNext ==
  \/ part = "otp" /\ OtpNext /\ UNCHANGED <<memVars, ask, scanVars, wakeVars, part>>
  \/ part = "memory" /\ MemNext /\ UNCHANGED <<otp, ask, scanVars, wakeVars, part>>
  \/ part = "align" /\ AlignNext /\ UNCHANGED <<otp, memVars, scanVars, wakeVars, part>>
  \/ part = "scan" /\ ScanNext /\ UNCHANGED <<otp, memVars, ask, wakeVars, part>>
  \/ part = "wake" /\ WakeNext /\ UNCHANGED <<otp, memVars, ask, scanVars, part>>

SeqSpec == SeqInit /\ [][SeqNext]_seqVars

(* The variables of each part keep their types: the chip has no other OTP  *)
(* mode or protection value, a read never runs past its length, a poll     *)
(* never past its tries.                                                   *)
SeqTypeOK == OtpTypeOK /\ MemTypeOK /\ WakeTypeOK
=============================================================================
