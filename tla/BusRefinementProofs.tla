------------------------ MODULE BusRefinementProofs -------------------------
(***************************************************************************)
(* The driver implements the abstract bus, for every set of threads,       *)
(* operations and faults, with or without CONFIG_NRF70_QSPI_LOW_POWER.     *)
(***************************************************************************)
EXTENDS BusRefinement, QspiBusProofs

(* A thread in an operation is in one the driver has.                      *)
OpInv == \A t \in Threads : pc[t] # "idle" => op[t] \in Ops

LEMMA OpInvStep ==
  ASSUME ThreadTypes, OpInv, [Next]_vars PROVE OpInv'
<1> USE DEF OpInv, ThreadTypes, At, Goto, sems, power, config
<1>1. CASE QspiInit \/ TransferDone
  BY <1>1 DEF QspiInit, NrfxConfigure, TransferDone
<1>2. ASSUME NEW t \in Threads, Thread(t) PROVE OpInv'
  <2>1. CASE Start(t)
    BY <2>1 DEF Start
  <2>2. CASE ~Start(t)
    <3>1. pc[t] # "idle" /\ op' = op /\ \A u \in Threads \ {t} : pc'[u] = pc[u]
      <4>1. CASE TakeCfgLock(t) \/ TransLock(t) \/ Lock(t) \/ Unlock(t) \/ TransUnlock(t)
        BY <4>1 DEF TakeCfgLock, TransLock, Lock, Unlock, TransUnlock
      <4>2. CASE OpInit(t) \/ EncInit(t)
        BY <4>2 DEF OpInit, EncInit, DeviceInit
      <4>3. CASE OpUninit(t) \/ EncUninit(t) \/ UninitLast(t)
        BY <4>3 DEF OpUninit, EncUninit, DeviceUninit, UninitLast
      <4>4. CASE StartTransfer(t) \/ WaitForCompletion(t)
        BY <4>4 DEF StartTransfer, WaitForCompletion
      <4>5. CASE SendBegin(t) \/ SendEnd(t) \/ DmaEncrypt(t) \/ EncryptEnd(t)
        BY <4>5 DEF SendBegin, SendEnd, DmaEncrypt, EncryptEnd
      <4>6. CASE \/ NoMemory(t) \/ Refuse(t)
                 \/ ReturnData(t) \/ ReturnHlRead(t) \/ ReturnRDSR1(t) \/ ReturnCmd(t)
        BY <4>6 DEF NoMemory, Refuse, ReturnData, ReturnHlRead, ReturnRDSR1, ReturnCmd
      <4>7. QED
        BY <1>2, <2>2, <4>1, <4>2, <4>3, <4>4, <4>5, <4>6 DEF Thread
    <3>2. QED
      BY <3>1
  <2>3. QED
    BY <2>1, <2>2
<1>3. CASE UNCHANGED vars
  BY <1>3 DEF vars
<1>4. QED
  BY <1>1, <1>2, <1>3 DEF Next

LEMMA OpInvAlways == Spec => []OpInv
<1>1. Init => OpInv
  BY DEF Init, OpInv
<1>2. TypeOK /\ OpInv /\ [Next]_vars => OpInv'
  BY OpInvStep DEF TypeOK
<1>3. QED
  BY <1>1, <1>2, TypeCorrect, PTL DEF Spec

---------------------------------------------------------------------------
(* What a step of one thread changes in the mapped state.                  *)

LEMMA Frame ==
  ASSUME ThreadTypes, NEW t \in Threads, NEW l, pc' = [pc EXCEPT ![t] = l], op' = op
  PROVE  /\ Ready(t)' => InSession' = InSession \cup {t}
         /\ ~Ready(t)' => InSession' = InSession \ {t}
         /\ l \in {"xfer", "wait", "unlock", "sending"} => Holders' = Holders \cup {t}
         /\ l \notin {"xfer", "wait", "unlock", "sending"} => Holders' = Holders \ {t}
<1>1. \A u \in Threads \ {t} : pc'[u] = pc[u]
  BY DEF ThreadTypes
<1>2. \A u \in Threads \ {t} : Ready(u)' <=> Ready(u)
  BY <1>1 DEF Ready
<1>3. \A u \in Threads \ {t} : Using(u)' <=> Using(u)
  BY <1>1 DEF Using
<1>4. Using(t)' <=> l \in {"xfer", "wait", "unlock", "sending"}
  BY DEF Using, ThreadTypes
<1>5. QED
  BY <1>2, <1>3, <1>4 DEF InSession, Holders

LEMMA FrameInside ==
  ASSUME ThreadTypes, NEW t \in Threads, NEW l, pc' = [pc EXCEPT ![t] = l], op' = op,
         pc[t] # "idle", l # "idle", \A u \in Threads \ {t} : rc'[u] = rc[u]
  PROVE  /\ Position' = Position
         /\ failed' = failed => Failing' = Failing
         /\ failed' = [failed EXCEPT ![t] = TRUE] => Failing' = Failing \cup {t}
<1>1. \A u \in Threads \ {t} : pc'[u] = pc[u]
  BY DEF ThreadTypes
<1>2. pc'[t] # "idle"
  BY DEF ThreadTypes
<1>3. Position' = Position
  BY <1>1, <1>2 DEF Position, At
<1>4. failed' = failed => Failing' = Failing
  BY <1>1, <1>2, Zenon DEF Failing, At
<1>5. ASSUME failed' = [failed EXCEPT ![t] = TRUE] PROVE Failing' = Failing \cup {t}
  <2>1. failed'[t] /\ \A u \in Threads \ {t} : failed'[u] = failed[u]
    BY <1>5, Zenon DEF ThreadTypes
  <2>2. QED
    BY <1>1, <1>2, <2>1, Zenon DEF Failing, At
<1>6. QED
  BY <1>3, <1>4, <1>5

(* Whom the mapped state takes for a caller.                               *)
LEMMA Asked ==
  ASSUME ThreadTypes, OpInv, NEW t \in Threads
  PROVE  /\ pc[t] = "idle" => Position[t] = rc[t] /\ ~Service!Asked(t)
         /\ pc[t] # "idle" => Position[t] = op[t] /\ Service!Asked(t)
<1>1. "ok" \notin Ops /\ "fail" \notin Ops
  BY BusAssumption DEF BusAssumption, AllOps, DataOps, RegOps, RdsrOps
<1>2. pc[t] = "idle" => Position[t] = rc[t]
  BY DEF Position, At
<1>3. pc[t] # "idle" => Position[t] = op[t] /\ op[t] \in Ops
  BY DEF Position, At, OpInv
<1>4. rc[t] \in {"ok", "fail"}
  BY DEF ThreadTypes
<1>5. QED
  BY <1>1, <1>2, <1>3, <1>4 DEF Service!Asked

LEMMA SameSets ==
  ASSUME ThreadTypes, NEW t \in Threads, NEW l, pc' = [pc EXCEPT ![t] = l], op' = op,
         Ready(t)' <=> Ready(t),
         Using(t) <=> l \in {"xfer", "wait", "unlock", "sending"}
  PROVE  InSession' = InSession /\ Holders' = Holders
<1>1. /\ Ready(t)' => InSession' = InSession \cup {t}
      /\ ~Ready(t)' => InSession' = InSession \ {t}
      /\ Using(t) => Holders' = Holders \cup {t}
      /\ ~Using(t) => Holders' = Holders \ {t}
  BY Frame, Zenon
<1>2. (Ready(t) <=> t \in InSession) /\ (Using(t) <=> t \in Holders)
  BY DEF InSession, Holders
<1>3. InSession' = InSession
  BY <1>1, <1>2
<1>4. Holders' = Holders
  BY <1>1, <1>2
<1>5. QED
  BY <1>3, <1>4

(* A move inside an operation that the service does not see.               *)
LEMMA Unseen ==
  ASSUME ThreadTypes, NEW t \in Threads, NEW l, pc' = [pc EXCEPT ![t] = l], op' = op,
         pc[t] # "idle", l # "idle", \A u \in Threads \ {t} : rc'[u] = rc[u],
         failed' = failed, periph' = periph,
         Ready(t)' <=> Ready(t),
         Using(t) <=> l \in {"xfer", "wait", "unlock", "sending"}
  PROVE  UNCHANGED Service!serviceVars
<1>1. Position' = Position /\ Failing' = Failing
  BY FrameInside
<1>2. InSession' = InSession /\ Holders' = Holders
  BY SameSets
<1>3. QED
  BY <1>1, <1>2 DEF Service!serviceVars

(* A failing step inside an operation.                                     *)
LEMMA Fails ==
  ASSUME ThreadTypes, OpInv, NEW t \in Threads, NEW l, pc' = [pc EXCEPT ![t] = l], op' = op,
         pc[t] # "idle", l # "idle", Fail(t), periph' = periph,
         Ready(t)' <=> Ready(t),
         Using(t) <=> l \in {"xfer", "wait", "unlock", "sending"}
  PROVE  Service!StepFails(t)
<1>1. failed' = [failed EXCEPT ![t] = TRUE] /\ \A u \in Threads \ {t} : rc'[u] = rc[u]
  BY DEF Fail, ThreadTypes
<1>2. Position' = Position /\ Failing' = Failing \cup {t}
  BY <1>1, FrameInside
<1>3. InSession' = InSession /\ Holders' = Holders
  BY SameSets
<1>4. Service!Asked(t)
  BY Asked
<1>5. QED
  BY <1>2, <1>3, <1>4 DEF Service!StepFails

LEMMA StepSetup ==
  ASSUME ThreadTypes, OpInv, QspiInit PROVE Service!Setup
<1>1. pc' = pc /\ op' = op /\ rc' = rc /\ failed' = failed
  BY DEF QspiInit
<1>2. /\ Position' = Position /\ InSession' = InSession
      /\ Holders' = Holders /\ Failing' = Failing
  BY <1>1, Zenon DEF Position, InSession, Ready, Holders, Using, Failing, At
<1>3. \A t \in Threads : ~Service!Asked(t)
  BY Asked DEF QspiInit, AllIdle, At
<1>4. QED
  BY <1>2, <1>3 DEF Service!Setup

LEMMA StepStart ==
  ASSUME ThreadTypes, OpInv, NEW t \in Threads, Start(t) PROVE Service!Call(t)
<1>1. /\ pc[t] = "idle" /\ periph' = periph
      /\ failed' = [failed EXCEPT ![t] = FALSE] /\ rc' = [rc EXCEPT ![t] = "ok"]
  BY DEF Start, At, power
<1>2. PICK o \in Ops : /\ op' = [op EXCEPT ![t] = o]
                       /\ \E l \in {"cfg", "init"} : pc' = [pc EXCEPT ![t] = l]
  BY DEF Start, Goto
<1>3. /\ pc'[t] \in {"cfg", "init"} /\ op'[t] = o /\ failed'[t] = FALSE
      /\ \A u \in Threads \ {t} :
           pc'[u] = pc[u] /\ op'[u] = op[u] /\ rc'[u] = rc[u] /\ failed'[u] = failed[u]
  BY <1>1, <1>2 DEF ThreadTypes
<1>4. Position' = [Position EXCEPT ![t] = o]
  BY <1>3 DEF Position, At
<1>5. InSession' = InSession
  BY <1>1, <1>3 DEF InSession, Ready
<1>6. Holders' = Holders
  BY <1>1, <1>3 DEF Holders, Using
<1>7. Failing' = Failing
  BY <1>1, <1>3 DEF Failing, At
<1>8. QED
  BY <1>1, <1>4, <1>5, <1>6, <1>7, Asked DEF Service!Call

(* Opening a session, or failing to.                                       *)
LEMMA StepOpen ==
  ASSUME ThreadTypes, OpInv, EncryptInv, PowerInv, NEW t \in Threads, OpInit(t) \/ EncInit(t)
  PROVE  \/ Service!Open(t) \/ Service!StepFails(t) \/ UNCHANGED Service!serviceVars
<1>1. pc[t] \in {"init", "enc_init"} /\ op' = op /\ pc[t] # "idle"
  BY DEF OpInit, EncInit, DeviceInit, At
<1>2. up
  BY <1>1 DEF PowerInv, AllIdle, At
<1>3. Service!Asked(t) /\ Position[t] = op[t]
  BY <1>1, Asked
<1>4. t \notin Holders
  BY <1>1 DEF Holders, Using
<1>5. CASE OpInit(t)
  <2>1. /\ pc[t] = "init" /\ ~Ready(t)
    BY <1>5 DEF OpInit, DeviceInit, At, Ready
  <2>2. CASE pc' = [pc EXCEPT ![t] = AfterInit(op[t])] /\ Ok(t) /\ periph' = "on"
    <3>1. /\ AfterInit(op[t]) # "idle"
          /\ AfterInit(op[t]) \notin {"xfer", "wait", "unlock", "sending"}
          /\ op[t] \in RdsrOps => AfterInit(op[t]) = "send"
          /\ op[t] \notin RdsrOps => AfterInit(op[t]) \in {"trans", "lock", "dma", "send"}
      BY DEF AfterInit, RdsrOps
    <3>2. Ready(t)' <=> op[t] \notin RdsrOps
      BY <1>1, <2>2, <3>1 DEF Ready, ThreadTypes
    <3>3. Position' = Position /\ Failing' = Failing
      BY <1>1, <2>2, <3>1, FrameInside DEF Ok
    <3>4. Holders' = Holders
      BY <1>1, <1>4, <2>2, <3>1, Frame, ZenonT(60) DEF Holders
    <3>5. InSession' = IF op[t] \in RdsrOps THEN InSession ELSE InSession \cup {t}
      BY <1>1, <2>1, <2>2, <3>2, Frame, Zenon DEF InSession
    <3>6. t \notin InSession
      BY <2>1 DEF InSession
    <3>7. QED
      BY <1>3, <1>4, <2>2, <3>3, <3>4, <3>5, <3>6 DEF Service!Open
  <2>3. CASE pc' = [pc EXCEPT ![t] = AfterInitError(op[t])] /\ Fail(t) /\ periph' = periph
    <3>1. \/ AfterInitError(op[t]) \in {"ret", "uninit"}
          \/ AfterInitError(op[t]) = "send" /\ op[t] \in RdsrOps
      BY DEF AfterInitError
    <3>2. ~Ready(t)'
      BY <1>1, <2>3, <3>1 DEF Ready, ThreadTypes
    <3>3. ~Using(t)
      BY <2>1 DEF Using
    <3>4. /\ AfterInitError(op[t]) # "idle"
          /\ AfterInitError(op[t]) \notin {"xfer", "wait", "unlock", "sending"}
      BY <3>1
    <3>5. QED
      BY <1>1, <2>1, <2>3, <3>2, <3>3, <3>4, Fails
  <2>4. QED
    BY <1>2, <1>5, <2>2, <2>3 DEF OpInit, DeviceInit, PowerInv, Goto, power
<1>6. CASE EncInit(t)
  <2>1. pc[t] = "enc_init" /\ op[t] = "encrypt" /\ Ready(t) /\ periph = "on"
    BY <1>6 DEF EncInit, DeviceInit, At, Ready, EncryptInv, PowerInv, ReadyWhenUsed
  <2>2. CASE pc' = [pc EXCEPT ![t] = "send"] /\ Ok(t) /\ periph' = "on"
    <3>1. Ready(t)'
      BY <1>1, <2>1, <2>2 DEF Ready, ThreadTypes, RdsrOps
    <3>2. ~Using(t)
      BY <2>1 DEF Using
    <3>3. QED
      BY <1>1, <2>1, <2>2, <3>1, <3>2, Unseen DEF Ok
  <2>3. CASE pc' = [pc EXCEPT ![t] = "enc_uninit"] /\ Fail(t) /\ periph' = periph
    <3>1. Ready(t)'
      BY <1>1, <2>3 DEF Ready, ThreadTypes
    <3>2. ~Using(t)
      BY <2>1 DEF Using
    <3>3. QED
      BY <1>1, <2>1, <2>3, <3>1, <3>2, Fails
  <2>4. QED
    BY <1>2, <1>6, <2>2, <2>3 DEF EncInit, DeviceInit, PowerInv, Goto, power
<1>7. QED
  BY <1>5, <1>6

(* Taking the peripheral, and giving it back.                              *)
LEMMA StepUse ==
  ASSUME ThreadTypes, OpInv, SemInv, PowerInv, NEW t \in Threads, Lock(t) \/ SendBegin(t)
  PROVE  Service!Use(t)
<1>1. /\ pc[t] \in {"lock", "send"} /\ sem = 1 /\ op' = op /\ periph' = periph
      /\ rc' = rc /\ failed' = failed
      /\ pc[t] = "lock" => pc' = [pc EXCEPT ![t] = "xfer"]
      /\ pc[t] = "send" => pc' = [pc EXCEPT ![t] = "sending"]
  BY DEF Lock, SendBegin, At, Goto, power
<1>2. PICK l \in {"xfer", "sending"} : pc' = [pc EXCEPT ![t] = l]
  BY <1>1
<1>3. Service!Asked(t) /\ Position[t] = op[t]
  BY <1>1, Asked
<1>4. Position' = Position /\ Failing' = Failing
  BY <1>1, <1>2, FrameInside
<1>5. Holders = {}
  BY <1>1 DEF SemInv, HoldsSem, Holders, Using
<1>6. Holders' = {t}
  BY <1>1, <1>2, <1>5, Frame
<1>7. Ready(t)' <=> Ready(t)
  BY <1>1 DEF Ready, ThreadTypes
<1>8. InSession' = InSession
  <2>1. /\ Ready(t)' => InSession' = InSession \cup {t}
        /\ ~Ready(t)' => InSession' = InSession \ {t}
    BY <1>1, <1>2, Frame, Zenon
  <2>2. Ready(t) <=> t \in InSession
    BY DEF InSession
  <2>3. QED
    BY <1>7, <2>1, <2>2
<1>9. op[t] \notin RdsrOps => t \in InSession /\ periph = "on"
  BY <1>1 DEF InSession, Ready, PowerInv, ReadyWhenUsed
<1>10. QED
  BY <1>1, <1>3, <1>4, <1>5, <1>6, <1>8, <1>9 DEF Service!Use

LEMMA StepEndUse ==
  ASSUME ThreadTypes, SemInv, NEW t \in Threads, Unlock(t) \/ SendEnd(t)
  PROVE  Service!EndUse(t)
<1>1. /\ pc[t] \in {"unlock", "sending"} /\ op' = op /\ periph' = periph
      /\ failed' = failed \/ failed' = [failed EXCEPT ![t] = TRUE]
      /\ \A u \in Threads \ {t} : rc'[u] = rc[u]
  BY DEF Unlock, SendEnd, Fail, At, power, ThreadTypes
<1>2. PICK l \in {"trans_unlock", "uninit", "enc_uninit"} : pc' = [pc EXCEPT ![t] = l]
  BY DEF Unlock, SendEnd, Goto
<1>3. Position' = Position /\ Failing' \in {Failing, Failing \cup {t}}
  BY <1>1, <1>2, FrameInside
<1>4. Holders = {t}
  BY <1>1 DEF SemInv, BusExclusive, HoldsSem, Holders, Using
<1>5. Holders' = {}
  <2>1. Holders' = Holders \ {t}
    BY <1>1, <1>2, Frame
  <2>2. QED
    BY <1>4, <2>1
<1>6. Ready(t)' => Ready(t)
  <2>1. pc[t] = "unlock" => Ready(t)
    BY DEF Ready
  <2>2. pc[t] = "sending" /\ op[t] \notin RdsrOps => Ready(t)
    BY DEF Ready
  <2>3. pc[t] = "sending" /\ op[t] \in RdsrOps => pc' = [pc EXCEPT ![t] = "uninit"]
    BY DEF Unlock, SendEnd, At, Goto, RdsrOps
  <2>4. pc' = [pc EXCEPT ![t] = "uninit"] => ~Ready(t)'
    BY <1>1 DEF Ready, ThreadTypes
  <2>5. QED
    BY <1>1, <2>1, <2>2, <2>3, <2>4
<1>7. InSession' \in {InSession, InSession \ {t}}
  <2>1. /\ Ready(t)' => InSession' = InSession \cup {t}
        /\ ~Ready(t)' => InSession' = InSession \ {t}
    BY <1>1, <1>2, Frame, Zenon
  <2>2. Ready(t) => t \in InSession
    BY DEF InSession
  <2>3. QED
    BY <1>6, <2>1, <2>2
<1>8. QED
  BY <1>1, <1>3, <1>4, <1>5, <1>7 DEF Service!EndUse

(* Leaving a session, perhaps because a step fails.                        *)
LEMMA Leaves ==
  ASSUME ThreadTypes, NEW t \in Threads, NEW l \in {"uninit", "busy", "ret"},
         pc' = [pc EXCEPT ![t] = l], op' = op, periph' = periph,
         pc[t] \in {"trans_unlock", "dma", "enc_uninit", "enc_end"},
         \A u \in Threads \ {t} : rc'[u] = rc[u],
         failed' = failed \/ failed' = [failed EXCEPT ![t] = TRUE]
  PROVE  Service!Close(t)
<1>1. Position' = Position /\ Failing' \in {Failing, Failing \cup {t}}
  BY FrameInside
<1>2. t \in InSession /\ t \notin Holders
  BY DEF InSession, Ready, Holders, Using
<1>3. ~Ready(t)'
  BY DEF Ready, ThreadTypes
<1>4. InSession' = InSession \ {t} /\ Holders' = Holders \ {t}
  BY <1>3, Frame, Zenon
<1>5. QED
  BY <1>1, <1>2, <1>4 DEF Service!Close

LEMMA StepUninitLast ==
  ASSUME ThreadTypes, BusTypes, SemInv, CountInv, PowerInv, NEW t \in Threads, UninitLast(t)
  PROVE  Service!SwitchOff
<1>1. /\ pc[t] = "busy" /\ op' = op /\ rc' = rc /\ failed' = failed
      /\ pc' = [pc EXCEPT ![t] = "ret"] /\ periph' = "off"
  BY DEF UninitLast, At, Goto
<1>2. Position' = Position /\ Failing' = Failing
  BY <1>1, FrameInside
<1>3. LowPower /\ count = 0
  BY <1>1 DEF PowerInv, Busy
<1>4. InSession = {}
  BY <1>3, NoUsers DEF InSession
<1>5. Holders = {}
  BY <1>1 DEF SemInv, BusExclusive, HoldsSem, Holders, Using
<1>6. ~Ready(t) /\ ~Ready(t)' /\ ~Using(t)
  BY <1>1 DEF Ready, Using, ThreadTypes
<1>7. InSession' = InSession /\ Holders' = Holders
  BY <1>1, <1>6, SameSets
<1>8. QED
  BY <1>1, <1>2, <1>4, <1>5, <1>7 DEF Service!SwitchOff

(* The return to the caller.                                               *)
LEMMA Answers ==
  ASSUME ThreadTypes, OpInv, NEW t \in Threads, pc[t] \in {"cfg", "ret"},
         pc' = [pc EXCEPT ![t] = "idle"], op' = op, periph' = periph,
         \A u \in Threads \ {t} : failed'[u] = failed[u],
         rc' \in [Threads -> {"ok", "fail"}], \A u \in Threads \ {t} : rc'[u] = rc[u],
         rc'[t] = "ok" => failed[t] = FALSE \/ op[t] \in RdsrOps \cup {"hl_read"}
  PROVE  Service!Answer(t)
<1>1. pc'[t] = "idle" /\ \A u \in Threads \ {t} : pc'[u] = pc[u]
  BY DEF ThreadTypes
<1>2. Position' = [Position EXCEPT ![t] = rc'[t]]
  BY <1>1 DEF Position, At
<1>3. Failing' = Failing \ {t}
  BY <1>1, Zenon DEF Failing, At
<1>4. ~Ready(t) /\ ~Ready(t)' /\ ~Using(t)
  BY <1>1 DEF Ready, Using
<1>5. InSession' = InSession /\ Holders' = Holders
  BY <1>4, SameSets
<1>6. t \notin InSession \cup Holders
  BY <1>4 DEF InSession, Holders
<1>7. failed[t] = FALSE => t \notin Failing
  BY Zenon DEF Failing
<1>8. Service!Asked(t) /\ Position[t] = op[t]
  BY Asked
<1>9. rc'[t] \in {"ok", "fail"}
  OBVIOUS
<1>10. QED
  BY <1>2, <1>3, <1>5, <1>6, <1>7, <1>8, <1>9 DEF Service!Answer, Service!Answers

---------------------------------------------------------------------------
(* Every step of a thread is one of the service.                           *)

LEMMA StepThread ==
  ASSUME ThreadTypes, ThreadTypes', BusTypes, OpInv, SemInv, EncryptInv, CountInv, PowerInv,
         StatusInv, NEW t \in Threads, Thread(t)
  PROVE  Service!ServiceNext \/ UNCHANGED Service!serviceVars
<1> DEFINE Step == \/ Service!Call(t) \/ Service!Open(t) \/ Service!StepFails(t)
                   \/ Service!Use(t) \/ Service!EndUse(t) \/ Service!Close(t)
                   \/ Service!Answer(t) \/ Service!SwitchOff
                   \/ UNCHANGED Service!serviceVars
<1> SUFFICES Step
  BY DEF Service!ServiceNext
<1>1. CASE Start(t)
  BY <1>1, StepStart
<1>2. CASE OpInit(t) \/ EncInit(t)
  BY <1>2, StepOpen
<1>3. CASE Lock(t) \/ SendBegin(t)
  BY <1>3, StepUse
<1>4. CASE Unlock(t) \/ SendEnd(t)
  BY <1>4, StepEndUse
<1>5. CASE UninitLast(t)
  BY <1>5, StepUninitLast
<1>6. CASE TakeCfgLock(t) \/ TransLock(t) \/ WaitForCompletion(t) \/ OpUninit(t)
  <2>1. /\ pc[t] \in {"cfg", "trans", "wait", "uninit"} /\ op' = op /\ rc' = rc
        /\ failed' = failed /\ periph' = periph
    BY <1>6 DEF TakeCfgLock, TransLock, WaitForCompletion, OpUninit, DeviceUninit, At, power
  <2>2. PICK l \in {"init", "lock", "unlock", "xfer", "ret", "busy"} :
          /\ pc' = [pc EXCEPT ![t] = l]
          /\ pc[t] = "cfg" => l = "init"
          /\ pc[t] = "trans" => l = "lock"
          /\ pc[t] = "wait" => l \in {"unlock", "xfer"}
          /\ pc[t] = "uninit" => l \in {"ret", "busy"}
    BY <1>6 DEF TakeCfgLock, TransLock, WaitForCompletion, OpUninit, DeviceUninit, At, Goto
  <2>3. Ready(t)' <=> Ready(t)
    BY <2>1, <2>2 DEF Ready, ThreadTypes
  <2>4. Using(t) <=> l \in {"xfer", "wait", "unlock", "sending"}
    BY <2>1, <2>2 DEF Using
  <2>5. QED
    BY <2>1, <2>2, <2>3, <2>4, Unseen
<1>7. CASE EncUninit(t)
  <2>1. /\ pc[t] = "enc_uninit" /\ op' = op /\ rc' = rc
        /\ failed' = failed /\ periph' = periph
    BY <1>7 DEF EncUninit, DeviceUninit, At
  <2>2. CASE pc' = [pc EXCEPT ![t] = "busy"]
    BY <2>1, <2>2, Leaves
  <2>3. CASE pc' = [pc EXCEPT ![t] = "enc_end"]
    <3>1. Ready(t) /\ Ready(t)' /\ ~Using(t)
      BY <2>1, <2>3 DEF Ready, Using, ThreadTypes
    <3>2. QED
      BY <2>1, <2>3, <3>1, Unseen
  <2>4. QED
    BY <1>7, <2>2, <2>3 DEF EncUninit, DeviceUninit, Goto
<1>8. CASE StartTransfer(t)
  <2>1. pc[t] = "xfer" /\ op' = op /\ periph' = periph /\ Using(t) /\ Ready(t)
    BY <1>8 DEF StartTransfer, At, power, Using, Ready
  <2>2. CASE pc' = [pc EXCEPT ![t] = "wait"] /\ Ok(t)
    <3>1. Ready(t)'
      BY <2>1, <2>2 DEF Ready, ThreadTypes
    <3>2. QED
      BY <2>1, <2>2, <3>1, Unseen DEF Ok
  <2>3. CASE pc' = [pc EXCEPT ![t] = "unlock"] /\ Fail(t)
    <3>1. Ready(t)'
      BY <2>1, <2>3 DEF Ready, ThreadTypes
    <3>2. QED
      BY <2>1, <2>3, <3>1, Fails
  <2>4. QED
    BY <1>8, <2>2, <2>3 DEF StartTransfer, Goto
<1>9. CASE TransUnlock(t) \/ EncryptEnd(t)
  <2>1. /\ pc[t] \in {"trans_unlock", "enc_end"} /\ op' = op /\ rc' = rc
        /\ failed' = failed /\ periph' = periph
        /\ \E l \in {"uninit", "ret"} : pc' = [pc EXCEPT ![t] = l]
    BY <1>9 DEF TransUnlock, EncryptEnd, At, Goto, power
  <2>2. QED
    BY <2>1, Leaves
<1>10. CASE DmaEncrypt(t)
  <2>1. pc[t] = "dma" /\ op' = op /\ periph' = periph
    BY <1>10 DEF DmaEncrypt, At
  <2>2. CASE pc' = [pc EXCEPT ![t] = "enc_init"] /\ Ok(t)
    <3>1. Ready(t) /\ Ready(t)' /\ ~Using(t)
      BY <2>1, <2>2 DEF Ready, Using, ThreadTypes
    <3>2. QED
      BY <2>1, <2>2, <3>1, Unseen DEF Ok
  <2>3. CASE pc' = [pc EXCEPT ![t] = "ret"] /\ Fail(t)
    <3>1. \A u \in Threads \ {t} : rc'[u] = rc[u]
      BY <2>3 DEF Fail, ThreadTypes
    <3>2. QED
      BY <2>1, <2>3, <3>1, Leaves DEF Fail
  <2>4. QED
    BY <1>10, <2>2, <2>3 DEF DmaEncrypt, Goto
<1>11. CASE ReturnData(t) \/ ReturnHlRead(t) \/ ReturnRDSR1(t) \/ ReturnCmd(t)
  <2>1. /\ pc[t] = "ret" /\ op' = op /\ failed' = failed /\ periph' = periph
        /\ \A u \in Threads \ {t} : rc'[u] = rc[u]
    BY <1>11 DEF ReturnData, ReturnHlRead, ReturnRDSR1, ReturnCmd, At, power, ThreadTypes
  <2>2. rc' \in [Threads -> {"ok", "fail"}]
    BY DEF ThreadTypes
  <2>3. op[t] \in RdsrOps \cup {"hl_read"} \/ rc' = rc
    BY <1>11 DEF ReturnData, ReturnHlRead, ReturnRDSR1, ReturnCmd, RdsrOps
  <2>4. failed[t] \in BOOLEAN /\ rc[t] \in {"ok", "fail"}
    BY DEF ThreadTypes
  <2>5. rc'[t] = "ok" => failed[t] = FALSE \/ op[t] \in RdsrOps \cup {"hl_read"}
    BY <2>3, <2>4 DEF StatusInv, Tells
  <2>6. PICK l \in {"cfg", "init", "idle"} : pc' = [pc EXCEPT ![t] = l]
    BY <1>11 DEF ReturnData, ReturnHlRead, ReturnRDSR1, ReturnCmd, Goto
  <2>7. CASE l = "idle"
    BY <2>1, <2>2, <2>5, <2>6, <2>7, Answers
  <2>8. CASE l # "idle"
    <3>1. ~Ready(t) /\ ~Ready(t)' /\ ~Using(t)
      BY <2>1, <2>6 DEF Ready, Using, ThreadTypes
    <3>2. QED
      BY <2>1, <2>6, <2>8, <3>1, Unseen
  <2>9. QED
    BY <2>7, <2>8
<1>12. CASE Refuse(t)
  <2>1. pc[t] = "init" /\ op' = op /\ periph' = periph /\ pc' = [pc EXCEPT ![t] = "ret"]
    BY <1>12 DEF Refuse, At, Goto, power
  <2>2. ~Ready(t) /\ ~Ready(t)' /\ ~Using(t)
    BY <2>1 DEF Ready, Using, ThreadTypes
  <2>3. CASE Fail(t)
    BY <2>1, <2>2, <2>3, Fails
  <2>4. CASE Ok(t)
    BY <2>1, <2>2, <2>4, Unseen DEF Ok
  <2>5. QED
    BY <1>12, <2>3, <2>4 DEF Refuse
<1>13. CASE NoMemory(t)
  <2>1. /\ pc[t] = "cfg" /\ op[t] = "hl_read" /\ op' = op /\ rc' = rc /\ periph' = periph
        /\ failed' = [failed EXCEPT ![t] = TRUE]
    BY <1>13 DEF NoMemory, At, power
  <2>2. CASE pc' = [pc EXCEPT ![t] = "idle"]
    <3>1. \A u \in Threads \ {t} : failed'[u] = failed[u] /\ rc'[u] = rc[u]
      BY <2>1 DEF ThreadTypes
    <3>2. rc' \in [Threads -> {"ok", "fail"}]
      BY DEF ThreadTypes
    <3>3. QED
      BY <2>1, <2>2, <3>1, <3>2, Answers
  <2>3. CASE pc' = [pc EXCEPT ![t] = "cfg"]
    <3>1. ~Ready(t) /\ ~Ready(t)' /\ ~Using(t)
      BY <2>1, <2>3 DEF Ready, Using, ThreadTypes
    <3>2. Position' = Position /\ Failing' = Failing \cup {t}
      BY <2>1, <2>3, FrameInside
    <3>3. InSession' = InSession /\ Holders' = Holders
      BY <2>1, <2>3, <3>1, SameSets
    <3>4. Service!Asked(t)
      BY <2>1, Asked
    <3>5. QED
      BY <2>1, <3>2, <3>3, <3>4 DEF Service!StepFails
  <2>4. QED
    BY <1>13, <2>2, <2>3 DEF NoMemory, Goto
<1>14. QED
  BY <1>1, <1>2, <1>3, <1>4, <1>5, <1>6, <1>7, <1>8, <1>9, <1>10, <1>11, <1>12, <1>13
     DEF Thread

LEMMA StepService ==
  ASSUME TypeOK, TypeOK', OpInv, SemInv, EncryptInv, CountInv, PowerInv, StatusInv,
         [Next]_vars
  PROVE  [Service!ServiceNext]_(Service!serviceVars)
<1> USE DEF TypeOK
<1>1. CASE QspiInit
  BY <1>1, StepSetup DEF Service!ServiceNext
<1>2. ASSUME pc' = pc, op' = op, rc' = rc, failed' = failed, periph' = periph
      PROVE  UNCHANGED Service!serviceVars
  <2>1. Position' = Position
    BY <1>2 DEF Position, At
  <2>2. InSession' = InSession /\ Holders' = Holders
    BY <1>2, Zenon DEF InSession, Ready, Holders, Using
  <2>3. Failing' = Failing
    BY <1>2, Zenon DEF Failing, At
  <2>4. QED
    BY <1>2, <2>1, <2>2, <2>3 DEF Service!serviceVars
<1>3. CASE TransferDone
  BY <1>2, <1>3 DEF TransferDone, power
<1>4. CASE UNCHANGED vars
  BY <1>2, <1>4 DEF vars
<1>5. CASE \E t \in Threads : Thread(t)
  BY <1>5, StepThread
<1>6. QED
  BY <1>1, <1>3, <1>4, <1>5 DEF Next

(* The driver implements BusService: what one thread at a time does to the *)
(* peripheral in its session is all that the semaphores, the session count *)
(* and the flag let happen, however many threads there are.                *)
THEOREM DriverImplementsService == Spec => BusAsPromised
<1>1. Init => Service!ServiceInit
  <2> SUFFICES ASSUME Init PROVE Service!ServiceInit
    OBVIOUS
  <2>1. Position = [t \in Threads |-> "ok"]
    BY DEF Init, Position, At
  <2>2. InSession = {} /\ Holders = {} /\ Failing = {}
    BY DEF Init, InSession, Ready, Holders, Using, Failing, At
  <2>3. QED
    BY <2>1, <2>2 DEF Init, Service!ServiceInit
<1>2. Init => StatusInv
  BY DEF Init, StatusInv, BeforeCommand
<1>3. TypeOK /\ StatusInv /\ [Next]_vars => StatusInv'
  BY StatusInvStep DEF TypeOK
<1>4. Spec => []StatusInv
  BY <1>2, <1>3, TypeCorrect, PTL DEF Spec
<1>5. /\ TypeOK /\ TypeOK' /\ OpInv /\ SemInv /\ EncryptInv /\ CountInv /\ PowerInv
      /\ StatusInv /\ [Next]_vars
      => [Service!ServiceNext]_(Service!serviceVars)
  BY StepService
<1>6. QED
  BY <1>1, <1>4, <1>5, TypeCorrect, OpInvAlways, SemInvAlways, CountInvAlways, PowerInvAlways,
     PTL DEF Spec, BusAsPromised, Service!ServiceSpec
=============================================================================
