--------------------------- MODULE QspiBusProofs ---------------------------
(***************************************************************************)
(* Theorems about QspiBus for every set of threads, every set of           *)
(* operations and faults, and with or without CONFIG_NRF70_QSPI_LOW_POWER. *)
(***************************************************************************)
EXTENDS QspiBus, FiniteSetTheorems, TLAPS

---------------------------------------------------------------------------
(* Type correctness.                                                       *)

LEMMA StepsNat == ASSUME NEW o PROVE Steps(o) \subseteq Nat \ {0}
  BY BusAssumption DEF Steps, BusAssumption

LEMMA AfterInitPC ==
  ASSUME NEW o
  PROVE  AfterInit(o) \in PCs /\ AfterInitError(o) \in PCs
  BY DEF AfterInit, AfterInitError, PCs

LEMMA ThreadTypesStep ==
  ASSUME ThreadTypes, [Next]_vars PROVE ThreadTypes'
<1> USE DEF ThreadTypes, PCs, At, Goto, Ok, Fail, sems, power, config
<1>1. CASE QspiInit \/ TransferDone
  BY <1>1 DEF QspiInit, NrfxConfigure, TransferDone
<1>2. ASSUME NEW t \in Threads, Thread(t) PROVE ThreadTypes'
  <2>1. CASE Start(t)
    BY <2>1, StepsNat DEF Start
  <2>2. CASE TakeCfgLock(t) \/ TransLock(t) \/ Lock(t) \/ Unlock(t) \/ TransUnlock(t)
    BY <2>2 DEF TakeCfgLock, TransLock, Lock, Unlock, TransUnlock
  <2>3. CASE OpInit(t)
    <3>1. AfterInit(op[t]) \in PCs /\ AfterInitError(op[t]) \in PCs
      BY AfterInitPC, Zenon
    <3>2. \/ pc' = [pc EXCEPT ![t] = AfterInit(op[t])]
          \/ pc' = [pc EXCEPT ![t] = AfterInitError(op[t])]
      BY <2>3, Zenon DEF OpInit, DeviceInit
    <3>3. pc' \in [Threads -> PCs]
      BY <3>1, <3>2
    <3>4. QED
      BY <2>3, <3>3 DEF OpInit, DeviceInit
  <2>4. CASE EncInit(t)
    BY <2>4 DEF EncInit, DeviceInit
  <2>5. CASE OpUninit(t) \/ EncUninit(t) \/ UninitLast(t)
    BY <2>5 DEF OpUninit, EncUninit, DeviceUninit, UninitLast
  <2>6. CASE StartTransfer(t)
    BY <2>6 DEF StartTransfer
  <2>7. CASE WaitForCompletion(t)
    BY <2>7 DEF WaitForCompletion
  <2>8. CASE SendBegin(t) \/ SendEnd(t)
    BY <2>8 DEF SendBegin, SendEnd
  <2>9. CASE DmaEncrypt(t) \/ EncryptEnd(t)
    BY <2>9 DEF DmaEncrypt, EncryptEnd
  <2>10. CASE ReturnData(t) \/ ReturnHlRead(t) \/ ReturnRDSR1(t) \/ ReturnCmd(t)
    BY <2>10 DEF ReturnData, ReturnHlRead, ReturnRDSR1, ReturnCmd
  <2>11. CASE NoMemory(t)
    BY <2>11 DEF NoMemory
  <2>12. CASE Refuse(t)
    BY <2>12 DEF Refuse
  <2>13. QED
    BY <1>2, <2>1, <2>2, <2>3, <2>4, <2>5, <2>6, <2>7, <2>8, <2>9, <2>10, <2>11, <2>12
       DEF Thread
<1>3. CASE UNCHANGED vars
  BY <1>3 DEF vars
<1>4. QED
  BY <1>1, <1>2, <1>3 DEF Next

LEMMA BusTypesStep ==
  ASSUME BusTypes, [Next]_vars PROVE BusTypes'
<1> USE DEF BusTypes, sems, power, config
<1>1. CASE QspiInit \/ TransferDone
  BY <1>1 DEF QspiInit, NrfxConfigure, TransferDone
<1>2. ASSUME NEW t \in Threads, Thread(t) PROVE BusTypes'
  <2>1. CASE Start(t) \/ StartTransfer(t) \/ WaitForCompletion(t)
    BY <2>1 DEF Start, StartTransfer, WaitForCompletion
  <2>2. CASE TakeCfgLock(t) \/ TransLock(t) \/ Lock(t) \/ Unlock(t) \/ TransUnlock(t)
    BY <2>2 DEF TakeCfgLock, TransLock, Lock, Unlock, TransUnlock
  <2>3. CASE OpInit(t) \/ EncInit(t)
    BY <2>3 DEF OpInit, EncInit, DeviceInit
  <2>4. CASE OpUninit(t) \/ EncUninit(t) \/ UninitLast(t)
    BY <2>4 DEF OpUninit, EncUninit, DeviceUninit, UninitLast
  <2>5. CASE SendBegin(t) \/ SendEnd(t) \/ DmaEncrypt(t) \/ EncryptEnd(t)
    BY <2>5 DEF SendBegin, SendEnd, DmaEncrypt, EncryptEnd
  <2>6. CASE \/ NoMemory(t) \/ Refuse(t)
             \/ ReturnData(t) \/ ReturnHlRead(t) \/ ReturnRDSR1(t) \/ ReturnCmd(t)
    BY <2>6 DEF NoMemory, Refuse, ReturnData, ReturnHlRead, ReturnRDSR1, ReturnCmd
  <2>7. QED
    BY <1>2, <2>1, <2>2, <2>3, <2>4, <2>5, <2>6 DEF Thread
<1>3. CASE UNCHANGED vars
  BY <1>3 DEF vars
<1>4. QED
  BY <1>1, <1>2, <1>3 DEF Next

LEMMA FlagTypesStep ==
  ASSUME FlagTypes, [Next]_vars PROVE FlagTypes'
<1> USE DEF FlagTypes, sems, power, config
<1>1. CASE QspiInit
  BY <1>1, Zenon DEF QspiInit, NrfxConfigure
<1>2. CASE TransferDone
  BY <1>2, Zenon DEF TransferDone
<1>3. ASSUME NEW t \in Threads, Thread(t) PROVE FlagTypes'
  <2>1. CASE Start(t) \/ StartTransfer(t) \/ WaitForCompletion(t)
    BY <2>1, Zenon DEF Start, StartTransfer, WaitForCompletion
  <2>2. CASE TakeCfgLock(t) \/ TransLock(t) \/ Lock(t) \/ Unlock(t) \/ TransUnlock(t)
    BY <2>2, Zenon DEF TakeCfgLock, TransLock, Lock, Unlock, TransUnlock
  <2>3. CASE OpInit(t) \/ EncInit(t)
    BY <2>3, Zenon DEF OpInit, EncInit, DeviceInit
  <2>4. CASE OpUninit(t) \/ EncUninit(t) \/ UninitLast(t)
    BY <2>4, Zenon DEF OpUninit, EncUninit, DeviceUninit, UninitLast
  <2>5. CASE SendBegin(t) \/ SendEnd(t) \/ DmaEncrypt(t) \/ EncryptEnd(t)
    BY <2>5, Zenon DEF SendBegin, SendEnd, DmaEncrypt, EncryptEnd
  <2>6. CASE \/ NoMemory(t) \/ Refuse(t)
             \/ ReturnData(t) \/ ReturnHlRead(t) \/ ReturnRDSR1(t) \/ ReturnCmd(t)
    BY <2>6, Zenon DEF NoMemory, Refuse, ReturnData, ReturnHlRead, ReturnRDSR1, ReturnCmd
  <2>7. QED
    BY <1>3, <2>1, <2>2, <2>3, <2>4, <2>5, <2>6 DEF Thread
<1>4. CASE UNCHANGED vars
  BY <1>4, Zenon DEF vars
<1>5. QED
  BY <1>1, <1>2, <1>3, <1>4 DEF Next

(* Every variable keeps its type: no step of any operation leaves a thread *)
(* nowhere, a semaphore outside {0, 1} or the session count negative.      *)
THEOREM TypeCorrect == Spec => []TypeOK
<1>1. Init => ThreadTypes
  BY DEF Init, ThreadTypes, PCs
<1>2. Init => BusTypes
  BY DEF Init, BusTypes
<1>3. Init => FlagTypes
  BY Zenon DEF Init, FlagTypes
<1>4. TypeOK /\ [Next]_vars => TypeOK'
  BY ThreadTypesStep, BusTypesStep, FlagTypesStep DEF TypeOK
<1>5. QED
  BY <1>1, <1>2, <1>3, <1>4, PTL DEF Spec, TypeOK

---------------------------------------------------------------------------
(* Mutual exclusion.  BusExclusive is inductive once it is known that the  *)
(* semaphore is only available when no thread is inside.                   *)

SemInv ==
  /\ BusExclusive
  /\ sem = 1 => \A t \in Threads : ~HoldsSem(t)

LEMMA SemInvStep ==
  ASSUME ThreadTypes, BusTypes, SemInv, [Next]_vars PROVE SemInv'
<1> USE DEF SemInv, BusExclusive, HoldsSem, ThreadTypes, BusTypes, At, Goto, sems, power, config
<1>1. CASE QspiInit \/ TransferDone
  BY <1>1 DEF QspiInit, NrfxConfigure, TransferDone
<1>2. ASSUME NEW t \in Threads, Thread(t) PROVE SemInv'
  <2>1. CASE Start(t) \/ TakeCfgLock(t) \/ TransLock(t) \/ TransUnlock(t)
    BY <2>1 DEF Start, TakeCfgLock, TransLock, TransUnlock
  <2>2. CASE Lock(t)
    BY <2>2 DEF Lock
  <2>3. CASE Unlock(t)
    BY <2>3 DEF Unlock
  <2>4. CASE OpInit(t)
    <3>1. AfterInit(op[t]) \notin {"xfer", "wait", "unlock", "sending", "busy"}
      BY DEF AfterInit
    <3>2. AfterInitError(op[t]) \notin {"xfer", "wait", "unlock", "sending", "busy"}
      BY DEF AfterInitError
    <3>3. /\ sem' = sem
          /\ \/ pc' = [pc EXCEPT ![t] = AfterInit(op[t])]
             \/ pc' = [pc EXCEPT ![t] = AfterInitError(op[t])]
      BY <2>4, Zenon DEF OpInit, DeviceInit
    <3>4. QED
      BY <3>1, <3>2, <3>3
  <2>5. CASE EncInit(t)
    BY <2>5 DEF EncInit, DeviceInit
  <2>6. CASE OpUninit(t)
    BY <2>6 DEF OpUninit, DeviceUninit
  <2>7. CASE EncUninit(t)
    BY <2>7 DEF EncUninit, DeviceUninit
  <2>8. CASE UninitLast(t)
    BY <2>8 DEF UninitLast
  <2>9. CASE StartTransfer(t)
    BY <2>9 DEF StartTransfer
  <2>10. CASE WaitForCompletion(t)
    BY <2>10 DEF WaitForCompletion
  <2>11. CASE SendBegin(t)
    BY <2>11 DEF SendBegin
  <2>12. CASE SendEnd(t)
    BY <2>12 DEF SendEnd
  <2>13. CASE DmaEncrypt(t) \/ EncryptEnd(t)
    BY <2>13 DEF DmaEncrypt, EncryptEnd
  <2>14. CASE \/ NoMemory(t) \/ Refuse(t)
              \/ ReturnData(t) \/ ReturnHlRead(t) \/ ReturnRDSR1(t) \/ ReturnCmd(t)
    BY <2>14 DEF NoMemory, Refuse, ReturnData, ReturnHlRead, ReturnRDSR1, ReturnCmd
  <2>15. QED
    BY <1>2, <2>1, <2>2, <2>3, <2>4, <2>5, <2>6, <2>7, <2>8, <2>9, <2>10, <2>11,
       <2>12, <2>13, <2>14 DEF Thread
<1>3. CASE UNCHANGED vars
  BY <1>3 DEF vars
<1>4. QED
  BY <1>1, <1>2, <1>3 DEF Next

LEMMA SemInvAlways == Spec => []SemInv
<1>1. Init => SemInv
  BY DEF Init, SemInv, BusExclusive, HoldsSem
<1>2. TypeOK /\ SemInv /\ [Next]_vars => SemInv'
  BY SemInvStep DEF TypeOK
<1>3. QED
  BY <1>1, <1>2, TypeCorrect, PTL DEF Spec

(* However many threads use the bus, and whatever fails, an operation has  *)
(* the peripheral to itself from qspi_lock to qspi_unlock.                 *)
THEOREM MutualExclusion == Spec => []BusExclusive
<1>1. SemInv => BusExclusive
  BY DEF SemInv
<1>2. QED
  BY <1>1, SemInvAlways, PTL

---------------------------------------------------------------------------
(* Completions.  With the bus exclusive, CompletionIsOwn is inductive.     *)

LEMMA CompletionStep ==
  ASSUME ThreadTypes, BusTypes, SemInv, CompletionIsOwn, [Next]_vars
  PROVE  CompletionIsOwn'
<1> USE BusAssumption
    DEF SemInv, BusExclusive, HoldsSem, CompletionIsOwn, BusAssumption,
        ThreadTypes, BusTypes, At, Goto, sems, power, config
<1>1. CASE QspiInit
  BY <1>1 DEF QspiInit, NrfxConfigure
<1>2. CASE TransferDone
  BY <1>2 DEF TransferDone
<1>3. ASSUME NEW t \in Threads, Thread(t) PROVE CompletionIsOwn'
  <2>1. CASE Start(t)
    BY <2>1 DEF Start
  <2>2. CASE TakeCfgLock(t) \/ TransLock(t) \/ Lock(t) \/ TransUnlock(t)
    BY <2>2 DEF TakeCfgLock, TransLock, TransUnlock, Lock
  <2>3. CASE Unlock(t)
    BY <2>3 DEF Unlock
  <2>4. CASE OpInit(t)
    <3>1. AfterInit(op[t]) # "wait" /\ AfterInitError(op[t]) # "wait"
      BY DEF AfterInit, AfterInitError
    <3>2. /\ UNCHANGED <<sync, dma>> /\ pc[t] = "init"
          /\ \/ pc' = [pc EXCEPT ![t] = AfterInit(op[t])]
             \/ pc' = [pc EXCEPT ![t] = AfterInitError(op[t])]
      BY <2>4, Zenon DEF OpInit, DeviceInit
    <3>3. QED
      BY <3>1, <3>2
  <2>5. CASE EncInit(t)
    BY <2>5 DEF EncInit, DeviceInit
  <2>6. CASE OpUninit(t) \/ EncUninit(t)
    BY <2>6 DEF OpUninit, EncUninit, DeviceUninit
  <2>7. CASE UninitLast(t)
    BY <2>7 DEF UninitLast
  <2>8. CASE StartTransfer(t)
    BY <2>8 DEF StartTransfer
  <2>9. CASE WaitForCompletion(t)
    BY <2>9 DEF WaitForCompletion
  <2>10. CASE SendBegin(t) \/ SendEnd(t)
    BY <2>10 DEF SendBegin, SendEnd
  <2>11. CASE DmaEncrypt(t) \/ EncryptEnd(t)
    BY <2>11 DEF DmaEncrypt, EncryptEnd
  <2>12. CASE \/ NoMemory(t) \/ Refuse(t)
              \/ ReturnData(t) \/ ReturnHlRead(t) \/ ReturnRDSR1(t) \/ ReturnCmd(t)
    BY <2>12 DEF NoMemory, Refuse, ReturnData, ReturnHlRead, ReturnRDSR1, ReturnCmd
  <2>13. QED
    BY <1>3, <2>1, <2>2, <2>3, <2>4, <2>5, <2>6, <2>7, <2>8, <2>9, <2>10, <2>11,
       <2>12 DEF Thread
<1>4. CASE UNCHANGED vars
  BY <1>4 DEF vars
<1>5. QED
  BY <1>1, <1>2, <1>3, <1>4 DEF Next

(* No thread ever continues on the completion of another transfer.         *)
THEOREM CompletionTheorem == Spec => []CompletionIsOwn
<1>1. Init => CompletionIsOwn
  BY DEF Init, CompletionIsOwn, At
<1>2. TypeOK /\ SemInv /\ CompletionIsOwn /\ [Next]_vars => CompletionIsOwn'
  BY CompletionStep DEF TypeOK
<1>3. QED
  BY <1>1, <1>2, TypeCorrect, SemInvAlways, PTL DEF Spec

---------------------------------------------------------------------------
(* The count of sessions.  It covers every session in progress, the inner  *)
(* one of qspi_cmd_encryption included, and exceeds them only once an      *)
(* operation has returned without its qspi_device_uninit.                  *)

Sessions == Cardinality(Users) + Cardinality(Inner)

CountInv == LowPower => count >= Sessions /\ (~leaked => count = Sessions)

(* The labels of qspi_enable_encryption belong to that operation.          *)
EncryptInv ==
  \A t \in Threads :
    pc[t] \in {"dma", "enc_init", "enc_uninit", "enc_end"} => op[t] = "encrypt"

LEMMA SessionSets ==
  /\ IsFiniteSet(Users) /\ IsFiniteSet(Inner)
  /\ Cardinality(Users) \in Nat /\ Cardinality(Inner) \in Nat
<1>1. Users \subseteq Threads /\ Inner \subseteq Threads
  BY DEF Users, Inner
<1>2. QED
  BY <1>1, FS_Subset, FS_CardinalityType, BusAssumption DEF BusAssumption

LEMMA SessionSetsPrime ==
  /\ IsFiniteSet(Users') /\ IsFiniteSet(Inner')
  /\ Cardinality(Users') \in Nat /\ Cardinality(Inner') \in Nat
<1>1. Users' \subseteq Threads /\ Inner' \subseteq Threads
  BY DEF Users, Inner
<1>2. QED
  BY <1>1, FS_Subset, FS_CardinalityType, BusAssumption DEF BusAssumption

(* How one thread's move changes the two sets.                             *)
LEMMA SessionMove ==
  ASSUME ThreadTypes, op' = op, NEW t \in Threads, NEW l, pc' = [pc EXCEPT ![t] = l]
  PROVE  /\ l \in UserPCs => Users' = Users \cup {t}
         /\ l \notin UserPCs => Users' = Users \ {t}
         /\ (l \in UserPCs <=> t \in Users) => Users' = Users
         /\ op[t] = "encrypt" /\ l \in InnerPCs => Inner' = Inner \cup {t}
         /\ l \notin InnerPCs => Inner' = Inner \ {t}
         /\ (op[t] = "encrypt" /\ l \in InnerPCs <=> t \in Inner) => Inner' = Inner
<1> USE DEF ThreadTypes
<1>1. /\ l \in UserPCs => Users' = Users \cup {t}
      /\ l \notin UserPCs => Users' = Users \ {t}
  BY DEF Users
<1>2. (l \in UserPCs <=> t \in Users) => Users' = Users
  BY DEF Users
<1>3. /\ op[t] = "encrypt" /\ l \in InnerPCs => Inner' = Inner \cup {t}
      /\ l \notin InnerPCs => Inner' = Inner \ {t}
  BY DEF Inner
<1>4. (op[t] = "encrypt" /\ l \in InnerPCs <=> t \in Inner) => Inner' = Inner
  BY DEF Inner
<1>5. QED
  BY <1>1, <1>2, <1>3, <1>4

LEMMA EncryptInvStep ==
  ASSUME ThreadTypes, EncryptInv, [Next]_vars PROVE EncryptInv'
<1> USE DEF EncryptInv, ThreadTypes, At, Goto, sems, power, config
<1>1. CASE QspiInit \/ TransferDone
  BY <1>1 DEF QspiInit, NrfxConfigure, TransferDone
<1>2. ASSUME NEW t \in Threads, Thread(t) PROVE EncryptInv'
  <2>1. CASE Start(t)
    BY <2>1 DEF Start
  <2>2. CASE TakeCfgLock(t) \/ TransLock(t) \/ Lock(t) \/ TransUnlock(t)
    BY <2>2 DEF TakeCfgLock, TransLock, TransUnlock, Lock
  <2>3. CASE Unlock(t)
    BY <2>3 DEF Unlock
  <2>4. CASE OpInit(t)
    <3>1. AfterInit(op[t]) \in {"dma", "enc_init", "enc_uninit", "enc_end"} => op[t] = "encrypt"
      BY DEF AfterInit
    <3>2. AfterInitError(op[t]) \notin {"dma", "enc_init", "enc_uninit", "enc_end"}
      BY DEF AfterInitError
    <3>3. /\ op' = op
          /\ \/ pc' = [pc EXCEPT ![t] = AfterInit(op[t])]
             \/ pc' = [pc EXCEPT ![t] = AfterInitError(op[t])]
      BY <2>4, Zenon DEF OpInit, DeviceInit
    <3>4. QED
      BY <3>1, <3>2, <3>3
  <2>5. CASE EncInit(t)
    BY <2>5 DEF EncInit, DeviceInit
  <2>6. CASE OpUninit(t) \/ EncUninit(t)
    BY <2>6 DEF OpUninit, EncUninit, DeviceUninit
  <2>7. CASE UninitLast(t)
    BY <2>7 DEF UninitLast
  <2>8. CASE StartTransfer(t)
    BY <2>8 DEF StartTransfer
  <2>9. CASE WaitForCompletion(t)
    BY <2>9 DEF WaitForCompletion
  <2>10. CASE SendBegin(t) \/ SendEnd(t)
    BY <2>10 DEF SendBegin, SendEnd
  <2>11. CASE DmaEncrypt(t) \/ EncryptEnd(t)
    BY <2>11 DEF DmaEncrypt, EncryptEnd
  <2>12. CASE \/ NoMemory(t) \/ Refuse(t)
              \/ ReturnData(t) \/ ReturnHlRead(t) \/ ReturnRDSR1(t) \/ ReturnCmd(t)
    BY <2>12 DEF NoMemory, Refuse, ReturnData, ReturnHlRead, ReturnRDSR1, ReturnCmd
  <2>13. QED
    BY <1>2, <2>1, <2>2, <2>3, <2>4, <2>5, <2>6, <2>7, <2>8, <2>9, <2>10, <2>11,
       <2>12 DEF Thread
<1>3. CASE UNCHANGED vars
  BY <1>3 DEF vars
<1>4. QED
  BY <1>1, <1>2, <1>3 DEF Next

(* A step that leaves both sets, the count and the history alone.          *)
LEMMA CountInvFrame ==
  ASSUME CountInv, Users' = Users, Inner' = Inner, count' = count, leaked' = leaked
  PROVE  CountInv'
BY DEF CountInv, Sessions

LEMMA CountInvStep ==
  ASSUME ThreadTypes, BusTypes, EncryptInv, CountInv, [Next]_vars
  PROVE  CountInv'
<1> USE DEF At, Goto, sems, power, config
<1>1. CASE QspiInit
  <2>1. Users = {} /\ Users' = {} /\ Inner = {} /\ Inner' = {}
    BY <1>1 DEF QspiInit, NrfxConfigure, AllIdle, Users, Inner, UserPCs, InnerPCs
  <2>2. Sessions = 0 /\ Sessions' = 0
    BY <2>1, FS_EmptySet DEF Sessions
  <2>3. /\ leaked' = leaked
        /\ \/ count' = count
           \/ count' = IF count > 0 THEN count - 1 ELSE 0
    BY <1>1, Zenon DEF QspiInit, NrfxConfigure
  <2>4. QED
    BY <2>2, <2>3 DEF CountInv, BusTypes
<1>2. CASE TransferDone
  BY <1>2, CountInvFrame DEF TransferDone, Users, Inner
<1>3. ASSUME NEW t \in Threads, Thread(t) PROVE CountInv'
  <2>1. CASE Start(t)
    <3>1. Users' = Users /\ Inner' = Inner
      BY <2>1 DEF Start, Users, Inner, UserPCs, InnerPCs, ThreadTypes
    <3>2. QED
      BY <2>1, <3>1, CountInvFrame DEF Start
  <2>2. CASE OpInit(t)
    <3>1. t \notin Users /\ t \notin Inner
      BY <2>2 DEF OpInit, DeviceInit, Users, Inner, UserPCs, InnerPCs
    <3>2. Cardinality(Users \cup {t}) = Cardinality(Users) + 1
      BY <3>1, SessionSets, FS_AddElement
    <3>3. CASE ~LowPower
      BY <3>3 DEF CountInv
    <3>4. ASSUME LowPower, pc' = [pc EXCEPT ![t] = AfterInit(op[t])],
                 count' = count + 1, op' = op, leaked' = leaked
          PROVE  CountInv'
      <4>1. AfterInit(op[t]) \in UserPCs
        BY DEF AfterInit, UserPCs
      <4>2. op[t] = "encrypt" => AfterInit(op[t]) \notin InnerPCs
        BY DEF AfterInit, InnerPCs
      <4>3. Users' = Users \cup {t} /\ Inner' = Inner
        BY <3>1, <3>4, <4>1, <4>2, SessionMove
      <4>4. QED
        BY <3>2, <3>4, <4>3, SessionSets DEF CountInv, Sessions, BusTypes
    <3>5. ASSUME LowPower, pc' = [pc EXCEPT ![t] = AfterInitError(op[t])],
                 count' = count + 1, op' = op,
                 leaked' = (leaked \/ AfterInitError(op[t]) = "ret")
          PROVE  CountInv'
      <4>1. CASE AfterInitError(op[t]) = "ret"
        <5>1. Users' = Users /\ Inner' = Inner
          BY <3>1, <3>5, <4>1, SessionMove DEF UserPCs, InnerPCs
        <5>2. leaked'
          BY <3>5, <4>1
        <5>3. QED
          BY <3>5, <5>1, <5>2, SessionSets DEF CountInv, Sessions, BusTypes
      <4>2. CASE AfterInitError(op[t]) # "ret"
        <5>1. AfterInitError(op[t]) \in UserPCs /\ op[t] # "encrypt"
          BY <4>2 DEF AfterInitError, UserPCs, LeakyOps, RegOps, RdsrOps
        <5>2. Users' = Users \cup {t} /\ Inner' = Inner
          BY <3>1, <3>5, <5>1, SessionMove
        <5>3. ~leaked' => ~leaked
          BY <3>5
        <5>4. QED
          BY <3>2, <3>5, <5>2, <5>3, SessionSets DEF CountInv, Sessions, BusTypes
      <4>3. QED
        BY <4>1, <4>2
    <3>6. QED
      BY <2>2, <3>3, <3>4, <3>5, Zenon DEF OpInit, DeviceInit
  <2>3. CASE EncInit(t)
    <3>1. pc[t] = "enc_init" /\ op[t] = "encrypt"
      BY <2>3 DEF EncInit, DeviceInit, EncryptInv
    <3>2. t \in Users /\ t \notin Inner
      BY <3>1 DEF Users, Inner, UserPCs, InnerPCs
    <3>3. Cardinality(Inner \cup {t}) = Cardinality(Inner) + 1
      BY <3>2, SessionSets, FS_AddElement
    <3>4. CASE ~LowPower
      BY <3>4 DEF CountInv
    <3>5. CASE LowPower
      <4>1. count' = count + 1 /\ op' = op
        BY <2>3, <3>5 DEF EncInit, DeviceInit
      <4>2. leaked' = leaked \/ leaked' = (leaked \/ "enc_uninit" = "ret")
        BY <2>3, <3>5, Zenon DEF EncInit, DeviceInit
      <4>3. ~leaked' => ~leaked
        BY <4>2
      <4>4. \/ pc' = [pc EXCEPT ![t] = "send"]
            \/ pc' = [pc EXCEPT ![t] = "enc_uninit"]
        BY <2>3, <3>5 DEF EncInit, DeviceInit
      <4>5. Users' = Users /\ Inner' = Inner \cup {t}
        BY <3>1, <3>2, <4>1, <4>4, SessionMove DEF UserPCs, InnerPCs
      <4>6. QED
        BY <3>3, <3>5, <4>1, <4>3, <4>5, SessionSets DEF CountInv, Sessions, BusTypes
    <3>6. QED
      BY <3>4, <3>5
  <2>4. CASE OpUninit(t)
    <3>1. pc[t] = "uninit" /\ op' = op /\ leaked' = leaked
      BY <2>4 DEF OpUninit, DeviceUninit
    <3>2. t \in Users /\ t \notin Inner
      BY <3>1 DEF Users, Inner, UserPCs, InnerPCs
    <3>3. Cardinality(Users \ {t}) = Cardinality(Users) - 1
      BY <3>2, SessionSets, FS_RemoveElement
    <3>4. CASE ~LowPower
      BY <3>4 DEF CountInv
    <3>5. CASE LowPower
      <4>1. count' = IF count > 0 THEN count - 1 ELSE 0
        BY <2>4, <3>5 DEF OpUninit, DeviceUninit
      <4>2. \/ pc' = [pc EXCEPT ![t] = "busy"]
            \/ pc' = [pc EXCEPT ![t] = "ret"]
        BY <2>4, <3>5 DEF OpUninit, DeviceUninit
      <4>3. Users' = Users \ {t} /\ Inner' = Inner
        BY <3>1, <3>2, <4>2, SessionMove DEF UserPCs, InnerPCs
      <4>4. Cardinality(Users) >= 1
        BY <3>2, SessionSets, FS_EmptySet
      <4>5. QED
        BY <3>1, <3>3, <3>5, <4>1, <4>3, <4>4, SessionSets
           DEF CountInv, Sessions, BusTypes
    <3>6. QED
      BY <3>4, <3>5
  <2>5. CASE EncUninit(t)
    <3>1. pc[t] = "enc_uninit" /\ op' = op /\ leaked' = leaked /\ op[t] = "encrypt"
      BY <2>5 DEF EncUninit, DeviceUninit, EncryptInv
    <3>2. t \in Users /\ t \in Inner
      BY <3>1 DEF Users, Inner, UserPCs, InnerPCs
    <3>3. Cardinality(Inner \ {t}) = Cardinality(Inner) - 1
      BY <3>2, SessionSets, FS_RemoveElement
    <3>4. CASE ~LowPower
      BY <3>4 DEF CountInv
    <3>5. CASE LowPower
      <4>1. Cardinality(Users) >= 1 /\ Cardinality(Inner) >= 1
        BY <3>2, SessionSets, FS_EmptySet
      <4>2. count >= 2
        BY <3>5, <4>1, SessionSets DEF CountInv, Sessions, BusTypes
      <4>3. count' = count - 1 /\ pc' = [pc EXCEPT ![t] = "enc_end"]
        BY <2>5, <3>5, <4>2 DEF EncUninit, DeviceUninit, BusTypes
      <4>4. Users' = Users /\ Inner' = Inner \ {t}
        BY <3>1, <3>2, <4>3, SessionMove, ZenonT(60) DEF UserPCs, InnerPCs
      <4>5. QED
        BY <3>1, <3>3, <3>5, <4>3, <4>4, SessionSets DEF CountInv, Sessions, BusTypes
    <3>6. QED
      BY <3>4, <3>5
  <2>6. ASSUME op' = op, count' = count, leaked' = TRUE,
               pc[t] \in {"dma", "enc_end"}, pc' = [pc EXCEPT ![t] = "ret"]
        PROVE  CountInv'
    <3>1. t \in Users /\ t \notin Inner
      BY <2>6 DEF Users, Inner, UserPCs, InnerPCs
    <3>2. Users' = Users \ {t} /\ Inner' = Inner
      <4>1. "ret" \notin UserPCs /\ "ret" \notin InnerPCs
        BY DEF UserPCs, InnerPCs
      <4>2. QED
        BY <2>6, <3>1, <4>1, SessionMove
    <3>3. Cardinality(Users \ {t}) = Cardinality(Users) - 1
      BY <3>1, SessionSets, FS_RemoveElement
    <3>4. QED
      BY <2>6, <3>2, <3>3, SessionSets DEF CountInv, Sessions, BusTypes
  <2>7. CASE DmaEncrypt(t)
    <3>1. ASSUME pc' = [pc EXCEPT ![t] = "enc_init"], leaked' = leaked
          PROVE  CountInv'
      BY <2>7, <3>1, SessionMove, CountInvFrame
         DEF DmaEncrypt, UserPCs, InnerPCs, Users, Inner
    <3>2. QED
      BY <2>6, <2>7, <3>1, Zenon DEF DmaEncrypt
  <2>8. CASE EncryptEnd(t)
    <3>1. ASSUME pc' = [pc EXCEPT ![t] = "uninit"], leaked' = leaked
          PROVE  CountInv'
      BY <2>8, <3>1, SessionMove, CountInvFrame
         DEF EncryptEnd, UserPCs, InnerPCs, Users, Inner
    <3>2. QED
      BY <2>6, <2>8, <3>1, Zenon DEF EncryptEnd
  <2>9. ASSUME op' = op, count' = count, leaked' = leaked, NEW l, pc' = [pc EXCEPT ![t] = l],
               \/ pc[t] \notin UserPCs /\ l \notin UserPCs
               \/ pc[t] \in UserPCs \ InnerPCs /\ l \in UserPCs \ InnerPCs
               \/ pc[t] \in InnerPCs /\ l \in InnerPCs
               \/ pc[t] \in InnerPCs /\ l \in UserPCs /\ op[t] # "encrypt"
        PROVE  CountInv'
    <3>1. InnerPCs \subseteq UserPCs
      BY DEF InnerPCs, UserPCs
    <3>2. Users' = Users /\ Inner' = Inner
      BY <2>9, <3>1, SessionMove DEF Users, Inner
    <3>3. QED
      BY <2>9, <3>2, CountInvFrame
  <2>10. CASE TakeCfgLock(t) \/ TransLock(t) \/ Lock(t) \/ TransUnlock(t)
    BY <2>9, <2>10 DEF TakeCfgLock, TransLock, Lock, TransUnlock, UserPCs, InnerPCs
  <2>11. CASE Unlock(t)
    BY <2>9, <2>11 DEF Unlock, UserPCs, InnerPCs
  <2>12. CASE UninitLast(t)
    BY <2>9, <2>12 DEF UninitLast, UserPCs, InnerPCs
  <2>13. CASE StartTransfer(t)
    BY <2>9, <2>13 DEF StartTransfer, UserPCs, InnerPCs
  <2>14. CASE WaitForCompletion(t)
    BY <2>9, <2>14 DEF WaitForCompletion, UserPCs, InnerPCs
  <2>15. CASE SendBegin(t)
    BY <2>9, <2>15 DEF SendBegin, UserPCs, InnerPCs
  <2>16. CASE SendEnd(t)
    BY <2>9, <2>16 DEF SendEnd, UserPCs, InnerPCs
  <2>17. CASE \/ NoMemory(t) \/ Refuse(t)
              \/ ReturnData(t) \/ ReturnHlRead(t) \/ ReturnRDSR1(t) \/ ReturnCmd(t)
    BY <2>9, <2>17
       DEF NoMemory, Refuse, ReturnData, ReturnHlRead, ReturnRDSR1, ReturnCmd, UserPCs, InnerPCs
  <2>18. QED
    BY <1>3, <2>1, <2>2, <2>3, <2>4, <2>5, <2>7, <2>8, <2>10, <2>11, <2>12, <2>13,
       <2>14, <2>15, <2>16, <2>17 DEF Thread
<1>4. CASE UNCHANGED vars
  BY <1>4, CountInvFrame DEF vars, Users, Inner
<1>5. QED
  BY <1>1, <1>2, <1>3, <1>4 DEF Next

LEMMA CountInvAlways == Spec => [](EncryptInv /\ CountInv)
<1>1. Init => EncryptInv
  BY DEF Init, EncryptInv
<1>2. Init => CountInv
  <2>1. Init => Users = {} /\ Inner = {} /\ count = 0
    BY DEF Init, Users, Inner, UserPCs, InnerPCs
  <2>2. Init => count = Sessions
    BY <2>1, FS_EmptySet DEF Sessions
  <2>3. Init => Sessions \in Nat
    BY <2>1, FS_EmptySet DEF Sessions
  <2>4. QED
    BY <2>2, <2>3 DEF CountInv
<1>3. TypeOK /\ EncryptInv /\ CountInv /\ [Next]_vars => (EncryptInv /\ CountInv)'
  BY EncryptInvStep, CountInvStep DEF TypeOK
<1>4. QED
  BY <1>1, <1>2, <1>3, TypeCorrect, PTL DEF Spec

---------------------------------------------------------------------------
(* The power of the peripheral.                                            *)

Busy == {t \in Threads : pc[t] = "busy"}

PowerInv ==
  /\ Busy # {} => LowPower /\ count = 0
  /\ initialized => periph = "on"
  /\ ~up => AllIdle
  /\ ~LowPower /\ up => periph = "on"
  /\ ReadyWhenUsed
  /\ InitCanSucceed
  /\ LowPower /\ up /\ ~leaked /\ Users = {} /\ Busy = {} => ~initialized /\ periph = "off"

(* A count of 0 means that nobody is in a session.                         *)
LEMMA NoUsers ==
  ASSUME BusTypes, CountInv, LowPower, count = 0
  PROVE  Users = {} /\ \A t \in Threads : ~Ready(t)
<1>1. Cardinality(Users) = 0
  BY SessionSets DEF CountInv, Sessions, BusTypes
<1>2. Users = {}
  BY <1>1, SessionSets, FS_EmptySet
<1>3. QED
  BY <1>2 DEF Users, UserPCs, Ready

LEMMA NoUsersPrime ==
  ASSUME BusTypes', CountInv', LowPower, count' = 0
  PROVE  Users' = {} /\ \A t \in Threads : ~Ready(t)'
<1>1. Cardinality(Users') = 0
  BY SessionSetsPrime DEF CountInv, Sessions, BusTypes
<1>2. Users' = {}
  BY <1>1, SessionSetsPrime, FS_EmptySet
<1>3. QED
  BY <1>2 DEF Users, UserPCs, Ready

(* If nobody is in a session and nothing has leaked, the count is 0.       *)
LEMMA NoSessions ==
  ASSUME CountInv, LowPower, ~leaked, Users = {}
  PROVE  count = 0
<1>1. Inner = {}
  BY DEF Inner, Users, UserPCs, InnerPCs
<1>2. QED
  BY <1>1, FS_EmptySet DEF CountInv, Sessions

(* A step of a thread that leaves the power state alone and takes the      *)
(* thread no further into a session, nor out of one.                       *)
LEMMA PowerFrame ==
  ASSUME ThreadTypes, PowerInv, NEW t \in Threads, NEW l, pc' = [pc EXCEPT ![t] = l],
         pc[t] # "idle", pc[t] # "busy", l # "busy", op' = op,
         UNCHANGED <<count, initialized, periph, leaked, up>>,
         Ready(t)' => Ready(t),
         pc[t] \in UserPCs => l \in UserPCs
  PROVE  PowerInv'
<1>1. up
  BY DEF PowerInv, AllIdle, At
<1>2. \A u \in Threads \ {t} : Ready(u)' <=> Ready(u)
  BY DEF Ready, ThreadTypes
<1>3. ReadyWhenUsed'
  BY <1>2 DEF ReadyWhenUsed, PowerInv
<1>4. InitCanSucceed'
  BY DEF InitCanSucceed, PowerInv
<1>5. Busy' = Busy
  BY DEF Busy, ThreadTypes
<1>6. Users' = {} => Users = {}
  BY DEF Users, ThreadTypes
<1>7. QED
  BY <1>1, <1>3, <1>4, <1>5, <1>6 DEF PowerInv

(* The same for a step that returns without qspi_device_uninit.            *)
LEMMA PowerLeak ==
  ASSUME ThreadTypes, PowerInv, NEW t \in Threads, pc' = [pc EXCEPT ![t] = "ret"],
         pc[t] # "idle", pc[t] # "busy", op' = op, leaked' = TRUE,
         UNCHANGED <<count, initialized, periph, up>>
  PROVE  PowerInv'
<1>1. up
  BY DEF PowerInv, AllIdle, At
<1>2. \A u \in Threads : Ready(u)' => Ready(u)
  BY DEF Ready, ThreadTypes
<1>3. ReadyWhenUsed'
  BY <1>2 DEF ReadyWhenUsed, PowerInv
<1>4. InitCanSucceed'
  BY DEF InitCanSucceed, PowerInv
<1>5. Busy' = Busy
  BY DEF Busy, ThreadTypes
<1>6. QED
  BY <1>1, <1>3, <1>4, <1>5 DEF PowerInv

(* qspi_device_init, called by a thread outside Ready at pc[t].            *)
LEMMA PowerInit ==
  ASSUME ThreadTypes, BusTypes, PowerInv, SemInv, NEW t \in Threads, op' = op, up' = up,
         pc[t] # "idle", pc[t] # "busy", NEW l, l # "busy", l # "idle",
         pc' = [pc EXCEPT ![t] = l], LowPower, sem = 1, count' = count + 1,
         \/ initialized /\ UNCHANGED <<initialized, periph, leaked>>
         \/ ~initialized /\ initialized' = TRUE /\ periph' = "on" /\ leaked' = leaked
         \/ /\ ~initialized /\ UNCHANGED <<initialized, periph>>
            /\ Ready(t)' => Ready(t)
            /\ l \in UserPCs \/ leaked' = TRUE
            /\ leaked => leaked' = TRUE,
         l \in UserPCs \/ leaked' = TRUE
  PROVE  PowerInv'
<1>1. up
  BY DEF PowerInv, AllIdle, At
<1>2. \A u \in Threads \ {t} : Ready(u)' => Ready(u)
  BY DEF Ready, ThreadTypes
<1>3. ReadyWhenUsed'
  BY <1>2 DEF ReadyWhenUsed, PowerInv
<1>4. InitCanSucceed'
  BY <1>1 DEF InitCanSucceed, PowerInv
<1>5. Busy = {}
  BY DEF Busy, SemInv, HoldsSem
<1>6. Busy' = {}
  BY <1>5 DEF Busy, ThreadTypes
<1>7. Users' # {} \/ leaked' = TRUE
  BY DEF Users, ThreadTypes
<1>8. QED
  BY <1>1, <1>3, <1>4, <1>6, <1>7 DEF PowerInv

LEMMA PowerStepQspiInit ==
  ASSUME ThreadTypes, BusTypes, CountInv, PowerInv, QspiInit PROVE PowerInv'
<1>1. AllIdle /\ pc' = pc /\ op' = op /\ leaked' = leaked
  BY DEF QspiInit, NrfxConfigure
<1>2. Users = {} /\ Busy' = {} /\ \A t \in Threads : ~Ready(t)'
  BY <1>1 DEF AllIdle, At, Users, Busy, UserPCs, Ready
<1>3. AllIdle' /\ ReadyWhenUsed'
  BY <1>1, <1>2 DEF AllIdle, At, ReadyWhenUsed
<1>4. ASSUME periph' = "on", ~up', UNCHANGED <<count, initialized>>
      PROVE  PowerInv'
  BY <1>2, <1>3, <1>4 DEF PowerInv, InitCanSucceed
<1>5. ASSUME ~LowPower, periph' = "on", up', UNCHANGED <<count, initialized>>
      PROVE  PowerInv'
  BY <1>2, <1>3, <1>5 DEF PowerInv, InitCanSucceed
<1>6. ASSUME LowPower, up', count' = IF count > 0 THEN count - 1 ELSE 0,
             IF count' = 0
               THEN periph' = "off" /\ initialized' = FALSE
               ELSE periph' = "on" /\ UNCHANGED initialized
      PROVE  PowerInv'
  <2>1. ~leaked => count = 0
    BY <1>2, <1>6, NoSessions
  <2>2. ~leaked => count' = 0
    BY <1>6, <2>1
  <2>3. CASE count' = 0
    BY <1>2, <1>3, <1>6, <2>3 DEF PowerInv, InitCanSucceed
  <2>4. CASE count' # 0
    BY <1>1, <1>2, <1>3, <1>6, <2>2, <2>4 DEF PowerInv, InitCanSucceed
  <2>5. QED
    BY <2>3, <2>4
<1>7. ASSUME periph = "off", ~up', UNCHANGED <<count, initialized, periph>>
      PROVE  PowerInv'
  BY <1>2, <1>3, <1>7 DEF PowerInv, InitCanSucceed
<1>8. QED
  BY <1>4, <1>5, <1>6, <1>7, Zenon DEF QspiInit, NrfxConfigure

LEMMA PowerStepDeviceInit ==
  ASSUME ThreadTypes, BusTypes, SemInv, PowerInv, NEW t \in Threads,
         OpInit(t) \/ EncInit(t)
  PROVE  PowerInv'
<1>1. CASE OpInit(t)
  <2>1. pc[t] = "init" /\ op' = op /\ up' = up
    BY <1>1 DEF OpInit, DeviceInit, At, config
  <2>2. /\ AfterInit(op[t]) \in UserPCs
        /\ AfterInitError(op[t]) \notin {"busy", "idle"}
        /\ AfterInitError(op[t]) \in UserPCs \/ AfterInitError(op[t]) = "ret"
    BY DEF AfterInit, AfterInitError, UserPCs
  <2>3. AfterInit(op[t]) \notin {"busy", "idle"}
    BY DEF AfterInit
  <2>4. ASSUME ~LowPower, pc' = [pc EXCEPT ![t] = AfterInit(op[t])], UNCHANGED power
        PROVE  PowerInv'
    <3>1. UNCHANGED <<count, initialized, periph, leaked, up>>
      BY <2>1, <2>4 DEF power
    <3>2. Busy = {} /\ Busy' = {} /\ up
      BY <2>1, <2>3, <2>4 DEF Busy, PowerInv, AllIdle, At, ThreadTypes
    <3>3. ReadyWhenUsed'
      BY <2>4, <3>1, <3>2 DEF ReadyWhenUsed, PowerInv
    <3>4. QED
      BY <2>4, <3>1, <3>2, <3>3 DEF PowerInv, InitCanSucceed
  <2>5. ASSUME LowPower, sem = 1, count' = count + 1,
               pc' = [pc EXCEPT ![t] = AfterInit(op[t])],
               \/ initialized /\ UNCHANGED <<initialized, periph, leaked>>
               \/ ~initialized /\ initialized' = TRUE /\ periph' = "on" /\ leaked' = leaked
        PROVE  PowerInv'
    BY <2>1, <2>2, <2>3, <2>5, PowerInit
  <2>6. ASSUME LowPower, sem = 1, count' = count + 1, ~initialized,
               pc' = [pc EXCEPT ![t] = AfterInitError(op[t])],
               leaked' = (leaked \/ AfterInitError(op[t]) = "ret"),
               UNCHANGED <<initialized, periph>>
        PROVE  PowerInv'
    <3>1. ~Ready(t)'
      BY <2>1, <2>6 DEF Ready, AfterInitError, ThreadTypes, RdsrOps, LeakyOps, RegOps
    <3>2. /\ AfterInitError(op[t]) \in UserPCs \/ leaked' = TRUE
          /\ leaked => leaked' = TRUE
      BY <2>2, <2>6
    <3>3. QED
      BY <2>1, <2>2, <2>6, <3>1, <3>2, PowerInit
  <2>7. CASE ~LowPower
    BY <1>1, <2>4, <2>7 DEF OpInit, DeviceInit, Goto
  <2>8. CASE LowPower /\ (initialized \/ initialized' = TRUE)
    BY <1>1, <2>5, <2>8 DEF OpInit, DeviceInit, Goto
  <2>9. CASE LowPower /\ ~(initialized \/ initialized' = TRUE)
    <3>1. /\ pc' = [pc EXCEPT ![t] = AfterInitError(op[t])]
          /\ leaked' = (leaked \/ AfterInitError(op[t]) = "ret")
          /\ ~initialized /\ sem = 1 /\ count' = count + 1
          /\ <<initialized, periph>>' = <<initialized, periph>>
      BY <1>1, <2>9, Zenon DEF OpInit, DeviceInit, Goto
    <3>2. QED
      BY <2>6, <2>9, <3>1
  <2>10. QED
    BY <2>7, <2>8, <2>9
<1>2. CASE EncInit(t)
  <2>1. pc[t] = "enc_init" /\ op' = op /\ up' = up
    BY <1>2 DEF EncInit, DeviceInit, At, config
  <2>2. Ready(t)
    BY <2>1 DEF Ready
  <2>3. "send" \in UserPCs /\ "enc_uninit" \in UserPCs
    BY DEF UserPCs
  <2>4. CASE ~LowPower
    <3>1. pc' = [pc EXCEPT ![t] = "send"] /\ UNCHANGED <<count, initialized, periph, leaked>>
      BY <1>2, <2>4 DEF EncInit, DeviceInit, power, Goto
    <3>2. QED
      BY <2>1, <2>2, <2>3, <3>1, PowerFrame
  <2>5. CASE LowPower
    <3>1. initialized
      BY <2>2, <2>5 DEF PowerInv, ReadyWhenUsed
    <3>2. /\ sem = 1 /\ count' = count + 1
          /\ pc' = [pc EXCEPT ![t] = "send"]
          /\ UNCHANGED <<initialized, periph, leaked>>
      BY <1>2, <2>5, <3>1 DEF EncInit, DeviceInit, Goto
    <3>3. QED
      BY <2>1, <2>3, <2>5, <3>1, <3>2, PowerInit
  <2>6. QED
    BY <2>4, <2>5
<1>3. QED
  BY <1>1, <1>2

LEMMA PowerStepUninit ==
  ASSUME ThreadTypes, BusTypes, BusTypes', SemInv, CountInv', PowerInv, NEW t \in Threads,
         OpUninit(t) \/ EncUninit(t)
  PROVE  PowerInv'
<1> DEFINE here == pc[t]
<1>1. /\ here \in {"uninit", "enc_uninit"} /\ op' = op
      /\ UNCHANGED <<initialized, periph, leaked, up>>
      /\ up
  BY DEF OpUninit, EncUninit, DeviceUninit, config, PowerInv, AllIdle, At
<1>2. \A u \in Threads \ {t} : pc'[u] = pc[u]
  BY DEF OpUninit, EncUninit, DeviceUninit, At, Goto, ThreadTypes
<1>3. pc'[t] \in {"busy", "ret", "enc_end"}
  BY DEF OpUninit, EncUninit, DeviceUninit, At, Goto, ThreadTypes
<1>4. pc'[t] = "enc_end" => pc[t] = "enc_uninit"
  BY DEF OpUninit, EncUninit, DeviceUninit, At, Goto, ThreadTypes
<1>5. \A u \in Threads : Ready(u)' => Ready(u)
  BY <1>1, <1>2, <1>3, <1>4 DEF Ready, ThreadTypes
<1>6. ReadyWhenUsed'
  BY <1>1, <1>5 DEF ReadyWhenUsed, PowerInv
<1>7. InitCanSucceed'
  BY <1>1 DEF InitCanSucceed, PowerInv
<1>8. ~AllIdle' => up'
  BY <1>1
<1>9. CASE ~LowPower
  <2>1. pc'[t] # "busy"
    BY <1>9 DEF OpUninit, EncUninit, DeviceUninit, At, Goto, ThreadTypes
  <2>2. Busy' = {}
    BY <1>2, <1>9, <2>1 DEF Busy, PowerInv
  <2>3. QED
    BY <1>1, <1>6, <1>7, <1>9, <2>2 DEF PowerInv
<1>10. CASE LowPower
  <2>1. Busy = {}
    BY <1>10 DEF Busy, SemInv, HoldsSem, OpUninit, EncUninit, DeviceUninit
  <2>2. pc'[t] = "busy" <=> count' = 0
    BY <1>10 DEF OpUninit, EncUninit, DeviceUninit, At, Goto, ThreadTypes
  <2>3. Busy' # {} <=> count' = 0
    BY <1>2, <2>1, <2>2 DEF Busy
  <2>4. ~leaked' /\ Users' = {} => count' = 0
    <3>1. ASSUME Users' = {} PROVE Inner' = {}
      BY <3>1 DEF Inner, Users, UserPCs, InnerPCs
    <3>2. QED
      BY <1>10, <3>1, FS_EmptySet DEF CountInv, Sessions
  <2>5. QED
    BY <1>1, <1>6, <1>7, <1>10, <2>3, <2>4 DEF PowerInv
<1>11. QED
  BY <1>9, <1>10

LEMMA PowerStepUninitLast ==
  ASSUME ThreadTypes, BusTypes, SemInv, CountInv, PowerInv, NEW t \in Threads, UninitLast(t)
  PROVE  PowerInv'
<1>1. /\ pc[t] = "busy" /\ pc' = [pc EXCEPT ![t] = "ret"] /\ op' = op
      /\ periph' = "off" /\ initialized' = FALSE /\ UNCHANGED <<count, leaked, up>>
  BY DEF UninitLast, At, Goto, config
<1>2. LowPower /\ count = 0 /\ up
  BY <1>1 DEF PowerInv, Busy, AllIdle, At
<1>3. \A u \in Threads : ~Ready(u)
  BY <1>2, NoUsers
<1>4. \A u \in Threads : ~Ready(u)'
  BY <1>1, <1>3 DEF Ready, ThreadTypes
<1>5. QED
  BY <1>1, <1>2, <1>4 DEF PowerInv, ReadyWhenUsed, InitCanSucceed

LEMMA PowerInvStep ==
  ASSUME ThreadTypes, BusTypes, BusTypes', SemInv, EncryptInv, CountInv, CountInv',
         PowerInv, [Next]_vars
  PROVE  PowerInv'
<1>1. CASE QspiInit
  BY <1>1, PowerStepQspiInit
<1>2. CASE TransferDone
  BY <1>2 DEF TransferDone, PowerInv, Busy, AllIdle, At, ReadyWhenUsed, Ready,
              InitCanSucceed, Users, power, config
<1>3. ASSUME NEW t \in Threads, Thread(t) PROVE PowerInv'
  <2>1. CASE Start(t)
    <3>1. /\ up /\ pc[t] = "idle"
          /\ UNCHANGED <<count, initialized, periph, leaked, up>>
          /\ \A u \in Threads \ {t} : pc'[u] = pc[u] /\ op'[u] = op[u]
          /\ pc'[t] \in {"cfg", "init"}
      BY <2>1 DEF Start, At, Goto, power, config, ThreadTypes
    <3>2. \A u \in Threads : Ready(u)' => Ready(u)
      BY <3>1 DEF Ready
    <3>3. ReadyWhenUsed' /\ InitCanSucceed'
      BY <3>1, <3>2 DEF ReadyWhenUsed, InitCanSucceed, PowerInv
    <3>4. Busy' = Busy /\ Users' = Users
      BY <3>1 DEF Busy, Users, UserPCs
    <3>5. QED
      BY <3>1, <3>3, <3>4 DEF PowerInv
  <2>2. CASE OpInit(t) \/ EncInit(t)
    BY <2>2, PowerStepDeviceInit
  <2>3. CASE OpUninit(t) \/ EncUninit(t)
    BY <2>3, PowerStepUninit
  <2>4. CASE UninitLast(t)
    BY <2>4, PowerStepUninitLast
  <2>5. ASSUME NEW l, pc' = [pc EXCEPT ![t] = l], op' = op,
               UNCHANGED <<count, initialized, periph, leaked, up>>,
               \/ pc[t] \in {"cfg", "init", "ret"} /\ l \in {"init", "cfg", "idle", "ret"}
               \/ <<pc[t], l>> \in {<<"trans", "lock">>, <<"lock", "xfer">>, <<"xfer", "wait">>,
                                    <<"xfer", "unlock">>, <<"wait", "unlock">>, <<"wait", "xfer">>,
                                    <<"unlock", "trans_unlock">>, <<"unlock", "uninit">>,
                                    <<"trans_unlock", "uninit">>, <<"send", "sending">>,
                                    <<"sending", "uninit">>, <<"dma", "enc_init">>,
                                    <<"enc_end", "uninit">>}
               \/ pc[t] = "sending" /\ l = "enc_uninit" /\ op[t] = "encrypt"
        PROVE  PowerInv'
    <3>1. pc[t] # "idle" /\ pc[t] # "busy" /\ l # "busy"
      BY <2>5
    <3>2. pc[t] \in UserPCs => l \in UserPCs
      BY <2>5 DEF UserPCs
    <3>3. Ready(t)' => Ready(t)
      BY <2>5 DEF Ready, ThreadTypes, RdsrOps
    <3>4. QED
      BY <2>5, <3>1, <3>2, <3>3, PowerFrame
  <2>6. CASE TakeCfgLock(t) \/ TransLock(t) \/ Lock(t) \/ TransUnlock(t)
    BY <2>5, <2>6 DEF TakeCfgLock, TransLock, Lock, TransUnlock, At, Goto, power, config
  <2>7. CASE Unlock(t)
    BY <2>5, <2>7 DEF Unlock, At, Goto, power, config
  <2>8. CASE StartTransfer(t)
    BY <2>5, <2>8 DEF StartTransfer, At, Goto, power, config
  <2>9. CASE WaitForCompletion(t)
    BY <2>5, <2>9 DEF WaitForCompletion, At, Goto, power, config
  <2>10. CASE SendBegin(t)
    BY <2>5, <2>10 DEF SendBegin, At, Goto, power, config
  <2>11. CASE SendEnd(t)
    BY <2>5, <2>11 DEF SendEnd, At, Goto, power, config
  <2>12. CASE DmaEncrypt(t)
    <3>1. pc[t] = "dma" /\ op' = op /\ UNCHANGED <<count, initialized, periph, up>>
      BY <2>12 DEF DmaEncrypt, At, config
    <3>2. \/ pc' = [pc EXCEPT ![t] = "enc_init"] /\ leaked' = leaked
          \/ pc' = [pc EXCEPT ![t] = "ret"] /\ leaked' = TRUE
      BY <2>12, Zenon DEF DmaEncrypt, Goto
    <3>3. QED
      BY <2>5, <3>1, <3>2, PowerLeak
  <2>13. CASE EncryptEnd(t)
    <3>1. pc[t] = "enc_end" /\ op' = op /\ UNCHANGED <<count, initialized, periph, up>>
      BY <2>13 DEF EncryptEnd, At
    <3>2. \/ pc' = [pc EXCEPT ![t] = "uninit"] /\ leaked' = leaked
          \/ pc' = [pc EXCEPT ![t] = "ret"] /\ leaked' = TRUE
      BY <2>13, Zenon DEF EncryptEnd, Goto
    <3>3. QED
      BY <2>5, <3>1, <3>2, PowerLeak
  <2>14. CASE ReturnData(t) \/ ReturnCmd(t)
    BY <2>5, <2>14 DEF ReturnData, ReturnCmd, At, Goto, power, config
  <2>15. CASE ReturnHlRead(t)
    BY <2>5, <2>15 DEF ReturnHlRead, At, Goto, power, config
  <2>16. CASE ReturnRDSR1(t)
    BY <2>5, <2>16 DEF ReturnRDSR1, At, Goto, power, config
  <2>17. CASE NoMemory(t) \/ Refuse(t)
    BY <2>5, <2>17 DEF NoMemory, Refuse, At, Goto, power, config
  <2>18. QED
    BY <1>3, <2>1, <2>2, <2>3, <2>4, <2>6, <2>7, <2>8, <2>9, <2>10, <2>11, <2>12,
       <2>13, <2>14, <2>15, <2>16, <2>17 DEF Thread
<1>4. CASE UNCHANGED vars
  BY <1>4 DEF vars, PowerInv, Busy, AllIdle, At, ReadyWhenUsed, Ready, InitCanSucceed, Users
<1>5. QED
  BY <1>1, <1>2, <1>3, <1>4 DEF Next

LEMMA PowerInvAlways == Spec => []PowerInv
<1>1. Init => PowerInv
  BY DEF Init, PowerInv, Busy, AllIdle, At, ReadyWhenUsed, Ready, InitCanSucceed
<1>2. /\ TypeOK /\ TypeOK' /\ SemInv /\ EncryptInv /\ CountInv /\ CountInv'
      /\ PowerInv /\ [Next]_vars
      => PowerInv'
  BY PowerInvStep DEF TypeOK
<1>3. QED
  BY <1>1, <1>2, TypeCorrect, SemInvAlways, CountInvAlways, PTL DEF Spec

(* No session in progress loses the peripheral, even after sessions have   *)
(* leaked and across calls of qspi_init.                                   *)
THEOREM SessionsArePowered == Spec => []ReadyWhenUsed
<1>1. PowerInv => ReadyWhenUsed
  BY DEF PowerInv
<1>2. QED
  BY <1>1, PowerInvAlways, PTL

(* Without a leak the bus never gets into the state where no later         *)
(* qspi_device_init can succeed.                                           *)
THEOREM NeverStuckOn == Spec => []InitCanSucceed
<1>1. PowerInv => InitCanSucceed
  BY DEF PowerInv
<1>2. QED
  BY <1>1, PowerInvAlways, PTL

(* Without a leak the peripheral is off whenever every operation has       *)
(* returned.                                                               *)
THEOREM OffAtRest == Spec => []OffWhenIdle
<1>1. EncryptInv /\ CountInv /\ PowerInv => OffWhenIdle
  <2> SUFFICES ASSUME CountInv, PowerInv, ~leaked, LowPower, up, AllIdle PROVE Off
    BY DEF OffWhenIdle, UninitAtLastCall
  <2>1. Users = {} /\ Busy = {}
    BY DEF AllIdle, At, Users, UserPCs, Busy
  <2>2. count = 0
    BY <2>1, NoSessions
  <2>3. QED
    BY <2>1, <2>2 DEF PowerInv, Off
<1>2. QED
  BY <1>1, CountInvAlways, PowerInvAlways, PTL

---------------------------------------------------------------------------
(* The status of an operation.  Until its command is sent no step of it    *)
(* has failed, so that the command's status, which overwrites the earlier  *)
(* one, hides nothing.                                                     *)

Tells(t) == op[t] \notin RdsrOps \cup {"hl_read"}
BeforeCommand == {"cfg", "init", "dma", "enc_init", "send", "sending"}

StatusInv ==
  \A t \in Threads : Tells(t) =>
    /\ failed[t] = TRUE => rc[t] = "fail"
    /\ pc[t] \in BeforeCommand => failed[t] = FALSE

(* A step of t that keeps its status or makes it a failure.                *)
LEMMA StatusFrame ==
  ASSUME ThreadTypes, StatusInv, NEW t \in Threads, NEW l, pc' = [pc EXCEPT ![t] = l],
         op' = op,
         \/ /\ UNCHANGED <<rc, failed>>
            /\ l \in BeforeCommand => ~Tells(t) \/ pc[t] \in BeforeCommand
         \/ /\ rc' = [rc EXCEPT ![t] = "fail"]
            /\ failed' = [failed EXCEPT ![t] = TRUE]
            /\ l \notin BeforeCommand \/ ~Tells(t)
         \/ /\ ~Tells(t)
            /\ \A u \in Threads \ {t} : rc'[u] = rc[u] /\ failed'[u] = failed[u]
  PROVE  StatusInv'
<1>1. \A u \in Threads : u # t => /\ pc'[u] = pc[u] /\ op'[u] = op[u]
                                  /\ rc'[u] = rc[u] /\ failed'[u] = failed[u]
  BY DEF ThreadTypes
<1>2. \A u \in Threads : Tells(u)' <=> Tells(u)
  BY DEF Tells
<1>3. Tells(t) => /\ failed'[t] = TRUE => rc'[t] = "fail"
                  /\ pc'[t] \in BeforeCommand => failed'[t] = FALSE
  BY DEF ThreadTypes, StatusInv
<1>4. QED
  BY <1>1, <1>2, <1>3 DEF StatusInv, Tells

LEMMA StatusInvStep ==
  ASSUME ThreadTypes, StatusInv, [Next]_vars PROVE StatusInv'
<1>1. CASE QspiInit
  BY <1>1 DEF QspiInit, NrfxConfigure, StatusInv, Tells
<1>2. CASE TransferDone
  BY <1>2 DEF TransferDone, StatusInv, Tells
<1>3. ASSUME NEW t \in Threads, Thread(t) PROVE StatusInv'
  <2>1. CASE Start(t)
    <3>1. /\ failed'[t] = FALSE
          /\ \A u \in Threads : u # t => /\ pc'[u] = pc[u] /\ op'[u] = op[u]
                                         /\ rc'[u] = rc[u] /\ failed'[u] = failed[u]
      BY <2>1 DEF Start, Goto, ThreadTypes
    <3>2. QED
      BY <3>1 DEF StatusInv, Tells
  <2>2. CASE TakeCfgLock(t)
    BY <2>2, StatusFrame DEF TakeCfgLock, At, Goto, BeforeCommand
  <2>3. CASE OpInit(t)
    <3>1. pc[t] = "init" /\ op' = op
      BY <2>3 DEF OpInit, DeviceInit, At
    <3>2. \/ pc' = [pc EXCEPT ![t] = AfterInit(op[t])] /\ rc' = rc /\ failed' = failed
          \/ /\ pc' = [pc EXCEPT ![t] = AfterInitError(op[t])]
             /\ rc' = [rc EXCEPT ![t] = "fail"] /\ failed' = [failed EXCEPT ![t] = TRUE]
      BY <2>3 DEF OpInit, DeviceInit, Goto, Ok, Fail
    <3>3. AfterInitError(op[t]) \notin BeforeCommand \/ ~Tells(t)
      BY DEF AfterInitError, BeforeCommand, Tells
    <3>4. pc[t] \in BeforeCommand
      BY <3>1 DEF BeforeCommand
    <3>5. QED
      BY <3>1, <3>2, <3>3, <3>4, StatusFrame
  <2>4. CASE EncInit(t)
    <3>1. pc[t] = "enc_init" /\ op' = op
      BY <2>4 DEF EncInit, DeviceInit, At
    <3>2. \/ pc' = [pc EXCEPT ![t] = "send"] /\ rc' = rc /\ failed' = failed
          \/ /\ pc' = [pc EXCEPT ![t] = "enc_uninit"]
             /\ rc' = [rc EXCEPT ![t] = "fail"] /\ failed' = [failed EXCEPT ![t] = TRUE]
      BY <2>4 DEF EncInit, DeviceInit, Goto, Ok, Fail
    <3>3. pc[t] \in BeforeCommand /\ "enc_uninit" \notin BeforeCommand
      BY <3>1 DEF BeforeCommand
    <3>4. QED
      BY <3>1, <3>2, <3>3, StatusFrame
  <2>5. ASSUME NEW l, l \notin BeforeCommand, pc' = [pc EXCEPT ![t] = l], op' = op,
               UNCHANGED <<rc, failed>>
        PROVE  StatusInv'
    BY <2>5, StatusFrame
  <2>6. CASE OpUninit(t) \/ EncUninit(t)
    BY <2>5, <2>6 DEF OpUninit, EncUninit, DeviceUninit, Goto, BeforeCommand
  <2>7. CASE UninitLast(t) \/ TransLock(t) \/ Lock(t) \/ TransUnlock(t)
    BY <2>5, <2>7 DEF UninitLast, TransLock, Lock, TransUnlock, Goto, BeforeCommand
  <2>8. CASE StartTransfer(t)
    BY <2>8, StatusFrame DEF StartTransfer, Goto, Ok, Fail, BeforeCommand
  <2>9. CASE WaitForCompletion(t)
    <3>1. PICK l \in {"unlock", "xfer"} : pc' = [pc EXCEPT ![t] = l]
      BY <2>9 DEF WaitForCompletion, Goto
    <3>2. l \notin BeforeCommand
      BY DEF BeforeCommand
    <3>3. QED
      BY <2>5, <2>9, <3>1, <3>2 DEF WaitForCompletion
  <2>10. CASE Unlock(t)
    <3>1. PICK l \in {"trans_unlock", "uninit"} : pc' = [pc EXCEPT ![t] = l]
      BY <2>10 DEF Unlock, Goto
    <3>2. l \notin BeforeCommand
      BY DEF BeforeCommand
    <3>3. QED
      BY <2>5, <2>10, <3>1, <3>2 DEF Unlock
  <2>11. CASE SendBegin(t)
    BY <2>11, StatusFrame DEF SendBegin, At, Goto, BeforeCommand
  <2>12. CASE SendEnd(t)
    <3>1. PICK l \in {"enc_uninit", "uninit"} : pc' = [pc EXCEPT ![t] = l]
      BY <2>12 DEF SendEnd, Goto
    <3>2. pc[t] = "sending" /\ op' = op
      BY <2>12 DEF SendEnd, At
    <3>3. \/ rc' = [rc EXCEPT ![t] = "ok"] /\ failed' = failed
          \/ rc' = [rc EXCEPT ![t] = "fail"] /\ failed' = [failed EXCEPT ![t] = TRUE]
      BY <2>12 DEF SendEnd, Fail
    <3>4. Tells(t) => failed[t] = FALSE
      BY <3>2 DEF StatusInv, BeforeCommand
    <3>5. \A u \in Threads : u # t => /\ pc'[u] = pc[u] /\ op'[u] = op[u]
                                      /\ rc'[u] = rc[u] /\ failed'[u] = failed[u]
      BY <3>1, <3>2, <3>3 DEF ThreadTypes
    <3>6. Tells(t) => /\ failed'[t] = TRUE => rc'[t] = "fail"
                      /\ pc'[t] \notin BeforeCommand
      BY <3>1, <3>3, <3>4 DEF ThreadTypes, BeforeCommand
    <3>7. QED
      BY <3>2, <3>5, <3>6 DEF StatusInv, Tells
  <2>13. CASE DmaEncrypt(t)
    BY <2>13, StatusFrame DEF DmaEncrypt, At, Goto, Ok, Fail, BeforeCommand
  <2>14. CASE EncryptEnd(t)
    BY <2>5, <2>14 DEF EncryptEnd, Goto, BeforeCommand
  <2>15. CASE ReturnData(t) \/ ReturnCmd(t)
    BY <2>5, <2>15 DEF ReturnData, ReturnCmd, Goto, BeforeCommand
  <2>16. CASE ReturnHlRead(t)
    <3>1. ~Tells(t) /\ op' = op /\ failed' = failed /\ rc' = [rc EXCEPT ![t] = "ok"]
      BY <2>16 DEF ReturnHlRead, Tells
    <3>2. PICK l \in {"cfg", "idle"} : pc' = [pc EXCEPT ![t] = l]
      BY <2>16 DEF ReturnHlRead, Goto
    <3>3. \A u \in Threads \ {t} : rc'[u] = rc[u]
      BY <3>1 DEF ThreadTypes
    <3>4. QED
      BY <3>1, <3>2, <3>3, StatusFrame
  <2>17. CASE ReturnRDSR1(t)
    <3>1. ~Tells(t) /\ op' = op /\ failed' = failed
      BY <2>17 DEF ReturnRDSR1, Tells, RdsrOps
    <3>2. PICK l \in {"init", "idle"} : pc' = [pc EXCEPT ![t] = l]
      BY <2>17 DEF ReturnRDSR1, Goto
    <3>3. \A u \in Threads \ {t} : rc'[u] = rc[u]
      BY <2>17 DEF ReturnRDSR1, ThreadTypes
    <3>4. QED
      BY <3>1, <3>2, <3>3, StatusFrame
  <2>18. CASE NoMemory(t)
    <3>1. ~Tells(t) /\ op' = op /\ rc' = rc /\ failed' = [failed EXCEPT ![t] = TRUE]
      BY <2>18 DEF NoMemory, Tells
    <3>2. PICK l \in {"cfg", "idle"} : pc' = [pc EXCEPT ![t] = l]
      BY <2>18 DEF NoMemory, Goto
    <3>3. \A u \in Threads \ {t} : rc'[u] = rc[u] /\ failed'[u] = failed[u]
      BY <3>1 DEF ThreadTypes
    <3>4. QED
      BY <3>1, <3>2, <3>3, StatusFrame
  <2>19. CASE Refuse(t)
    BY <2>19, StatusFrame DEF Refuse, Goto, Ok, Fail, BeforeCommand
  <2>20. QED
    BY <1>3, <2>1, <2>2, <2>3, <2>4, <2>6, <2>7, <2>8, <2>9, <2>10, <2>11, <2>12, <2>13,
       <2>14, <2>15, <2>16, <2>17, <2>18, <2>19 DEF Thread
<1>4. CASE UNCHANGED vars
  BY <1>4 DEF vars, StatusInv, Tells
<1>5. QED
  BY <1>1, <1>2, <1>3, <1>4 DEF Next

(* No operation but the status polls and qspi_hl_read reports success      *)
(* after one of its steps has failed.                                      *)
THEOREM StatusTheorem == Spec => []HonestStatus
<1>1. Init => StatusInv
  BY DEF Init, StatusInv, BeforeCommand
<1>2. TypeOK /\ StatusInv /\ [Next]_vars => StatusInv'
  BY StatusInvStep DEF TypeOK
<1>3. TypeOK /\ StatusInv => HonestStatus
  BY DEF StatusInv, Tells, HonestStatus, TypeOK, ThreadTypes
<1>4. QED
  BY <1>1, <1>2, <1>3, TypeCorrect, PTL DEF Spec

=============================================================================
