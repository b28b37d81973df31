------------------------------ MODULE QspiBus ------------------------------
(***************************************************************************)
(* The QSPI bus driver, nrf70_zephyr_shim/source/bus/qspi_if.c: threads    *)
(* (the shell, the interrupt work queue, the bottom-half work queue) call  *)
(* its public operations concurrently.  Every operation is bracketed by    *)
(* qspi_device_init / qspi_device_uninit, which keep a count of the        *)
(* sessions in progress and switch the nrfx driver on for the first and    *)
(* off after the last one; inside a session the semaphore sem serialises   *)
(* the use of the peripheral.  Block transfers run by DMA and end with an  *)
(* interrupt that gives the semaphore sync.                                *)
(***************************************************************************)
EXTENDS Integers, FiniteSets

CONSTANTS
  Threads,    \* the threads that call the driver
  Ops,        \* the operations they call, a subset of AllOps
  Faults,     \* the calls of the nrfx driver, and of k_malloc ("mem"), that may
              \* fail, a subset of AllFaults
  LowPower,   \* CONFIG_NRF70_QSPI_LOW_POWER
  Tries,      \* the attempts of qspi_wait_while_rpu_awake (10 in the code)
  MaxCount,   \* bound: no operation starts once count has leaked up to here
  None        \* no thread

DataOps   == {"read", "write", "hl_read"}
RegOps    == {"read_reg", "write_reg"}
RdsrOps   == {"RDSR1", "RDSR2"}
AllOps    == DataOps \cup RegOps \cup RdsrOps \cup {"wakeup", "sleep", "encrypt"}
AllFaults == {"init", "xfer", "cmd", "dma_encrypt", "mem"}

(* The operations that return without qspi_device_uninit when              *)
(* qspi_device_init, or a later step, fails.                               *)
LeakyOps == RegOps \cup {"encrypt"}

ASSUME BusAssumption ==
  /\ Ops \subseteq AllOps
  /\ Faults \subseteq AllFaults
  /\ LowPower \in BOOLEAN
  /\ Tries \in Nat \ {0}
  /\ MaxCount \in Nat
  /\ None \notin Threads
  /\ IsFiniteSet(Threads)

VARIABLES
  pc, op,       \* where each thread is, and in which operation
  left,         \* transfers (data) or attempts (RDSR1) the operation still has
  rc,           \* the status the operation has so far, or returned
  failed,       \* history: some step of the operation has failed
  lock,         \* qspi_cfg->lock, taken by the data operations
  trans, sem,   \* qspi_nor_data.trans and .sem
  sync,         \* qspi_nor_data.sync: a transfer has completed
  count,        \* qspi_nor_data.count: sessions in progress
  initialized,  \* qspi_initialized
  periph,       \* the nrfx driver: "on" from nrfx_qspi_init to nrfx_qspi_uninit
  dma,          \* the thread whose block transfer the peripheral is running
  encryption,   \* qspi_cfg->encryption
  up,           \* qspi_init has succeeded
  leaked        \* history: an operation has returned without its qspi_device_uninit

vars == <<pc, op, left, rc, failed, lock, trans, sem, sync, count, initialized,
          periph, dma, encryption, up, leaked>>

sems   == <<lock, trans, sem, sync>>
power  == <<count, initialized, periph, leaked>>
config == <<encryption, up>>

PCs == {"idle", "cfg", "init", "trans", "lock", "xfer", "wait", "unlock",
        "trans_unlock", "send", "sending", "uninit", "busy", "ret",
        "dma", "enc_init", "enc_uninit", "enc_end"}

ThreadTypes ==
  /\ pc \in [Threads -> PCs]
  /\ op \in [Threads -> Ops \cup {"none"}]
  /\ left \in [Threads -> Int]
  /\ rc \in [Threads -> {"ok", "fail"}]
  /\ failed \in [Threads -> BOOLEAN]

BusTypes ==
  /\ lock \in {0, 1} /\ trans \in {0, 1} /\ sem \in {0, 1} /\ sync \in {0, 1}
  /\ count \in Nat
  /\ periph \in {"on", "off"}
  /\ dma \in Threads \cup {None}

FlagTypes ==
  /\ initialized \in BOOLEAN /\ encryption \in BOOLEAN
  /\ up \in BOOLEAN /\ leaked \in BOOLEAN

TypeOK == ThreadTypes /\ BusTypes /\ FlagTypes

Init ==
  /\ pc = [t \in Threads |-> "idle"]
  /\ op = [t \in Threads |-> "none"]
  /\ left = [t \in Threads |-> 0]
  /\ rc = [t \in Threads |-> "ok"]
  /\ failed = [t \in Threads |-> FALSE]
  /\ lock = 0 /\ trans = 1 /\ sem = 1 /\ sync = 0
  /\ count = 0 /\ initialized = FALSE /\ periph = "off" /\ dma = None
  /\ encryption = FALSE /\ up = FALSE /\ leaked = FALSE

---------------------------------------------------------------------------
(* Bring-up.                                                               *)

At(t, l)   == pc[t] = l
Goto(t, l) == pc' = [pc EXCEPT ![t] = l]
AllIdle    == \A t \in Threads : At(t, "idle")

(* A step of t succeeds, or fails and the operation's status says so.      *)
Ok(t)   == UNCHANGED <<rc, failed>>
Fail(t) == rc' = [rc EXCEPT ![t] = "fail"] /\ failed' = [failed EXCEPT ![t] = TRUE]

(* qspi_init, called while no operation runs.  qspi_defconfig has cleared  *)
(* the configuration; _nrfx_qspi_init ignores the status of nrfx_qspi_init *)
(* (which does nothing when the driver is already on, and may leave it     *)
(* off) and does not set qspi_initialized; a failed RDSR or WRSR command,  *)
(* as every one is while the driver is off, returns before                 *)
(* qspi_device_uninit; the lock is initialised either way.  The count is   *)
(* taken with K_NO_WAIT, so it does not go below 0                         *)
(* (NrfxConfigureUnderflow is the faulty variant where it does).           *)
NrfxConfigureUnderflow ==
  /\ LowPower
  /\ up' = TRUE
  /\ count' = count - 1
  /\ periph' = "off" /\ initialized' = FALSE

NrfxConfigure ==
  \/ /\ "init" \in Faults /\ periph = "off"
     /\ up' = FALSE
     /\ UNCHANGED <<count, initialized, periph>>
  \/ /\ "cmd" \in Faults
     /\ periph' = "on" /\ up' = FALSE
     /\ UNCHANGED <<count, initialized>>
  \/ /\ ~LowPower
     /\ periph' = "on" /\ up' = TRUE
     /\ UNCHANGED <<count, initialized>>
  \/ /\ LowPower
     /\ up' = TRUE
     /\ count' = IF count > 0 THEN count - 1 ELSE 0
     /\ IF count' = 0
          THEN periph' = "off" /\ initialized' = FALSE
          ELSE periph' = "on" /\ UNCHANGED initialized

QspiInit ==
  /\ AllIdle
  /\ NrfxConfigure
  /\ encryption' = FALSE
  /\ lock' = 1
  /\ UNCHANGED <<pc, op, left, rc, failed, trans, sem, sync, dma, leaked>>

---------------------------------------------------------------------------
(* Starting an operation.                                                  *)

(* The number of transfers or attempts an operation may have.              *)
Steps(o) ==
  CASE o = "read"  -> 1..3       \* read_non_aligned: middle, prefix, suffix
    [] o = "write" -> 1..2       \* write_sub_word reads the word and writes it
    [] o = "RDSR1" -> {Tries}
    [] OTHER       -> {1}

Start(t) ==
  /\ up /\ At(t, "idle") /\ count < MaxCount
  /\ \E o \in Ops : \E n \in Steps(o) :
       /\ o = "encrypt" => ~encryption
       /\ op' = [op EXCEPT ![t] = o]
       /\ left' = [left EXCEPT ![t] = n]
       /\ Goto(t, IF o \in DataOps THEN "cfg" ELSE "init")
  /\ rc' = [rc EXCEPT ![t] = "ok"]
  /\ failed' = [failed EXCEPT ![t] = FALSE]
  /\ UNCHANGED <<sems, power, dma, config>>

TakeCfgLock(t) ==
  /\ At(t, "cfg") /\ lock = 1
  /\ lock' = 0
  /\ Goto(t, "init")
  /\ UNCHANGED <<op, left, rc, failed, trans, sem, sync, power, dma, config>>

(* qspi_hl_readw finds no memory for its buffer and returns before it      *)
(* takes the lock; qspi_hl_read goes on with the next word, and returns 0. *)
NoMemory(t) ==
  /\ "mem" \in Faults
  /\ At(t, "cfg") /\ op[t] = "hl_read"
  /\ failed' = [failed EXCEPT ![t] = TRUE]
  /\ Goto(t, "cfg") \/ Goto(t, "idle")
  /\ UNCHANGED <<op, left, rc, sems, power, dma, config>>

(* qspi_nor_read of no bytes returns 0; a null buffer, and in              *)
(* qspi_nor_write a length or an address it does not take, is an error     *)
(* before there is a session.                                              *)
Refuse(t) ==
  /\ At(t, "init") /\ op[t] \in {"read", "write"}
  /\ Goto(t, "ret")
  /\ Fail(t) \/ (op[t] = "read" /\ Ok(t))
  /\ UNCHANGED <<op, left, sems, power, dma, config>>

---------------------------------------------------------------------------
(* Sessions: qspi_device_init and qspi_device_uninit.                      *)

AfterInit(o)  ==
  CASE o = "write"          -> "trans"
    [] o \in {"read", "hl_read"} -> "lock"
    [] o = "encrypt"        -> "dma"
    [] OTHER                -> "send"

AfterInitError(o) ==
  CASE o \in LeakyOps -> "ret"
    [] o \in RdsrOps  -> "send"
    [] OTHER          -> "uninit"

(* qspi_device_init runs entirely under sem.  A thread calls it at the     *)
(* label here; it goes on at the label next, or at err when                *)
(* nrfx_qspi_init fails, as it does when the driver is already on.         *)
DeviceInit(t, here, next, err) ==
  /\ At(t, here)
  /\ \/ /\ ~LowPower
        /\ Goto(t, next) /\ Ok(t)
        /\ UNCHANGED power
     \/ /\ LowPower /\ sem = 1
        /\ count' = count + 1
        /\ \/ /\ initialized
              /\ Goto(t, next) /\ Ok(t)
              /\ UNCHANGED <<initialized, periph, leaked>>
           \/ /\ ~initialized /\ periph = "off"
              /\ initialized' = TRUE /\ periph' = "on"
              /\ Goto(t, next) /\ Ok(t)
              /\ UNCHANGED leaked
           \/ /\ ~initialized
              /\ periph = "on" \/ "init" \in Faults
              /\ Goto(t, err) /\ Fail(t)
              /\ leaked' = (leaked \/ err = "ret")
              /\ UNCHANGED <<initialized, periph>>
  /\ UNCHANGED <<op, left, sems, dma, config>>

OpInit(t)  == DeviceInit(t, "init", AfterInit(op[t]), AfterInitError(op[t]))
EncInit(t) == DeviceInit(t, "enc_init", "send", "enc_uninit")

(* A faulty variant of DeviceUninit: off by one in the test for the last.  *)
DeviceUninitEarly(t, here, next) ==
  /\ At(t, here) /\ LowPower /\ sem = 1
  /\ count' = IF count > 0 THEN count - 1 ELSE 0
  /\ IF count' <= 1
       THEN sem' = 0 /\ Goto(t, "busy")
       ELSE UNCHANGED sem /\ Goto(t, next)
  /\ UNCHANGED <<op, left, rc, failed, lock, trans, sync, initialized, periph,
                 leaked, dma, config>>

(* qspi_device_uninit: one session fewer, and when it was the last the     *)
(* thread keeps sem until the memory is no longer busy (UninitLast).       *)
DeviceUninit(t, here, next) ==
  /\ At(t, here)
  /\ \/ /\ ~LowPower
        /\ Goto(t, next)
        /\ UNCHANGED <<sem, count>>
     \/ /\ LowPower /\ sem = 1
        /\ count' = IF count > 0 THEN count - 1 ELSE 0
        /\ IF count' = 0
             THEN sem' = 0 /\ Goto(t, "busy")
             ELSE UNCHANGED sem /\ Goto(t, next)
  /\ UNCHANGED <<op, left, rc, failed, lock, trans, sync, initialized, periph,
                 leaked, dma, config>>

OpUninit(t)  == DeviceUninit(t, "uninit", "ret")
EncUninit(t) == DeviceUninit(t, "enc_uninit", "enc_end")

(* Faulty variants of UninitLast: the flag is not reset, or the nrfx       *)
(* driver is not switched off.                                             *)
UninitLastKeepsFlag(t) ==
  /\ At(t, "busy")
  /\ periph' = "off" /\ sem' = 1
  /\ Goto(t, "ret")
  /\ UNCHANGED <<op, left, rc, failed, lock, trans, sync, count, initialized,
                 leaked, dma, config>>

UninitLastKeepsDriver(t) ==
  /\ At(t, "busy")
  /\ initialized' = FALSE /\ sem' = 1
  /\ Goto(t, "ret")
  /\ UNCHANGED <<op, left, rc, failed, lock, trans, sync, count, periph,
                 leaked, dma, config>>

(* nrfx_qspi_mem_busy_check succeeds at last, the driver is switched off   *)
(* and sem given back.                                                     *)
UninitLast(t) ==
  /\ At(t, "busy")
  /\ periph' = "off"
  /\ initialized' = FALSE
  /\ sem' = 1
  /\ Goto(t, "ret")
  /\ UNCHANGED <<op, left, rc, failed, lock, trans, sync, count, leaked, dma, config>>

---------------------------------------------------------------------------
(* Block transfers: qspi_nor_read and qspi_nor_write inside a session.     *)

TransLock(t) ==
  /\ At(t, "trans") /\ trans = 1
  /\ trans' = 0
  /\ Goto(t, "lock")
  /\ UNCHANGED <<op, left, rc, failed, lock, sem, sync, power, dma, config>>

Lock(t) ==
  /\ At(t, "lock") /\ sem = 1
  /\ sem' = 0
  /\ Goto(t, "xfer")
  /\ UNCHANGED <<op, left, rc, failed, lock, trans, sync, power, dma, config>>

(* Faulty variants of StartTransfer: its status is lost; or it returns     *)
(* from a refused transfer without qspi_unlock.                            *)
StartTransferStatusLost(t) ==
  /\ At(t, "xfer")
  /\ \/ dma' = t /\ Goto(t, "wait") /\ Ok(t)
     \/ /\ "xfer" \in Faults
        /\ Goto(t, "unlock")
        /\ failed' = [failed EXCEPT ![t] = TRUE]
        /\ UNCHANGED <<dma, rc>>
  /\ UNCHANGED <<op, left, sems, power, config>>

StartTransferKeepsSem(t) ==
  /\ At(t, "xfer")
  /\ \/ dma' = t /\ Goto(t, "wait") /\ Ok(t)
     \/ "xfer" \in Faults /\ Goto(t, "trans_unlock") /\ Fail(t) /\ UNCHANGED dma
  /\ UNCHANGED <<op, left, sems, power, config>>

(* _nrfx_qspi_read or _nrfx_qspi_write: the transfer is started, or        *)
(* refused, and then the remaining ones are not attempted.                 *)
StartTransfer(t) ==
  /\ At(t, "xfer")
  /\ \/ /\ dma' = t
        /\ Goto(t, "wait") /\ Ok(t)
     \/ /\ "xfer" \in Faults
        /\ Goto(t, "unlock") /\ Fail(t)
        /\ UNCHANGED dma
  /\ UNCHANGED <<op, left, sems, power, config>>

(* qspi_handler, in interrupt context: the DMA is done, sync is given.     *)
TransferDone ==
  /\ dma # None
  /\ dma' = None
  /\ sync' = 1
  /\ UNCHANGED <<pc, op, left, rc, failed, lock, trans, sem, power, config>>

(* A faulty variant of WaitForCompletion: it sees that the transfer has    *)
(* ended but does not take the token.                                      *)
WaitKeepsToken(t) ==
  /\ At(t, "wait") /\ dma # t
  /\ left' = [left EXCEPT ![t] = @ - 1]
  /\ Goto(t, IF left'[t] = 0 THEN "unlock" ELSE "xfer")
  /\ UNCHANGED <<op, rc, failed, lock, trans, sem, sync, power, dma, config>>

(* qspi_wait_for_completion, then the next transfer of the operation.      *)
WaitForCompletion(t) ==
  /\ At(t, "wait") /\ sync = 1
  /\ sync' = 0
  /\ left' = [left EXCEPT ![t] = @ - 1]
  /\ Goto(t, IF left'[t] = 0 THEN "unlock" ELSE "xfer")
  /\ UNCHANGED <<op, rc, failed, lock, trans, sem, power, dma, config>>

Unlock(t) ==
  /\ At(t, "unlock")
  /\ sem' = 1
  /\ Goto(t, IF op[t] = "write" THEN "trans_unlock" ELSE "uninit")
  /\ UNCHANGED <<op, left, rc, failed, lock, trans, sync, power, dma, config>>

TransUnlock(t) ==
  /\ At(t, "trans_unlock")
  /\ trans' = 1
  /\ Goto(t, "uninit")
  /\ UNCHANGED <<op, left, rc, failed, lock, sem, sync, power, dma, config>>

---------------------------------------------------------------------------
(* Register commands: qspi_send_cmd, a blocking transfer under sem.        *)

(* SendBeginUnlocked is the faulty variant without qspi_lock.              *)
SendBeginUnlocked(t) ==
  /\ At(t, "send")
  /\ Goto(t, "sending")
  /\ UNCHANGED <<op, left, rc, failed, sems, power, dma, config>>

SendBegin(t) ==
  /\ At(t, "send") /\ sem = 1
  /\ sem' = 0
  /\ Goto(t, "sending")
  /\ UNCHANGED <<op, left, rc, failed, lock, trans, sync, power, dma, config>>

(* Its status is the operation's status from here on: RDSR1 and RDSR2      *)
(* forget that qspi_device_init failed.                                    *)
SendEnd(t) ==
  /\ At(t, "sending")
  /\ sem' = 1
  /\ \/ rc' = [rc EXCEPT ![t] = "ok"] /\ UNCHANGED failed
     \/ "cmd" \in Faults /\ Fail(t)
  /\ Goto(t, IF op[t] = "encrypt" THEN "enc_uninit" ELSE "uninit")
  /\ UNCHANGED <<op, left, lock, trans, sync, power, dma, config>>

---------------------------------------------------------------------------
(* qspi_enable_encryption: a session around qspi_cmd_encryption's own.     *)

DmaEncrypt(t) ==
  /\ At(t, "dma")
  /\ \/ Goto(t, "enc_init") /\ Ok(t) /\ UNCHANGED leaked
     \/ "dma_encrypt" \in Faults /\ Goto(t, "ret") /\ Fail(t) /\ leaked' = TRUE
  /\ UNCHANGED <<op, left, sems, count, initialized, periph, dma, config>>

EncryptEnd(t) ==
  /\ At(t, "enc_end")
  /\ \/ /\ rc[t] = "ok"
        /\ encryption' = TRUE
        /\ Goto(t, "uninit")
        /\ UNCHANGED leaked
     \/ /\ rc[t] = "fail"
        /\ Goto(t, "ret")
        /\ leaked' = TRUE
        /\ UNCHANGED encryption
  /\ UNCHANGED <<op, left, rc, failed, sems, count, initialized, periph,
                 dma, up>>

---------------------------------------------------------------------------
(* Returning to the caller.                                                *)

(* qspi_read and qspi_write give the lock back.                            *)
ReturnData(t) ==
  /\ At(t, "ret") /\ op[t] \in {"read", "write"}
  /\ lock' = 1
  /\ Goto(t, "idle")
  /\ UNCHANGED <<op, left, rc, failed, trans, sem, sync, power, dma, config>>

(* qspi_hl_readw gives the lock back after each word; qspi_hl_read goes on *)
(* with the next word whatever the status, and returns 0.                  *)
ReturnHlRead(t) ==
  /\ At(t, "ret") /\ op[t] = "hl_read"
  /\ lock' = 1
  /\ rc' = [rc EXCEPT ![t] = "ok"]
  /\ left' = [left EXCEPT ![t] = 1]
  /\ Goto(t, "cfg") \/ Goto(t, "idle")
  /\ UNCHANGED <<op, failed, trans, sem, sync, power, dma, config>>

(* qspi_wait_while_rpu_awake: the status shows RPU_AWAKE, or another try   *)
(* is made, or the last one is used up.                                    *)
ReturnRDSR1(t) ==
  /\ At(t, "ret") /\ op[t] = "RDSR1"
  /\ \/ /\ rc[t] = "ok"
        /\ Goto(t, "idle")
        /\ UNCHANGED <<left, rc>>
     \/ /\ left[t] > 1
        /\ left' = [left EXCEPT ![t] = @ - 1]
        /\ rc' = [rc EXCEPT ![t] = "ok"]
        /\ Goto(t, "init")
     \/ /\ left[t] = 1
        /\ rc' = [rc EXCEPT ![t] = "fail"]
        /\ Goto(t, "idle")
        /\ UNCHANGED left
  /\ UNCHANGED <<op, failed, sems, power, dma, config>>

ReturnCmd(t) ==
  /\ At(t, "ret") /\ op[t] \in Ops \ (DataOps \cup {"RDSR1"})
  /\ Goto(t, "idle")
  /\ UNCHANGED <<op, left, rc, failed, sems, power, dma, config>>

---------------------------------------------------------------------------
Thread(t) ==
  \/ Start(t)
  \/ TakeCfgLock(t) \/ NoMemory(t) \/ Refuse(t)
  \/ OpInit(t) \/ EncInit(t)
  \/ OpUninit(t) \/ EncUninit(t) \/ UninitLast(t)
  \/ TransLock(t) \/ Lock(t)
  \/ StartTransfer(t) \/ WaitForCompletion(t)
  \/ Unlock(t) \/ TransUnlock(t)
  \/ SendBegin(t) \/ SendEnd(t)
  \/ DmaEncrypt(t) \/ EncryptEnd(t)
  \/ ReturnData(t) \/ ReturnHlRead(t) \/ ReturnRDSR1(t) \/ ReturnCmd(t)

Next == QspiInit \/ TransferDone \/ \E t \in Threads : Thread(t)

Spec == Init /\ [][Next]_vars

(* A thread inside an operation is scheduled, the DMA interrupt arrives;   *)
(* nothing obliges a thread to start an operation.                         *)
Fairness ==
  /\ WF_vars(TransferDone)
  /\ \A t \in Threads : WF_vars(Thread(t) /\ ~At(t, "idle"))

FairSpec == Spec /\ Fairness

---------------------------------------------------------------------------
(* Where a thread holds what.                                              *)

HoldsSem(t)   == pc[t] \in {"xfer", "wait", "unlock", "sending", "busy"}
HoldsTrans(t) == /\ op[t] = "write"
                 /\ pc[t] \in {"lock", "xfer", "wait", "unlock", "trans_unlock"}
HoldsLock(t)  == /\ op[t] \in DataOps
                 /\ pc[t] \notin {"idle", "cfg"}

(* The threads between qspi_device_init and qspi_device_uninit, and those  *)
(* in the inner session of qspi_cmd_encryption.                            *)
UserPCs  == {"trans", "lock", "xfer", "wait", "unlock", "trans_unlock", "send",
             "sending", "uninit", "dma", "enc_init", "enc_uninit", "enc_end"}
InnerPCs == {"send", "sending", "enc_uninit"}
Users == {t \in Threads : pc[t] \in UserPCs}
Inner == {t \in Threads : op[t] = "encrypt" /\ pc[t] \in InnerPCs}

(* A session whose qspi_device_init returned 0.                            *)
Ready(t) == \/ pc[t] \in {"trans", "lock", "xfer", "wait", "unlock", "trans_unlock",
                          "dma", "enc_init", "enc_uninit", "enc_end"}
            \/ pc[t] \in {"send", "sending"} /\ op[t] \notin RdsrOps

---------------------------------------------------------------------------
(* Properties.                                                             *)

(* From its first transfer to its last an operation has the peripheral to  *)
(* itself: qspi_lock keeps a read-modify-write of write_sub_word, the      *)
(* fragments of read_non_aligned and a register command from interleaving, *)
(* and also keeps them out of the wait of the last qspi_device_uninit.     *)
BusExclusive ==
  \A t, u \in Threads : HoldsSem(t) /\ HoldsSem(u) => t = u

(* A completion is consumed by the thread whose transfer it ends: no token *)
(* of an earlier transfer is left in sync when a thread starts to wait, so *)
(* a read never returns before its own data has arrived.                   *)
CompletionIsOwn ==
  /\ \A t \in Threads : At(t, "wait") => (dma = t /\ sync = 0) \/ (dma = None /\ sync = 1)
  /\ (dma # None \/ sync = 1) => \E t \in Threads : At(t, "wait")

(* qspi_device_uninit never takes the peripheral away from a session of    *)
(* another thread: whoever relies on qspi_device_init having returned 0    *)
(* finds the nrfx driver on until its own qspi_device_uninit.              *)
ReadyWhenUsed ==
  \A t \in Threads : Ready(t) => periph = "on" /\ (LowPower => initialized)

(* "Keepping count, so QSPI is uninitialized only at the last call (count   *)
(* == 0)" (qspi_if.c:510-513): once every operation has returned, the      *)
(* count is back to 0 and the driver is off.                               *)
Off == count = 0 /\ ~initialized /\ periph = "off"
UninitAtLastCall == LowPower /\ up /\ AllIdle => Off

(* It is so as long as no operation has returned without its               *)
(* qspi_device_uninit: the errors of nrfx_qspi_init, of a transfer and of  *)
(* a command that the other paths meet, in any order, leave nothing on.    *)
OffWhenIdle == ~leaked => UninitAtLastCall

(* The flag and the nrfx driver never disagree in the one way that cannot  *)
(* be repaired: the driver on while qspi_initialized is FALSE, when every  *)
(* later nrfx_qspi_init fails and the bus is lost until a reset.           *)
InitCanSucceed ==
  LowPower /\ up /\ ~initialized /\ ~leaked => periph = "off"

(* An operation one of whose steps failed does not report success.  The    *)
(* RDSR loops may recover, and qspi_hl_read drops its status.              *)
HonestStatus ==
  \A t \in Threads :
    At(t, "idle") /\ failed[t] /\ op[t] \notin RdsrOps \cup {"hl_read"} => rc[t] = "fail"

(* Whoever takes the driver's semaphore gives it back, on every error path *)
(* too: otherwise every thread, the interrupt work queue included, stops.  *)
SemReleased == sem = 0 ~> sem = 1

=============================================================================
