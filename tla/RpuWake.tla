------------------------------ MODULE RpuWake -------------------------------
(***************************************************************************)
(* Waking the chip and putting it to sleep: rpu_wakeup, rpu_sleep and      *)
(* rpu_sleep_status of rpu_hw_if.c, their callers in shim.c, and the       *)
(* register access of either bus below them, spi_if.c or qspi_if.c.  The   *)
(* chip obeys WRSR2 some time after it was written, in either direction,   *)
(* and a write that the bus reports as sent may not have reached it: the   *)
(* drivers say that waking is reliable at 8 MHz only, and write at another *)
(* frequency.                                                              *)
(***************************************************************************)
EXTENDS Naturals

CONSTANTS
  Rdsr1Tries,   \* reads of RDSR1 before a poll gives up: 10 on either bus
  Rdsr2Tries    \* reads of RDSR2: 10 over SPI, 1 over QSPI

ASSUME WakeAssumption == Rdsr1Tries \in Nat \ {0} /\ Rdsr2Tries \in Nat \ {0}

VARIABLES
  wakeupNow,   \* RPU_WAKEUP_NOW of the chip, read by RDSR2
  awakeBit,    \* RPU_AWAKE_BIT of the chip, read by RDSR1: it is awake
  caller,      \* who called: "rpu_enable", "ps_wake", "ps_status", or "none"
  access,      \* the register access that comes next
  tries,       \* reads made in the poll
  enabled,     \* rpu_enable has succeeded, and rpu_disable was not called since
  promised     \* history: the last rpu_wakeup returned 0, and nobody put the
               \* chip to sleep or took its supplies since

wakeVars == <<wakeupNow, awakeBit, caller, access, tries, enabled, promised>>

Flags == {wakeupNow, awakeBit, enabled, promised} \subseteq BOOLEAN

Place ==
  \/ caller = "none" /\ access = "none"
  \/ caller \in {"rpu_enable", "ps_wake"} /\ access \in {"WRSR2", "RDSR2", "RDSR1"}
  \/ caller = "ps_status" /\ access = "RDSR1"

Counter == tries \in 0 .. Rdsr1Tries + Rdsr2Tries

WakeTypeOK == Flags /\ Place /\ Counter

WakeInit ==
  /\ wakeupNow = FALSE /\ awakeBit = FALSE
  /\ caller = "none" /\ access = "none" /\ tries = 0
  /\ enabled = FALSE /\ promised = FALSE

---------------------------------------------------------------------------
(* rpu_enable, once rpu_init has given the chip its supplies.              *)
EnableCall ==
  /\ ~enabled /\ caller = "none"
  /\ caller' = "rpu_enable" /\ access' = "WRSR2"
  /\ UNCHANGED <<wakeupNow, awakeBit, tries, enabled, promised>>

(* zep_shim_bus_qspi_ps_wake.                                              *)
WakeCall ==
  /\ enabled /\ caller = "none"
  /\ caller' = "ps_wake" /\ access' = "WRSR2" /\ promised' = FALSE
  /\ UNCHANGED <<wakeupNow, awakeBit, tries, enabled>>

(* rpu_pwroff: the chip forgets what it was told, unless a supply stays.   *)
PowerOff(now) ==
  \/ wakeupNow' = FALSE /\ awakeBit' = FALSE
  \/ wakeupNow' = now /\ UNCHANGED awakeBit

(* A failed rpu_wakeup: rpu_enable takes the supplies of the chip, ps_wake *)
(* drops the status.                                                       *)
WakeupFails(now) ==
  /\ caller' = "none" /\ access' = "none" /\ tries' = 0 /\ promised' = FALSE
  /\ IF caller = "rpu_enable" THEN PowerOff(now)
                              ELSE wakeupNow' = now /\ UNCHANGED awakeBit
  /\ UNCHANGED enabled

(* spim_cmd_rpu_wakeup, qspi_cmd_wakeup_rpu: an error is returned; with or *)
(* without one the write may be lost.                                      *)
WriteWakeup ==
  /\ access = "WRSR2"
  /\ \E now \in {wakeupNow, TRUE} :
       \/ WakeupFails(now)
       \/ /\ wakeupNow' = now /\ access' = "RDSR2"
          /\ UNCHANGED <<awakeBit, caller, tries, enabled, promised>>

(* A read that fails, or does not show the bit waited for: the next try.   *)
PollAgain(n) ==
  /\ tries + 1 < n /\ tries' = tries + 1
  /\ UNCHANGED <<wakeupNow, awakeBit, caller, access, enabled, promised>>

(* Mutant: any answer of the chip confirms the write.                      *)
WaitWakeWriteAny ==
  /\ access = "RDSR2"
  /\ \/ access' = "RDSR1" /\ tries' = 0
        /\ UNCHANGED <<wakeupNow, awakeBit, caller, enabled, promised>>
     \/ PollAgain(Rdsr2Tries)
     \/ tries + 1 >= Rdsr2Tries /\ WakeupFails(wakeupNow)

(* spim_wait_while_rpu_wake_write, qspi_validate_rpu_wake_writecmd.        *)
WaitWakeWrite ==
  /\ access = "RDSR2"
  /\ \/ wakeupNow /\ access' = "RDSR1" /\ tries' = 0
        /\ UNCHANGED <<wakeupNow, awakeBit, caller, enabled, promised>>
     \/ PollAgain(Rdsr2Tries)
     \/ tries + 1 >= Rdsr2Tries /\ WakeupFails(wakeupNow)

(* spim_wait_while_rpu_awake and qspi_wait_while_rpu_awake, the end of     *)
(* rpu_wakeup and all of rpu_sleep_status, which answers 0 on a failure.   *)
WaitAwake ==
  /\ access = "RDSR1"
  /\ \/ /\ awakeBit
        /\ promised' = (promised \/ caller # "ps_status")
        /\ enabled' = (enabled \/ caller = "rpu_enable")
        /\ caller' = "none" /\ access' = "none" /\ tries' = 0
        /\ UNCHANGED <<wakeupNow, awakeBit>>
     \/ PollAgain(Rdsr1Tries)
     \/ /\ tries + 1 >= Rdsr1Tries
        /\ IF caller = "ps_status"
             THEN /\ caller' = "none" /\ access' = "none" /\ tries' = 0
                  /\ UNCHANGED <<wakeupNow, awakeBit, enabled, promised>>
             ELSE WakeupFails(wakeupNow)

(* rpu_sleep in zep_shim_bus_qspi_ps_sleep: no status counts.              *)
Sleep ==
  /\ enabled /\ caller = "none" /\ promised' = FALSE
  /\ wakeupNow' \in {wakeupNow, FALSE}
  /\ UNCHANGED <<awakeBit, caller, access, tries, enabled>>

(* rpu_sleep_status.                                                       *)
SleepStatus ==
  /\ enabled /\ caller = "none"
  /\ caller' = "ps_status" /\ access' = "RDSR1"
  /\ UNCHANGED <<wakeupNow, awakeBit, tries, enabled, promised>>

(* rpu_disable takes the supplies.                                         *)
Disable ==
  /\ enabled /\ caller = "none"
  /\ PowerOff(wakeupNow)
  /\ enabled' = FALSE /\ promised' = FALSE
  /\ UNCHANGED <<caller, access, tries>>

(* The chip follows what was written, in its own time.                     *)
ChipFollows ==
  /\ awakeBit' = wakeupNow
  /\ UNCHANGED <<wakeupNow, caller, access, tries, enabled, promised>>

WakeNext ==
  \/ EnableCall \/ WakeCall \/ WriteWakeup \/ WaitWakeWrite \/ WaitAwake
  \/ Sleep \/ SleepStatus \/ Disable \/ ChipFollows

WakeSpec == WakeInit /\ [][WakeNext]_wakeVars

---------------------------------------------------------------------------
(* After an rpu_wakeup that returned 0 the chip is awake, and stays so     *)
(* until it is put to sleep or loses its supplies; also when it was called *)
(* while the chip was still falling asleep, so that the awake bit was a    *)
(* remnant, and when its write did not arrive.                             *)
WokenStaysAwake == promised => awakeBit /\ wakeupNow
=============================================================================
