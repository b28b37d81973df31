------------------------------ MODULE RpuPower ------------------------------
(***************************************************************************)
(* The platform layer, nrf70_zephyr_shim/source/platform/rpu_hw_if.c: the  *)
(* supplies of the chip are switched by two GPIOs, a third belongs to the  *)
(* coexistence switch.  Each call of the GPIO driver may fail, and most    *)
(* functions stop at the first failure.  A function is modelled by the set *)
(* of its outcomes: the state in which it leaves the pins and whether it   *)
(* returned 0.                                                             *)
(***************************************************************************)
EXTENDS Naturals

CONSTANT SrCoex   \* CONFIG_NRF70_SR_COEX_RF_SWITCH

ASSUME PowerAssumption == SrCoex \in BOOLEAN

Pins == {"bucken", "iovdd", "sr"}

(* A pin is an output or disconnected; its level is kept meanwhile.        *)
PinStates == [Pins -> [out : BOOLEAN, level : BOOLEAN]]
AllOff    == [p \in Pins |-> [out |-> FALSE, level |-> FALSE]]

Driven(s, p) == s[p].out /\ s[p].level
Supplied(s)  == Driven(s, "bucken") \/ Driven(s, "iovdd")
ChipOn(s)    == Driven(s, "bucken") /\ Driven(s, "iovdd")
Released(s)  == \A p \in Pins : ~s[p].out

(* An outcome: the pins, the call that failed, and whether every call made *)
(* to undo an earlier one succeeded.  "wake" is a command on the bus.      *)
Calls    == Pins \cup {"none", "wake"}
Outcomes == [pins : PinStates, failed : Calls, clean : BOOLEAN]
Ok(s)     == [pins |-> s, failed |-> "none", clean |-> TRUE]
Err(s, c) == [pins |-> s, failed |-> c, clean |-> TRUE]

(* gpio_pin_configure_dt and gpio_pin_set_dt.                              *)
Configure(s, p, v) == {Ok([s EXCEPT ![p].out = v]), Err(s, p)}
SetLevel(s, p, v)  == {Ok([s EXCEPT ![p].level = v]), Err(s, p)}

(* What follows a call: F on its success (an error is returned at once), G *)
(* after its failure (a clean-up: the error is kept), H in any case.       *)
IsOk(o) == o.failed = "none"

OnSuccess(S, F(_)) == UNION {IF IsOk(o) THEN F(o.pins) ELSE {o} : o \in S}
OnFailure(S, G(_)) ==
  UNION {IF IsOk(o) THEN {o}
         ELSE {[o EXCEPT !.pins = c.pins, !.clean = @ /\ IsOk(c)] : c \in G(o.pins)} : o \in S}
Always(S, H(_))    ==
  UNION {{IF IsOk(o) THEN c ELSE [o EXCEPT !.pins = c.pins] : c \in H(o.pins)} : o \in S}

(* Mutant: BUCKEN stays configured when IOVDD cannot be.                   *)
GpioConfigKeeps(s) ==
  OnSuccess(Configure(s, "bucken", TRUE), LAMBDA a : Configure(a, "iovdd", TRUE))

GpioConfig(s) ==
  OnSuccess(Configure(s, "bucken", TRUE), LAMBDA a :
    OnFailure(Configure(a, "iovdd", TRUE), LAMBDA b : Configure(b, "bucken", FALSE)))

GpioRemove(s) ==
  OnSuccess(Configure(s, "bucken", FALSE), LAMBDA a : Configure(a, "iovdd", FALSE))

PwrOn(s) ==
  OnSuccess(SetLevel(s, "bucken", TRUE), LAMBDA a :
    OnFailure(SetLevel(a, "iovdd", TRUE), LAMBDA b : SetLevel(b, "bucken", FALSE)))

PwrOff(s) ==
  OnSuccess(SetLevel(s, "bucken", FALSE), LAMBDA a : SetLevel(a, "iovdd", FALSE))

(* sr_gpio_config and sr_gpio_remove, declared in rpu_hw_if.h.             *)
SrConfig(s) == IF SrCoex THEN Configure(s, "sr", TRUE) ELSE {Ok(s)}
SrRemove(s) == IF SrCoex THEN Configure(s, "sr", FALSE) ELSE {Ok(s)}

(* rpu_init: a failure of the coexistence switch removes the switch only,  *)
(* a failure of the supplies removes the GPIOs too.                        *)
RpuInit(s) ==
  OnSuccess(GpioConfig(s), LAMBDA a :
    OnSuccess(OnFailure(SrConfig(a), SrRemove), LAMBDA b :
      OnFailure(PwrOn(b), LAMBDA c : Always(GpioRemove(c), SrRemove))))

(* Mutant: the supplies stay on.                                           *)
RpuEnableKeeps(s) == {Ok(s), Err(s, "wake")}

(* rpu_enable: when a wake-up command fails the supplies are switched off; *)
(* the status of rpu_clks_on does not count.                               *)
RpuEnable(s) == OnFailure({Ok(s), Err(s, "wake")}, PwrOff)

RpuDisable(s) == OnSuccess(PwrOff(s), LAMBDA a : OnSuccess(GpioRemove(a), SrRemove))
=============================================================================
