----------------------------- MODULE RadioTest -----------------------------
(***************************************************************************)
(* The radio-test shell, samples/radio_test_bm/src/                        *)
(* nrf_wifi_radio_test_shell.c: the commands that configure, start and     *)
(* stop tests of the radio.  One shell thread runs them, each to its end.  *)
(* The chip (external) runs what its accepted requests told it to run; a   *)
(* request that fails leaves it as it was.                                 *)
(***************************************************************************)
EXTENDS Integers, FiniteSets

CONSTANTS
  Typed,       \* the settings entered: pairs of a field and a value
  Channels,    \* the channels entered
  MaxChanged   \* bound: settings that differ from the defaults, or from zero

Modes == 0..5   \* legacy, HT, VHT, HE SU, HE ER SU, HE TB
SysPower == 30  \* MAX_TX_PWR_SYS_TEST
TestPower == 24 \* MAX_TX_PWR_RADIO_TEST

Fields == {"chan", "mode", "nss", "preamble", "mcs", "rate", "len", "ruTone",
           "ruIndex", "power", "capture", "other",
           "he", "country", "switch", "xo"}

(* The settings that a command writes while a test runs: he_ltf and he_gi  *)
(* (shell.c:466, 483), the antenna switches (1092, 1612), the country code *)
(* (1645, before its check at 1648) and the XO value (1383, checked for    *)
(* the value 1 only).                                                      *)
Unguarded == {"he", "country", "switch", "xo"}
Guarded   == Fields \ Unguarded

Values  == -1..16383
Entries == Fields \X Values

ASSUME RadioAssumption ==
  /\ Typed \subseteq Entries
  /\ Channels \subseteq 0..255
  /\ MaxChanged \in Nat

VARIABLES
  up,          \* the device is initialised: rpu_ctx is not NULL
  tx, rx,      \* conf_params.tx, conf_params.rx
  run, test,   \* rf_test_run, rf_test
  set,         \* the settings in conf_params
  ceil,        \* conf_params.rf_params: the TX power ceilings
  air,         \* the chip: the tests it runs
  onAir,       \* the chip: the guarded settings its last test started with
  masked       \* history: rf_test_run was cleared while the tone went on

conf  == <<tx, rx, set, ceil>>
flags == <<run, test>>
chip  == <<air, onAir>>
vars  == <<up, conf, flags, chip, masked>>

Tests    == {"tx", "rx", "tone"}
Ceilings == {"zero", "params", "raised"}

(* What the commands accept, and the zero of cleared settings.             *)
Settings ==
  {s \in [Fields -> Values] :
     /\ s["mode"] \in Modes /\ s["preamble"] \in 0..2
     /\ s["nss"] \in {0, 1}
     /\ s["power"] \in 0..TestPower \cup {SysPower}
     /\ s["ruTone"] \in {0, 26, 52, 106, 242} /\ s["ruIndex"] \in 0..9
     /\ s["chan"] >= 0 /\ s["len"] >= 0 /\ s["capture"] >= 0
     /\ s["country"] >= 0 /\ s["xo"] \in 0..127}

Zero == [f \in Fields |-> 0]

World    == 1   \* the country code "00"; 0 is the empty one, 2 on the others
DeviceXo == 42  \* the XO value in the RF parameters of the device

Default ==
  [f \in Fields |->
     CASE f = "power" -> SysPower [] f = "len" -> 1400 [] f = "rate" -> 6
       [] f = "ruTone" -> 26 [] f \in {"chan", "nss", "ruIndex"} -> 1
       [] f = "he" -> 2 [] f = "country" -> World [] f = "xo" -> DeviceXo [] OTHER -> 0]

(* What nrf_wifi_radio_test_conf_init leaves when the country code was k,  *)
(* and the channel c of the command init.                                  *)
Defaults(c, k) == [Default EXCEPT !["chan"] = c, !["country"] = k]

(* conf_init keeps the country code that is set.                           *)
Country(s) == IF s["country"] = 0 THEN World ELSE s["country"]

GuardedOf(s) == [f \in Guarded |-> s[f]]

Silent == [set |-> GuardedOf(Zero), ceil |-> "zero"]

TypeOK ==
  /\ up \in BOOLEAN
  /\ tx \in BOOLEAN /\ rx \in BOOLEAN
  /\ run \in BOOLEAN /\ test \in {"none", "tone", "rx_adc_cap"}
  /\ set \in Settings /\ ceil \in Ceilings
  /\ air \subseteq Tests
  /\ onAir \in [set : [Guarded -> Values], ceil : Ceilings]
  /\ masked \in BOOLEAN

(* main has initialised the device and the configuration, or has failed    *)
(* and shut the device down; the shell runs all the same.  rf_test is 0.   *)
Init ==
  /\ up \in BOOLEAN
  /\ tx = FALSE /\ rx = FALSE
  /\ run = FALSE /\ test = "rx_adc_cap"
  /\ set = IF up THEN Defaults(1, World) ELSE Zero
  /\ ceil = IF up THEN "params" ELSE "zero"
  /\ air = {} /\ onAir = Silent
  /\ masked = FALSE

---------------------------------------------------------------------------
(* Settings.                                                               *)

NoTest == ~rx /\ ~tx /\ ~run

Bases == {Zero} \cup {Defaults(c, World) : c \in Channels \cup {1}}
NearBase(s) ==
  \E base \in Bases : Cardinality({f \in Fields : s[f] # base[f]}) <= MaxChanged

SetUnchecked(f, v) ==
  /\ set' = [set EXCEPT ![f] = v]
  /\ NearBase(set')
  /\ UNCHANGED <<up, tx, rx, ceil, flags, chip, masked>>

(* A faulty variant: a setting can be entered while a test runs.           *)
SetAnytime(f, v) == <<f, v>> \in Typed /\ SetUnchecked(f, v)

Set(f, v) == NoTest /\ <<f, v>> \in Typed /\ SetUnchecked(f, v)

SetMode(v) == v \in Modes /\ Set("mode", v)

SetPreamble(v) ==
  /\ IF set["mode"] = 0 THEN v \in {0, 1} ELSE v = 2
  /\ Set("preamble", v)

(* check_valid_data_rate.  Bit 7 marks an MCS; the bit test for HT is true *)
(* of every odd mode.  A legacy rate is accepted in every mode, and nss is *)
(* never 2.                                                                *)
LegacyRates == {1, 2, 55, 11, 6, 9, 12, 18, 24, 36, 48, 54}
ValidMcs(v) ==
  \/ set["mode"] % 2 = 1 /\ set["nss"] = 1 /\ v \in 0..7
  \/ set["mode"] = 2 /\ v \in 0..9
  \/ set["mode"] = 4 /\ v \in 0..2
ValidDataRate(dr) ==
  dr = -1 \/ IF (dr \div 128) % 2 = 1 THEN ValidMcs(dr % 128) ELSE dr \in LegacyRates

SetMcs(v)  == (v = -1 \/ ValidMcs(v % 128)) /\ Set("mcs", v)
SetRate(v) == ValidDataRate(v) /\ Set("rate", v)

(* The length of an HE TB packet must fit its resource unit.               *)
LenBound(tone) ==
  CASE tone = 26 -> 349 [] tone = 52 -> 799 [] tone = 106 -> 1799 [] tone = 242 -> 3999
    [] OTHER -> 0
SetLen(v) ==
  /\ v > 0
  /\ set["mode"] = 0 => v <= 4000
  /\ set["mode"] = 5 => v <= LenBound(set["ruTone"])
  /\ Set("len", v)

SetRuTone(v) == v \in {26, 52, 106, 242} /\ Set("ruTone", v)

RuCount(tone) ==
  CASE tone = 26 -> 9 [] tone = 52 -> 4 [] tone = 106 -> 2 [] tone = 242 -> 1 [] OTHER -> 0
SetRuIndex(v) == v \in 1..RuCount(set["ruTone"]) /\ Set("ruIndex", v)

(* A faulty variant: everything up to the system power is accepted.        *)
SetPowerUpToSys(v) == v \in 0..SysPower /\ Set("power", v)

SetPower(v) == v \in 0..TestPower \cup {SysPower} /\ Set("power", v)

SetCapture(v) == v >= 0 /\ v <= 16383 /\ Set("capture", v)

(* The other settings that are checked: calibration, gains, timing,        *)
(* backoffs, the bypass of the regulatory limits.                          *)
SetOther(v) == Set("other", v)

(* he_ltf and he_gi do not look for a running test.                        *)
SetHe(v) == v \in 0..2 /\ <<"he", v>> \in Typed /\ SetUnchecked("he", v)

(* The antenna switches: of WLAN (0 or 1; stored whether or not the        *)
(* request succeeds) and of the short-range radio (any value, a pin).      *)
SetSwitch(v) == v >= 0 /\ <<"switch", v>> \in Typed /\ SetUnchecked("switch", v)

(* reg_domain stores the code, then looks for a running test, and only     *)
(* without one asks for the domain to be set.                              *)
RegDomain(v) ==
  up /\ v >= World /\ <<"country", v>> \in Typed /\ SetUnchecked("country", v)

(* set_defaults.  Without the RF parameters of the device the settings are *)
(* left at zero.                                                           *)
SetDefaults ==
  /\ up /\ NoTest
  /\ \/ set' = Defaults(1, Country(set)) /\ ceil' = "params"
     \/ set' = Zero /\ ceil' = "zero"
  /\ UNCHANGED <<up, tx, rx, flags, chip, masked>>

---------------------------------------------------------------------------
(* Tests.  A request reaches the chip (Accept) or fails.                   *)

Started(t) == air' = air \cup {t} /\ onAir' = [set |-> GuardedOf(set), ceil |-> ceil']
Stopped(ts) ==
  /\ air' = air \ ts
  /\ onAir' = IF air' = {} THEN Silent ELSE onAir
  /\ masked' = (masked /\ "tone" \in air')

(* check_channel_settings: every bandwidth is 20 MHz; no VHT at 2.4 GHz.   *)
ChannelOk == ~(set["mode"] = 2 /\ set["chan"] \in 1..14)

(* A faulty variant: TX is started whatever else runs.                     *)
TxStartUnchecked ==
  /\ up /\ ChannelOk
  /\ ceil' = IF set["power"] # SysPower THEN "raised" ELSE ceil
  /\ \/ tx' = TRUE /\ Started("tx")
     \/ tx' = FALSE /\ UNCHANGED chip
  /\ UNCHANGED <<up, rx, set, flags, masked>>

(* Below the system power the ceilings are raised, before the request.     *)
TxStart ==
  /\ up /\ NoTest /\ ChannelOk
  /\ ceil' = IF set["power"] # SysPower THEN "raised" ELSE ceil
  /\ \/ tx' = TRUE /\ Started("tx")
     \/ tx' = FALSE /\ UNCHANGED chip
  /\ UNCHANGED <<up, rx, set, flags, masked>>

(* After a failure conf_params.tx is 1, whatever it was before.            *)
TxStop ==
  /\ up
  /\ \/ tx' = FALSE /\ Stopped({"tx"})
     \/ tx' = TRUE /\ UNCHANGED <<chip, masked>>
  /\ UNCHANGED <<up, rx, set, ceil, flags>>

RxStart ==
  /\ up /\ NoTest
  /\ \/ rx' = TRUE /\ ceil' = ceil /\ Started("rx")
     \/ rx' = FALSE /\ ceil' = ceil /\ UNCHANGED chip
  /\ UNCHANGED <<up, tx, set, flags, masked>>

(* A faulty variant: rx is not restored when the request fails.            *)
RxStopForgets ==
  /\ up
  /\ rx' = FALSE
  /\ Stopped({"rx"}) \/ UNCHANGED <<chip, masked>>
  /\ UNCHANGED <<up, tx, set, ceil, flags>>

RxStop ==
  /\ up
  /\ \/ rx' = FALSE /\ Stopped({"rx"})
     \/ rx' = TRUE /\ UNCHANGED <<chip, masked>>
  /\ UNCHANGED <<up, tx, set, ceil, flags>>

ToneStart ==
  /\ up /\ NoTest
  /\ ceil' = ceil
  /\ \/ /\ run' = TRUE /\ test' = "tone" /\ masked' = FALSE
        /\ Started("tone")
     \/ UNCHANGED <<flags, chip, masked>>
  /\ UNCHANGED <<up, tx, rx, set>>

ToneStop ==
  /\ up
  /\ \/ run' = FALSE /\ test' = "none" /\ Stopped({"tone"})
     \/ UNCHANGED <<flags, chip, masked>>
  /\ UNCHANGED <<up, conf>>

(* Measurements that end with the command: rx_cap, dpd, get_temperature,   *)
(* get_rf_rssi, set_xo_val and compute_optimal_xo_val.  Each of them, also *)
(* when it is refused, leaves through code that clears rf_test_run.        *)
FlagCleared ==
  /\ run' = FALSE /\ test' = "none"
  /\ masked' = (masked \/ "tone" \in air)

(* rx_cap: without a capture length, with a test in progress, without      *)
(* memory or with a request that fails, too.                               *)
RxCapture ==
  /\ up
  /\ FlagCleared
  /\ UNCHANGED <<up, conf, chip>>

(* The argument of dpd, get_temperature and get_rf_rssi: 1 checks for a    *)
(* test in progress, 0 does not, more is invalid; the flag is cleared.     *)
OneShot ==
  /\ up
  /\ FlagCleared
  /\ UNCHANGED <<up, conf, chip>>

(* compute_optimal_xo_val, refused under a test.                           *)
CompOptXo ==
  /\ up
  /\ FlagCleared
  /\ UNCHANGED <<up, conf, chip>>

(* set_xo_val looks for a running test for the value 1 only.  The value    *)
(* that the chip took is stored in the RF parameters; the ceilings stay.   *)
SetXo ==
  /\ up
  /\ FlagCleared
  /\ \/ set' = set
     \/ \E p \in Typed :
          /\ p[1] = "xo" /\ p[2] \in 0..127
          /\ p[2] = 1 => NoTest
          /\ set' = [set EXCEPT !["xo"] = p[2]] /\ NearBase(set')
  /\ UNCHANGED <<up, tx, rx, ceil, chip>>

---------------------------------------------------------------------------
(* The command init: running tests are stopped, the settings reset, the    *)
(* chip programmed.  It gets through the first `done' of five stages: stop *)
(* RX, stop TX, stop the tone, reset, program; the stops are empty when    *)
(* nothing runs, by the flags.                                             *)

(* A faulty variant: TX is marked as stopped without a request.            *)
StoppingNotTx(done) ==
  {t \in {"rx"} : done >= 1 /\ rx} \cup {t \in {"tone"} : done >= 3 /\ run}

Stopping(done) ==
  {t \in {"rx"} : done >= 1 /\ rx} \cup {t \in {"tx"} : done >= 2 /\ tx}
    \cup {t \in {"tone"} : done >= 3 /\ run}

MayEndAt(done) ==
  /\ done = 0 => rx
  /\ done = 1 => tx
  /\ done = 2 => run
  /\ done >= 3 => (run => test = "tone")

RadioTestInit(c, done) ==
  /\ up /\ MayEndAt(done)
  /\ rx' = (rx /\ done < 1)
  /\ tx' = (tx /\ done < 2)
  /\ run' = (run /\ done < 3)
  /\ test' = IF run /\ done >= 3 THEN "none" ELSE test
  /\ Stopped(Stopping(done))
  /\ set'  = IF done < 3 THEN set ELSE IF done = 3 THEN Zero ELSE Defaults(c, Country(set))
  /\ ceil' = IF done < 3 THEN ceil ELSE IF done = 3 THEN "zero" ELSE "params"
  /\ UNCHANGED up

---------------------------------------------------------------------------
(* nrf70_init, typed when the device is down, and nrf70_deinit.  The       *)
(* settings are not initialised again.                                     *)

DeviceInit ==
  /\ ~up
  /\ up' \in BOOLEAN
  /\ UNCHANGED <<conf, flags, chip, masked>>

DeviceDeinit ==
  /\ up /\ up' = FALSE
  /\ tx' = FALSE /\ rx' = FALSE
  /\ set' = Zero /\ ceil' = "zero"
  /\ run' = FALSE
  /\ air' = {} /\ onAir' = Silent /\ masked' = FALSE
  /\ UNCHANGED test

---------------------------------------------------------------------------
Setting ==
  \/ \E p \in Typed :
       LET v == p[2] IN
       \/ SetMode(v) \/ SetPreamble(v) \/ SetMcs(v) \/ SetRate(v) \/ SetLen(v)
       \/ SetRuTone(v) \/ SetRuIndex(v) \/ SetPower(v) \/ SetCapture(v) \/ SetHe(v)
       \/ SetOther(v) \/ SetSwitch(v) \/ RegDomain(v)
  \/ SetDefaults

Testing ==
  \/ TxStart \/ TxStop \/ RxStart \/ RxStop \/ ToneStart \/ ToneStop
  \/ RxCapture \/ OneShot \/ CompOptXo \/ SetXo
  \/ \E c \in Channels, done \in 0..5 : RadioTestInit(c, done)

Next == Setting \/ Testing \/ DeviceInit \/ DeviceDeinit

Spec == Init /\ [][Next]_vars

---------------------------------------------------------------------------
(* Properties.                                                             *)

(* The flags that check_test_in_prog reads know what the chip runs, after  *)
(* every mixture of failed starts and failed stops: only a tone can go on  *)
(* unknown, when a measurement cleared rf_test_run.  The flag is set only  *)
(* with the tone: the `Unexpected' test of init does not occur.            *)
RunningIsKnown ==
  /\ "tx" \in air => tx
  /\ "rx" \in air => rx
  /\ "tone" \in air => run \/ masked
  /\ run => test = "tone"

(* As long as no measurement cleared rf_test_run under a tone, the chip    *)
(* runs one test at a time, also when stops failed or init ended half way. *)
OneTest == ~masked => Cardinality(air) <= 1

(* As long as no measurement cleared rf_test_run under a tone, the         *)
(* settings that check_test_in_prog protects and the power ceilings are    *)
(* those that the running test was started with: no setter, no reset, no   *)
(* refused or failed start and no half-done init changed them meanwhile.   *)
StableTransmission ==
  air # {} /\ ~masked => onAir = [set |-> GuardedOf(set), ceil |-> ceil]

(* An init that succeeds leaves the chip silent, the flags clear and the   *)
(* default settings with the country code that was set, whatever ran or    *)
(* had failed before; only an unknown tone survives it.                    *)
InitRecovers ==
  [][\A c \in Channels :
       RadioTestInit(c, 5) => /\ masked \/ air' = {}
                              /\ ~(rx' \/ tx' \/ run')
                              /\ set' = Defaults(c, Country(set))]_vars

(* What check_test_in_prog is for: one test at a time (`Disable RF Test'). *)
(* A measurement under a tone clears rf_test_run, and TX starts over it.   *)
OneTestAtATime == Cardinality(air) <= 1

(* What set_tx says of the system power: the TX power is read from the RF  *)
(* parameters.  After a test at a lower power the ceilings stay raised.    *)
CeilingFromParams ==
  "tx" \in air /\ onAir.set["power"] = SysPower => onAir.ceil # "raised"
=============================================================================
