--------------------------- MODULE RadioTestProofs --------------------------
(***************************************************************************)
(* Proofs about the radio-test shell, for all settings entered, all        *)
(* channels and any bound: type correctness, and that the flags know what  *)
(* the chip runs.                                                          *)
(***************************************************************************)
EXTENDS RadioTest, FiniteSetTheorems, TLAPS

(* TX and RX never go on together, also over an unknown tone; a known tone *)
(* goes on alone.                                                          *)
AloneInv ==
  /\ ~("tx" \in air /\ "rx" \in air)
  /\ "tone" \in air /\ ~masked => air = {"tone"}

(* TX and RX keep their settings also over an unknown tone.  The clause    *)
(* is needed when the tone stops and the other test goes on, known again.  *)
SameSettings == onAir = [set |-> GuardedOf(set), ceil |-> ceil]
StableInv ==
  /\ "tx" \in air \/ "rx" \in air => SameSettings
  /\ "tone" \in air /\ ~masked => SameSettings

AirInv == RunningIsKnown /\ AloneInv /\ StableInv

---------------------------------------------------------------------------
(* Types.                                                                  *)

(* What a member of Settings is, field by field.                           *)
InFields(s) ==
  /\ s["mode"] \in Modes /\ s["preamble"] \in 0..2
  /\ s["nss"] \in {0, 1}
  /\ s["power"] \in 0..TestPower \cup {SysPower}
  /\ s["ruTone"] \in {0, 26, 52, 106, 242} /\ s["ruIndex"] \in 0..9
  /\ s["chan"] >= 0 /\ s["len"] >= 0 /\ s["capture"] >= 0
  /\ s["country"] >= 0 /\ s["xo"] \in 0..127

OnAirType == [set : [Guarded -> Values], ceil : Ceilings]

LEMMA ValuesAre == \A v : v \in Values <=> v \in Int /\ v >= -1 /\ v <= 16383
<1>1. ASSUME NEW v, v \in Values PROVE v \in Int /\ v >= -1 /\ v <= 16383
  BY <1>1, SMTT(30) DEF Values
<1>2. ASSUME NEW v \in Int, v >= -1, v <= 16383 PROVE v \in Values
  BY <1>2, SMTT(30) DEF Values
<1>3. QED
  BY <1>1, <1>2

LEMMA SettingsMember ==
  ASSUME NEW s PROVE s \in Settings <=> s \in [Fields -> Values] /\ InFields(s)
BY DEF Settings, InFields

LEMMA DefaultSettings ==
  /\ Zero \in Settings
  /\ \A c \in Channels \cup {1}, k \in Values : k >= 0 => Defaults(c, k) \in Settings
<1>1. Zero \in Settings
  <2>1. Zero \in [Fields -> Values] /\ InFields(Zero)
    BY ValuesAre DEF Zero, Fields, InFields, Modes, TestPower, SysPower
  <2>2. QED
    BY <2>1, SettingsMember
<1>2. ASSUME NEW c \in Channels \cup {1}, NEW k \in Values, k >= 0
      PROVE  Defaults(c, k) \in Settings
  <2>1. c \in 0..255
    BY RadioAssumption DEF RadioAssumption
  <2>2. Default \in [Fields -> Values] /\ InFields(Default)
    BY ValuesAre DEF Default, Fields, InFields, Modes, TestPower, SysPower, World, DeviceXo
  <2>3. Defaults(c, k) \in [Fields -> Values]
    <3>1. c \in Values
      BY <2>1, ValuesAre
    <3>2. QED
      BY <2>2, <3>1 DEF Defaults
  <2>4. InFields(Defaults(c, k))
    BY <1>2, <2>1, <2>2 DEF Defaults, Fields, InFields
  <2>5. QED
    BY <2>3, <2>4, SettingsMember
<1>3. QED
  BY <1>1, <1>2

(* The country code kept by conf_init.                                     *)
LEMMA CountryKept ==
  ASSUME NEW s \in Settings PROVE Country(s) \in Values /\ Country(s) >= 0
BY SettingsMember, ValuesAre DEF Country, InFields, Fields, World

LEMMA GuardedType ==
  /\ \A s \in Settings : GuardedOf(s) \in [Guarded -> Values]
  /\ Silent \in OnAirType
<1>1. ASSUME NEW s \in Settings PROVE GuardedOf(s) \in [Guarded -> Values]
  BY SettingsMember DEF GuardedOf, Guarded
<1>2. Silent \in OnAirType
  BY <1>1, DefaultSettings DEF Silent, OnAirType, Ceilings
<1>3. QED
  BY <1>1, <1>2

(* What the setters check of their values.                                 *)
InRange(f, v) ==
  /\ f \in Fields \ {"chan", "nss"} /\ v \in Values
  /\ f = "mode" => v \in Modes
  /\ f = "preamble" => v \in 0..2
  /\ f = "power" => v \in 0..TestPower \cup {SysPower}
  /\ f = "ruTone" => v \in {26, 52, 106, 242}
  /\ f = "ruIndex" => v \in 0..9
  /\ f = "len" \/ f = "capture" \/ f = "country" => v >= 0
  /\ f = "xo" => v \in 0..127

LEMMA Entered ==
  ASSUME NEW f, NEW v, <<f, v>> \in Typed PROVE f \in Fields /\ v \in Values
<1>1. <<f, v>> \in Entries
  BY RadioAssumption DEF RadioAssumption
<1>2. QED
  BY <1>1 DEF Entries

(* Every setting command is a change of one field to a value in range,     *)
(* with no test running if the field is a guarded one, or set_defaults.    *)
LEMMA SettingKinds ==
  ASSUME set \in Settings, Setting
  PROVE  \/ SetDefaults
         \/ \E f, v : InRange(f, v) /\ (NoTest \/ f \in Unguarded) /\ SetUnchecked(f, v)
<1> DEFINE Goal == \E f, v : InRange(f, v) /\ (NoTest \/ f \in Unguarded) /\ SetUnchecked(f, v)
<1>1. SUFFICES ASSUME NEW v, ~SetDefaults,
                      \/ SetMode(v) \/ SetPreamble(v) \/ SetMcs(v) \/ SetRate(v) \/ SetLen(v)
                      \/ SetRuTone(v) \/ SetRuIndex(v) \/ SetPower(v) \/ SetCapture(v)
                      \/ SetHe(v) \/ SetOther(v) \/ SetSwitch(v) \/ RegDomain(v)
               PROVE  Goal
  BY DEF Setting
<1>2. ASSUME NEW f \in Fields \ {"chan", "nss"}, Set(f, v), v \in Values => InRange(f, v)
      PROVE  Goal
  BY <1>2, Entered DEF Set
<1>3. CASE SetMode(v)
  BY <1>2, <1>3 DEF SetMode, InRange, Fields
<1>4. CASE SetPreamble(v)
  BY <1>2, <1>4 DEF SetPreamble, InRange, Fields
<1>5. CASE SetMcs(v)
  BY <1>2, <1>5 DEF SetMcs, InRange, Fields
<1>6. CASE SetRate(v)
  BY <1>2, <1>6 DEF SetRate, InRange, Fields
<1>7. CASE SetLen(v)
  <2>1. Set("len", v) /\ v > 0
    BY <1>7 DEF SetLen
  <2>2. "len" \in Fields \ {"chan", "nss"}
    BY DEF Fields
  <2>3. ASSUME v \in Values PROVE InRange("len", v)
    <3>1. v >= 0
      BY <2>1, <2>3, ValuesAre
    <3>2. QED
      BY <2>2, <2>3, <3>1, SMTT(30) DEF InRange
  <2>4. QED
    BY <1>2, <2>1, <2>2, <2>3
<1>8. CASE SetRuTone(v)
  BY <1>2, <1>8 DEF SetRuTone, InRange, Fields
<1>9. CASE SetRuIndex(v)
  <2>1. RuCount(set["ruTone"]) \in 0..9
    BY DEF RuCount
  <2>2. v \in Values => InRange("ruIndex", v)
    BY <1>9, <2>1 DEF SetRuIndex, InRange, Fields
  <2>3. Set("ruIndex", v) /\ "ruIndex" \in Fields \ {"chan", "nss"}
    BY <1>9 DEF SetRuIndex, Fields
  <2>4. QED
    BY <1>2, <2>2, <2>3
<1>10. CASE SetPower(v)
  BY <1>2, <1>10 DEF SetPower, InRange, Fields
<1>11. CASE SetCapture(v)
  <2>1. Set("capture", v) /\ v >= 0
    BY <1>11 DEF SetCapture
  <2>2. "capture" \in Fields \ {"chan", "nss"}
    BY DEF Fields
  <2>3. ASSUME v \in Values PROVE InRange("capture", v)
    <3>1. v >= 0
      BY <2>1
    <3>2. QED
      BY <2>2, <2>3, <3>1, SMTT(30) DEF InRange
  <2>4. QED
    BY <1>2, <2>1, <2>2, <2>3
<1>12. CASE SetHe(v)
  BY <1>12, Entered DEF SetHe, InRange, Fields, Unguarded
<1>13. CASE SetOther(v)
  BY <1>2, <1>13 DEF SetOther, InRange, Fields
<1>14. CASE SetSwitch(v)
  BY <1>14, Entered DEF SetSwitch, InRange, Fields, Unguarded
<1>15. CASE RegDomain(v)
  <2>1. <<"country", v>> \in Typed /\ v >= World /\ SetUnchecked("country", v)
    BY <1>15 DEF RegDomain
  <2>2. "country" \in Fields \ {"chan", "nss"} /\ "country" \in Unguarded
    BY DEF Fields, Unguarded
  <2>3. v \in Values /\ v >= 0
    BY <2>1, Entered, ValuesAre DEF World
  <2>4. InRange("country", v)
    BY <2>2, <2>3 DEF InRange
  <2>5. QED
    BY <2>1, <2>2, <2>4
<1>16. QED
  BY <1>1, <1>3, <1>4, <1>5, <1>6, <1>7, <1>8, <1>9, <1>10, <1>11, <1>12, <1>13, <1>14, <1>15

LEMMA SetterType ==
  ASSUME set \in Settings, NEW f, NEW v, InRange(f, v)
  PROVE  [set EXCEPT ![f] = v] \in Settings
<1>1. set \in [Fields -> Values] /\ InFields(set)
  BY SettingsMember
<1>2. PICK s : s = [set EXCEPT ![f] = v]
  OBVIOUS
<1>3. s \in [Fields -> Values] /\ \A g \in Fields : s[g] = IF g = f THEN v ELSE set[g]
  <2>1. f \in Fields /\ v \in Values
    BY DEF InRange
  <2>2. s \in [Fields -> Values]
    BY <1>1, <1>2, <2>1
  <2>3. \A g \in Fields : s[g] = IF g = f THEN v ELSE set[g]
    BY <1>1, <1>2, <2>1
  <2>4. QED
    BY <2>2, <2>3
<1>4. /\ s["mode"] = IF f = "mode" THEN v ELSE set["mode"]
      /\ s["preamble"] = IF f = "preamble" THEN v ELSE set["preamble"]
      /\ s["power"] = IF f = "power" THEN v ELSE set["power"]
      /\ s["ruTone"] = IF f = "ruTone" THEN v ELSE set["ruTone"]
      /\ s["ruIndex"] = IF f = "ruIndex" THEN v ELSE set["ruIndex"]
      /\ s["len"] = IF f = "len" THEN v ELSE set["len"]
      /\ s["capture"] = IF f = "capture" THEN v ELSE set["capture"]
      /\ s["country"] = IF f = "country" THEN v ELSE set["country"]
      /\ s["xo"] = IF f = "xo" THEN v ELSE set["xo"]
  <2>1. /\ "mode" \in Fields /\ "preamble" \in Fields /\ "power" \in Fields
        /\ "ruTone" \in Fields /\ "ruIndex" \in Fields /\ "len" \in Fields
        /\ "capture" \in Fields /\ "country" \in Fields /\ "xo" \in Fields
    BY DEF Fields
  <2>2. QED
    BY <1>3, <2>1
<1>5. s["nss"] = set["nss"] /\ s["chan"] = set["chan"]
  <2>1. "nss" \in Fields /\ "chan" \in Fields
    BY DEF Fields
  <2>2. f # "nss" /\ f # "chan"
    BY DEF InRange
  <2>3. QED
    BY <1>3, <2>1, <2>2
<1>6. InFields(s)
  BY <1>1, <1>4, <1>5 DEF InRange, InFields
<1>7. s \in Settings
  BY <1>3, <1>6, SettingsMember
<1>8. QED
  BY <1>2, <1>7

(* set_xo_val stores nothing or a value of seven bits.                     *)
LEMMA XoStored ==
  ASSUME SetXo
  PROVE  set' = set \/ \E v : InRange("xo", v) /\ set' = [set EXCEPT !["xo"] = v]
<1>1. SUFFICES ASSUME NEW p \in Typed, p[1] = "xo", p[2] \in 0..127,
                      set' = [set EXCEPT !["xo"] = p[2]]
               PROVE  \E v : InRange("xo", v) /\ set' = [set EXCEPT !["xo"] = v]
  BY DEF SetXo
<1>2. p[2] \in Values
  BY <1>1, ValuesAre
<1>3. InRange("xo", p[2])
  BY <1>1, <1>2 DEF InRange, Fields
<1>4. QED
  BY <1>1, <1>3

(* The settings, the flags and the chip keep their types.                  *)
LEMMA TypeStep == ASSUME TypeOK, [Next]_vars PROVE TypeOK'
<1> USE DEF TypeOK, flags, chip, conf
<1>a. onAir \in OnAirType
  BY DEF OnAirType
<1>b. ASSUME NEW s, s \in OnAirType PROVE s \in [set : [Guarded -> Values], ceil : Ceilings]
  BY <1>b DEF OnAirType
<1>1. CASE Setting
  <2>1. CASE SetDefaults
    BY <2>1, DefaultSettings, CountryKept DEF SetDefaults, Ceilings
  <2>2. ASSUME NEW f, NEW v, InRange(f, v), SetUnchecked(f, v)
        PROVE  TypeOK'
    BY <2>2, SetterType DEF SetUnchecked
  <2>3. QED
    BY <1>1, <2>1, <2>2, SettingKinds
<1>2. ASSUME NEW t \in Tests, Started(t), ceil' \in Ceilings
      PROVE  air' \subseteq Tests /\ onAir' \in OnAirType
  BY <1>2, GuardedType DEF Started, OnAirType
<1>3. ASSUME NEW ts, Stopped(ts)
      PROVE  air' \subseteq Tests /\ onAir' \in OnAirType /\ masked' \in BOOLEAN
  BY <1>3, GuardedType DEF Stopped, OnAirType
<1>4. CASE TxStart
  BY <1>b, <1>2, <1>4 DEF TxStart, Tests, Ceilings
<1>5. CASE TxStop \/ RxStop \/ ToneStop
  BY <1>b, <1>3, <1>5 DEF TxStop, RxStop, ToneStop
<1>6. CASE RxStart \/ ToneStart
  BY <1>b, <1>2, <1>6 DEF RxStart, ToneStart, Tests
<1>7. CASE RxCapture \/ OneShot \/ CompOptXo \/ SetXo
  <2>1. CASE RxCapture \/ OneShot \/ CompOptXo
    BY <2>1 DEF RxCapture, OneShot, CompOptXo, FlagCleared
  <2>2. CASE SetXo
    <3>1. set' \in Settings
      BY <2>2, XoStored, SetterType
    <3>2. QED
      BY <2>2, <3>1 DEF SetXo, FlagCleared
  <2>3. QED
    BY <1>7, <2>1, <2>2
<1>8. ASSUME NEW c \in Channels, NEW done \in 0..5, RadioTestInit(c, done) PROVE TypeOK'
  BY <1>b, <1>3, <1>8, DefaultSettings, CountryKept DEF RadioTestInit, Ceilings
<1>9. CASE DeviceInit \/ DeviceDeinit
  BY <1>b, <1>9, DefaultSettings, GuardedType DEF DeviceInit, DeviceDeinit, Ceilings
<1>10. CASE UNCHANGED vars
  BY <1>10 DEF vars
<1>11. QED
  BY <1>1, <1>4, <1>5, <1>6, <1>7, <1>8, <1>9, <1>10 DEF Next, Testing

(* The settings, the flags and the state of the chip have their types.     *)
THEOREM TypeCorrect == Spec => []TypeOK
<1>1. Init => TypeOK
  <2>1. World \in Values /\ World >= 0
    BY ValuesAre DEF World
  <2>2. Defaults(1, World) \in Settings /\ Zero \in Settings
    BY <2>1, DefaultSettings
  <2>3. Init => onAir \in [set : [Guarded -> Values], ceil : Ceilings]
    BY GuardedType DEF Init, OnAirType
  <2>4. QED
    BY <2>2, <2>3 DEF Init, TypeOK, Ceilings, Tests
<1>2. TypeOK /\ [Next]_vars => TypeOK'
  BY TypeStep
<1>3. QED
  BY <1>1, <1>2, PTL DEF Spec

---------------------------------------------------------------------------
(* The tests on air.                                                       *)

(* A change of an unguarded field leaves the guarded ones.                 *)
LEMMA Unseen ==
  ASSUME set \in Settings, NEW f \in Unguarded, NEW v
  PROVE  GuardedOf([set EXCEPT ![f] = v]) = GuardedOf(set)
<1>1. set \in [Fields -> Values]
  BY SettingsMember
<1>2. \A g \in Guarded : g \in Fields /\ g # f
  BY DEF Guarded
<1>3. \A g \in Guarded : [set EXCEPT ![f] = v][g] = set[g]
  BY <1>1, <1>2
<1>4. QED
  BY <1>3 DEF GuardedOf

LEMMA SettingStep ==
  ASSUME TypeOK, AirInv, Setting PROVE AirInv'
<1> USE DEF TypeOK, flags, chip, AirInv, AloneInv, RunningIsKnown, StableInv
<1>1. CASE SetDefaults
  BY <1>1 DEF SetDefaults, NoTest, Tests
<1>2. ASSUME NEW f, NEW v, InRange(f, v), NoTest \/ f \in Unguarded, SetUnchecked(f, v)
      PROVE  AirInv'
  <2>1. CASE NoTest
    BY <1>2, <2>1 DEF SetUnchecked, NoTest
  <2>2. CASE f \in Unguarded
    <3>1. GuardedOf(set') = GuardedOf(set)
      BY <1>2, <2>2, Unseen DEF SetUnchecked
    <3>2. SameSettings => SameSettings'
      BY <1>2, <3>1 DEF SetUnchecked, SameSettings
    <3>3. QED
      BY <1>2, <3>2 DEF SetUnchecked
  <2>3. QED
    BY <1>2, <2>1, <2>2
<1>3. QED
  BY <1>1, <1>2, SettingKinds

(* Requests, failed or not, and measurements.                              *)
LEMMA TestingStep ==
  ASSUME TypeOK, AirInv,
         \/ TxStart \/ TxStop \/ RxStart \/ RxStop \/ ToneStart \/ ToneStop
         \/ RxCapture \/ OneShot \/ CompOptXo \/ SetXo
  PROVE  AirInv'
<1> USE DEF TypeOK, flags, chip, conf, AirInv, AloneInv, RunningIsKnown, StableInv, SameSettings
<1>1. CASE TxStart
  BY <1>1 DEF TxStart, Started, NoTest, Tests
<1>2. CASE TxStop
  BY <1>2 DEF TxStop, Stopped, Tests
<1>3. CASE RxStart
  BY <1>3 DEF RxStart, Started, NoTest, Tests
<1>4. CASE RxStop
  BY <1>4 DEF RxStop, Stopped, Tests
<1>5. CASE ToneStart
  <2>1. CASE UNCHANGED <<flags, chip, masked>>
    BY <1>5, <2>1 DEF ToneStart
  <2>2. CASE run' /\ test' = "tone" /\ masked' = FALSE /\ Started("tone")
    <3>1. air' = {"tone"}
      BY <1>5, <2>2 DEF ToneStart, Started, NoTest, Tests
    <3>2. SameSettings'
      BY <1>5, <2>2 DEF ToneStart, Started
    <3>3. QED
      BY <2>2, <3>1, <3>2
  <2>3. QED
    BY <1>5, <2>1, <2>2 DEF ToneStart
<1>6. CASE ToneStop
  BY <1>6 DEF ToneStop, Stopped, Tests
<1>7. CASE RxCapture \/ OneShot \/ CompOptXo \/ SetXo
  <2>1. CASE RxCapture \/ OneShot \/ CompOptXo
    BY <2>1 DEF RxCapture, OneShot, CompOptXo, FlagCleared
  <2>2. CASE SetXo
    <3>1. GuardedOf(set') = GuardedOf(set)
      BY <2>2, XoStored, Unseen DEF Unguarded
    <3>2. QED
      BY <2>2, <3>1 DEF SetXo, FlagCleared
  <2>3. QED
    BY <1>7, <2>1, <2>2
<1>8. QED
  BY <1>1, <1>2, <1>3, <1>4, <1>5, <1>6, <1>7

(* init, however far it gets.                                              *)
LEMMA InitStep ==
  ASSUME TypeOK, AirInv, NEW c \in Channels, NEW done \in 0..5, RadioTestInit(c, done)
  PROVE  AirInv'
<1> USE DEF TypeOK, flags, chip, conf, AirInv, AloneInv, RunningIsKnown, StableInv, SameSettings
<1>1. RunningIsKnown'
  <2>1. ("tx" \in air' => tx') /\ ("rx" \in air' => rx')
    BY DEF RadioTestInit, Stopping, Stopped
  <2>2. "tone" \in air' => run' \/ masked'
    BY DEF RadioTestInit, Stopping, Stopped
  <2>3. run' => test' = "tone"
    <3>1. CASE done < 3
      BY <3>1 DEF RadioTestInit
    <3>2. CASE ~(done < 3)
      BY <3>2 DEF RadioTestInit
    <3>3. QED
      BY <3>1, <3>2
  <2>4. QED
    BY <2>1, <2>2, <2>3
<1>2. AloneInv'
  BY DEF RadioTestInit, Stopping, Stopped, MayEndAt, Tests
<1>3. StableInv'
  <2>1. CASE done < 3
    BY <2>1 DEF RadioTestInit, Stopping, Stopped, MayEndAt, Tests
  <2>2. CASE ~(done < 3)
    <3>1. ~("tx" \in air') /\ ~("rx" \in air') /\ ~("tone" \in air' /\ ~masked')
      BY <2>2 DEF RadioTestInit, Stopping, Stopped, Tests
    <3>2. QED
      BY <3>1
  <2>3. QED
    BY <2>1, <2>2
<1>4. QED
  BY <1>1, <1>2, <1>3

LEMMA AirStep == ASSUME TypeOK, AirInv, [Next]_vars PROVE AirInv'
<1>1. CASE Setting
  BY <1>1, SettingStep
<1>2. CASE Testing
  BY <1>2, TestingStep, InitStep DEF Testing
<1>3. CASE DeviceInit \/ DeviceDeinit \/ UNCHANGED vars
  BY <1>3 DEF DeviceInit, DeviceDeinit, vars, conf, flags, chip, AirInv, AloneInv,
              RunningIsKnown, StableInv, SameSettings
<1>4. QED
  BY <1>1, <1>2, <1>3 DEF Next

LEMMA AirAlways == Spec => []AirInv
<1>1. Init => AirInv
  BY DEF Init, AirInv, AloneInv, RunningIsKnown, StableInv
<1>2. TypeOK /\ AirInv /\ [Next]_vars => AirInv'
  BY AirStep
<1>3. QED
  BY <1>1, <1>2, TypeCorrect, PTL DEF Spec

(* The flags know what the chip runs, whatever requests have failed.       *)
THEOREM FlagsKnow == Spec => []RunningIsKnown
<1>1. AirInv => RunningIsKnown
  BY DEF AirInv
<1>2. QED
  BY <1>1, AirAlways, PTL

(* As long as every tone is known, one test runs at a time.                *)
THEOREM OneAtATime == Spec => []OneTest
<1>1. ASSUME TypeOK, AirInv PROVE OneTest
  <2>1. SUFFICES ASSUME ~masked PROVE Cardinality(air) <= 1
    BY DEF OneTest
  <2>2. air = {} \/ \E t : air = {t}
    <3>1. air \subseteq {"tx", "rx", "tone"} /\ ~("tx" \in air /\ "rx" \in air)
          /\ ("tone" \in air => air = {"tone"})
      BY <1>1, <2>1 DEF TypeOK, AirInv, AloneInv, Tests
    <3>2. air = {} \/ air = {"tx"} \/ air = {"rx"} \/ air = {"tone"}
      BY <3>1
    <3>3. QED
      BY <3>2
  <2>3. Cardinality(air) = 0 \/ Cardinality(air) = 1
    BY <2>2, FS_EmptySet, FS_Singleton, Zenon
  <2>4. QED
    BY <2>3
<1>2. QED
  BY <1>1, TypeCorrect, AirAlways, PTL

(* As long as every tone is known, the settings that check_test_in_prog    *)
(* protects and the power ceilings are those of the test that runs.        *)
THEOREM SettingsAreThoseOnAir == Spec => []StableTransmission
<1>1. ASSUME TypeOK, AirInv PROVE StableTransmission
  BY <1>1 DEF TypeOK, AirInv, StableInv, SameSettings, StableTransmission, Tests
<1>2. QED
  BY <1>1, TypeCorrect, AirAlways, PTL

(* An init that succeeds stops all that is known to run and restores the   *)
(* defaults.                                                               *)
THEOREM InitAlwaysRecovers == Spec => InitRecovers
<1>1. ASSUME TypeOK, AirInv, NEW c \in Channels, RadioTestInit(c, 5)
      PROVE  /\ masked \/ air' = {}
             /\ ~(rx' \/ tx' \/ run') /\ set' = Defaults(c, Country(set))
  <2>1. ~(rx' \/ tx' \/ run') /\ set' = Defaults(c, Country(set))
    <3>1. ~(5 < 1) /\ ~(5 < 2) /\ ~(5 < 3) /\ 5 # 3
      OBVIOUS
    <3>2. /\ rx' = (rx /\ 5 < 1) /\ tx' = (tx /\ 5 < 2) /\ run' = (run /\ 5 < 3)
          /\ set' = IF 5 < 3 THEN set ELSE IF 5 = 3 THEN Zero ELSE Defaults(c, Country(set))
      BY <1>1, Zenon DEF RadioTestInit
    <3>3. ~rx' /\ ~tx' /\ ~run'
      BY <3>1, <3>2, Zenon
    <3>4. set' = Defaults(c, Country(set))
      BY <3>1, <3>2, Zenon
    <3>5. QED
      BY <3>3, <3>4
  <2>2. ASSUME ~masked PROVE air' = {}
    <3>1. air' = air \ Stopping(5)
      BY <1>1 DEF RadioTestInit, Stopped
    <3>2. air \subseteq Stopping(5)
      BY <1>1, <2>2 DEF TypeOK, AirInv, RunningIsKnown, Stopping, Tests
    <3>3. QED
      BY <3>1, <3>2
  <2>3. QED
    BY <2>1, <2>2 DEF TypeOK
<1>2. TypeOK /\ AirInv /\ [Next]_vars =>
        [\A c \in Channels :
           RadioTestInit(c, 5) => /\ masked \/ air' = {}
                                  /\ ~(rx' \/ tx' \/ run')
                                  /\ set' = Defaults(c, Country(set))]_vars
  BY <1>1
<1>3. QED
  BY <1>2, TypeCorrect, AirAlways, PTL DEF Spec, InitRecovers
=============================================================================
