---------------------------- MODULE DeviceProofs ----------------------------
(* The bring-up and removal of the device, for any number of HAL contexts, *)
(* work items and events, and with either coexistence configuration.       *)
EXTENDS Device, TLAPS

---------------------------------------------------------------------------
(* The calls of the GPIO driver.                                           *)

Out(s, p, v) == [s EXCEPT ![p].out = v]
Lev(s, p, v) == [s EXCEPT ![p].level = v]

(* Outcome o of a call on pin p that makes s into t.                       *)
CallOutcome(o, s, t, p) ==
  \/ o.pins = t /\ o.failed = "none" /\ o.clean = TRUE
  \/ o.pins = s /\ o.failed = p /\ o.clean = TRUE

LEMMA ConfigureIs ==
  ASSUME NEW s, NEW p, NEW v, NEW o \in Configure(s, p, v)
  PROVE  CallOutcome(o, s, Out(s, p, v), p)
  BY DEF Configure, Ok, Err, CallOutcome, Out

LEMMA SetLevelIs ==
  ASSUME NEW s, NEW p, NEW v, NEW o \in SetLevel(s, p, v)
  PROVE  CallOutcome(o, s, Lev(s, p, v), p)
  BY DEF SetLevel, Ok, Err, CallOutcome, Lev

---------------------------------------------------------------------------
(* The functions of the platform layer, as their paths.                    *)

LEMMA GpioConfigIs ==
  ASSUME NEW s, NEW o \in GpioConfig(s)
  PROVE  LET a == Out(s, "bucken", TRUE)
         IN  \/ o.pins = Out(a, "iovdd", TRUE) /\ o.failed = "none" /\ o.clean = TRUE
             \/ o.pins = s /\ o.failed = "bucken" /\ o.clean = TRUE
             \/ o.pins = Out(a, "bucken", FALSE) /\ o.failed = "iovdd" /\ o.clean = TRUE
             \/ o.pins = a /\ o.failed = "iovdd" /\ o.clean = FALSE
<1> DEFINE Iovdd(a) == OnFailure(Configure(a, "iovdd", TRUE), LAMBDA b : Configure(b, "bucken", FALSE))
<1>1. PICK x \in Configure(s, "bucken", TRUE) :
        IF IsOk(x) THEN o \in Iovdd(x.pins) ELSE o = x
  BY DEF GpioConfig, OnSuccess
<1>2. CallOutcome(x, s, Out(s, "bucken", TRUE), "bucken")
  BY <1>1, ConfigureIs
<1>3. CASE ~IsOk(x)
  BY <1>1, <1>2, <1>3 DEF CallOutcome, IsOk
<1>4. CASE IsOk(x)
  <2> DEFINE a == x.pins
  <2>0. a = Out(s, "bucken", TRUE)
    BY <1>2, <1>4 DEF CallOutcome, IsOk
  <2>1. PICK b \in Configure(a, "iovdd", TRUE) :
          o \in IF IsOk(b) THEN {b}
               ELSE {[b EXCEPT !.pins = c.pins, !.clean = @ /\ IsOk(c)] :
                     c \in Configure(b.pins, "bucken", FALSE)}
    BY <1>1, <1>4, Zenon DEF OnFailure
  <2>2. CallOutcome(b, a, Out(a, "iovdd", TRUE), "iovdd")
    BY <2>1, ConfigureIs
  <2>3. CASE IsOk(b)
    BY <2>0, <2>1, <2>2, <2>3 DEF IsOk, CallOutcome
  <2>4. CASE ~IsOk(b)
    <3>1. PICK c \in Configure(b.pins, "bucken", FALSE) :
                 o = [b EXCEPT !.pins = c.pins, !.clean = @ /\ IsOk(c)]
      BY <2>1, <2>4, Zenon
    <3>5. b \in {Ok([a EXCEPT !["iovdd"].out = TRUE]), Err(a, "iovdd")}
      BY <2>1 DEF Configure
    <3>2. o.pins = c.pins /\ o.failed = b.failed /\ o.clean = (c.failed = "none")
      BY <3>1, <3>5 DEF Ok, Err, IsOk
    <3>3. b.pins = a /\ b.failed = "iovdd"
      BY <2>2, <2>4 DEF CallOutcome, IsOk
    <3>4. CallOutcome(c, a, Out(a, "bucken", FALSE), "bucken")
      BY <3>1, <3>3, ConfigureIs
    <3> QED
      BY <2>0, <3>2, <3>3, <3>4 DEF CallOutcome
  <2> QED
    BY <2>3, <2>4
<1> QED
  BY <1>3, <1>4

LEMMA PwrOnIs ==
  ASSUME NEW s, NEW o \in PwrOn(s)
  PROVE  LET a == Lev(s, "bucken", TRUE)
         IN  \/ o.pins = Lev(a, "iovdd", TRUE) /\ o.failed = "none" /\ o.clean = TRUE
             \/ o.pins = s /\ o.failed = "bucken" /\ o.clean = TRUE
             \/ o.pins = Lev(a, "bucken", FALSE) /\ o.failed = "iovdd" /\ o.clean = TRUE
             \/ o.pins = a /\ o.failed = "iovdd" /\ o.clean = FALSE
<1> DEFINE Iovdd(a) == OnFailure(SetLevel(a, "iovdd", TRUE), LAMBDA b : SetLevel(b, "bucken", FALSE))
<1>1. PICK x \in SetLevel(s, "bucken", TRUE) :
        IF IsOk(x) THEN o \in Iovdd(x.pins) ELSE o = x
  BY DEF PwrOn, OnSuccess
<1>2. CallOutcome(x, s, Lev(s, "bucken", TRUE), "bucken")
  BY <1>1, SetLevelIs
<1>3. CASE ~IsOk(x)
  BY <1>1, <1>2, <1>3 DEF CallOutcome, IsOk
<1>4. CASE IsOk(x)
  <2> DEFINE a == x.pins
  <2>0. a = Lev(s, "bucken", TRUE)
    BY <1>2, <1>4 DEF CallOutcome, IsOk
  <2>1. PICK b \in SetLevel(a, "iovdd", TRUE) :
          o \in IF IsOk(b) THEN {b}
               ELSE {[b EXCEPT !.pins = c.pins, !.clean = @ /\ IsOk(c)] :
                     c \in SetLevel(b.pins, "bucken", FALSE)}
    BY <1>1, <1>4, Zenon DEF OnFailure
  <2>2. CallOutcome(b, a, Lev(a, "iovdd", TRUE), "iovdd")
    BY <2>1, SetLevelIs
  <2>3. CASE IsOk(b)
    BY <2>0, <2>1, <2>2, <2>3 DEF IsOk, CallOutcome
  <2>4. CASE ~IsOk(b)
    <3>1. PICK c \in SetLevel(b.pins, "bucken", FALSE) :
                 o = [b EXCEPT !.pins = c.pins, !.clean = @ /\ IsOk(c)]
      BY <2>1, <2>4, Zenon
    <3>5. b \in {Ok([a EXCEPT !["iovdd"].level = TRUE]), Err(a, "iovdd")}
      BY <2>1 DEF SetLevel
    <3>2. o.pins = c.pins /\ o.failed = b.failed /\ o.clean = (c.failed = "none")
      BY <3>1, <3>5 DEF Ok, Err, IsOk
    <3>3. b.pins = a /\ b.failed = "iovdd"
      BY <2>2, <2>4 DEF CallOutcome, IsOk
    <3>4. CallOutcome(c, a, Lev(a, "bucken", FALSE), "bucken")
      BY <3>1, <3>3, SetLevelIs
    <3> QED
      BY <2>0, <3>2, <3>3, <3>4 DEF CallOutcome
  <2> QED
    BY <2>3, <2>4
<1> QED
  BY <1>3, <1>4

LEMMA GpioRemoveIs ==
  ASSUME NEW s, NEW o \in GpioRemove(s)
  PROVE  LET a == Out(s, "bucken", FALSE)
         IN  \/ o.pins = Out(a, "iovdd", FALSE) /\ o.failed = "none"
             \/ o.pins \in {s, a} /\ o.failed \in {"bucken", "iovdd"}
<1>1. PICK x \in Configure(s, "bucken", FALSE) :
        IF IsOk(x) THEN o \in Configure(x.pins, "iovdd", FALSE) ELSE o = x
  BY DEF GpioRemove, OnSuccess
<1>2. CallOutcome(x, s, Out(s, "bucken", FALSE), "bucken")
  BY <1>1, ConfigureIs
<1>3. CASE ~IsOk(x)
  BY <1>1, <1>2, <1>3 DEF CallOutcome, IsOk
<1>4. CASE IsOk(x)
  <2>1. x.pins = Out(s, "bucken", FALSE)
    BY <1>2, <1>4 DEF CallOutcome, IsOk
  <2>2. CallOutcome(o, x.pins, Out(x.pins, "iovdd", FALSE), "iovdd")
    BY <1>1, <1>4, ConfigureIs
  <2> QED
    BY <2>1, <2>2 DEF CallOutcome
<1> QED
  BY <1>3, <1>4


LEMMA PwrOffIs ==
  ASSUME NEW s, NEW o \in PwrOff(s)
  PROVE  LET a == Lev(s, "bucken", FALSE)
         IN  \/ o.pins = Lev(a, "iovdd", FALSE) /\ o.failed = "none"
             \/ o.pins \in {s, a} /\ o.failed \in {"bucken", "iovdd"}
<1>1. PICK x \in SetLevel(s, "bucken", FALSE) :
        IF IsOk(x) THEN o \in SetLevel(x.pins, "iovdd", FALSE) ELSE o = x
  BY DEF PwrOff, OnSuccess
<1>2. CallOutcome(x, s, Lev(s, "bucken", FALSE), "bucken")
  BY <1>1, SetLevelIs
<1>3. CASE ~IsOk(x)
  BY <1>1, <1>2, <1>3 DEF CallOutcome, IsOk
<1>4. CASE IsOk(x)
  <2>1. x.pins = Lev(s, "bucken", FALSE)
    BY <1>2, <1>4 DEF CallOutcome, IsOk
  <2>2. CallOutcome(o, x.pins, Lev(x.pins, "iovdd", FALSE), "iovdd")
    BY <1>1, <1>4, SetLevelIs
  <2> QED
    BY <2>1, <2>2 DEF CallOutcome
<1> QED
  BY <1>3, <1>4

LEMMA SrIs ==
  ASSUME NEW s
  PROVE  /\ \A o \in SrConfig(s) :
              \/ o.pins = s /\ o.failed = "sr" /\ o.clean = TRUE
              \/ /\ o.pins = IF SrCoex THEN Out(s, "sr", TRUE) ELSE s
                 /\ o.failed = "none" /\ o.clean = TRUE
         /\ \A o \in SrRemove(s) :
              \/ o.pins = s /\ o.failed = "sr"
              \/ o.pins = (IF SrCoex THEN Out(s, "sr", FALSE) ELSE s) /\ o.failed = "none"
<1>1. CASE SrCoex
  <2>1. \A o \in SrConfig(s) : CallOutcome(o, s, Out(s, "sr", TRUE), "sr")
    BY <1>1, ConfigureIs DEF SrConfig
  <2>2. \A o \in SrRemove(s) : CallOutcome(o, s, Out(s, "sr", FALSE), "sr")
    BY <1>1, ConfigureIs DEF SrRemove
  <2> QED
    BY <1>1, <2>1, <2>2 DEF CallOutcome
<1>2. CASE ~SrCoex
  BY <1>2 DEF SrConfig, SrRemove, Ok
<1> QED
  BY <1>1, <1>2

---------------------------------------------------------------------------
(* What the functions do to supplies and pins.                             *)

Low(s)   == s["bucken"].level = FALSE /\ s["iovdd"].level = FALSE
SrOff(s) == SrCoex \/ s["sr"].out = FALSE

LEMMA GpioConfigEffect ==
  ASSUME NEW s \in PinStates, NEW o \in GpioConfig(s)
  PROVE  /\ o.pins \in PinStates
         /\ Low(s) => Low(o.pins)
         /\ o.pins["sr"].out = s["sr"].out
         /\ o.failed = "none" => o.pins["bucken"].out = TRUE /\ o.pins["iovdd"].out = TRUE
         /\ o.failed # "none" => /\ o.failed \in {"bucken", "iovdd"}
                                 /\ o.clean = TRUE /\ Released(s) => Released(o.pins)
<1> DEFINE a == Out(s, "bucken", TRUE)
<1> DEFINE c == Out(a, "iovdd", TRUE)
<1> DEFINE d == Out(a, "bucken", FALSE)
<1> HIDE DEF a, c, d
<1>2. /\ a \in PinStates /\ a["bucken"].out = TRUE /\ a["bucken"].level = s["bucken"].level
      /\ a["iovdd"] = s["iovdd"] /\ a["sr"] = s["sr"]
  BY DEF PinStates, Pins, Out, a
<1>3. /\ c \in PinStates /\ c["bucken"] = a["bucken"] /\ c["sr"] = a["sr"]
      /\ c["iovdd"].out = TRUE /\ c["iovdd"].level = a["iovdd"].level
  BY <1>2 DEF PinStates, Pins, Out, c
<1>4. /\ d \in PinStates /\ d["bucken"].out = FALSE /\ d["bucken"].level = a["bucken"].level
      /\ d["iovdd"] = a["iovdd"] /\ d["sr"] = a["sr"]
  BY <1>2 DEF PinStates, Pins, Out, d
<1>5. \/ o.pins = c /\ o.failed = "none" /\ o.clean = TRUE
      \/ o.pins = s /\ o.failed = "bucken" /\ o.clean = TRUE
      \/ o.pins = d /\ o.failed = "iovdd" /\ o.clean = TRUE
      \/ o.pins = a /\ o.failed = "iovdd" /\ o.clean = FALSE
  BY GpioConfigIs DEF a, c, d
<1> QED
  BY <1>2, <1>3, <1>4, <1>5 DEF Low, Released, Pins

LEMMA PwrOnEffect ==
  ASSUME NEW s \in PinStates, NEW o \in PwrOn(s)
  PROVE  /\ o.pins \in PinStates
         /\ o.pins["bucken"].out = s["bucken"].out /\ o.pins["iovdd"].out = s["iovdd"].out
         /\ o.pins["sr"].out = s["sr"].out
         /\ o.failed = "none" => o.pins["bucken"].level = TRUE /\ o.pins["iovdd"].level = TRUE
         /\ o.failed # "none" => /\ o.failed \in {"bucken", "iovdd"}
                                 /\ o.clean = TRUE /\ Low(s) => Low(o.pins)
<1> DEFINE a == Lev(s, "bucken", TRUE)
<1> DEFINE c == Lev(a, "iovdd", TRUE)
<1> DEFINE d == Lev(a, "bucken", FALSE)
<1> HIDE DEF a, c, d
<1>2. /\ a \in PinStates /\ a["bucken"].level = TRUE /\ a["bucken"].out = s["bucken"].out
      /\ a["iovdd"] = s["iovdd"] /\ a["sr"] = s["sr"]
  BY DEF PinStates, Pins, Lev, a
<1>3. /\ c \in PinStates /\ c["bucken"] = a["bucken"] /\ c["sr"] = a["sr"]
      /\ c["iovdd"].level = TRUE /\ c["iovdd"].out = a["iovdd"].out
  BY <1>2 DEF PinStates, Pins, Lev, c
<1>4. /\ d \in PinStates /\ d["bucken"].level = FALSE /\ d["bucken"].out = a["bucken"].out
      /\ d["iovdd"] = a["iovdd"] /\ d["sr"] = a["sr"]
  BY <1>2 DEF PinStates, Pins, Lev, d
<1>5. \/ o.pins = c /\ o.failed = "none" /\ o.clean = TRUE
      \/ o.pins = s /\ o.failed = "bucken" /\ o.clean = TRUE
      \/ o.pins = d /\ o.failed = "iovdd" /\ o.clean = TRUE
      \/ o.pins = a /\ o.failed = "iovdd" /\ o.clean = FALSE
  BY PwrOnIs DEF a, c, d
<1> QED
  BY <1>2, <1>3, <1>4, <1>5 DEF Low, Released, Pins

LEMMA GpioRemoveEffect ==
  ASSUME NEW s \in PinStates, NEW o \in GpioRemove(s)
  PROVE  /\ o.pins \in PinStates
         /\ Low(s) => Low(o.pins)
         /\ o.pins["sr"].out = s["sr"].out
         /\ o.failed = "none" => o.pins["bucken"].out = FALSE /\ o.pins["iovdd"].out = FALSE
<1> DEFINE a == Out(s, "bucken", FALSE)
<1> DEFINE c == Out(a, "iovdd", FALSE)
<1> HIDE DEF a, c
<1>1. /\ a \in PinStates /\ a["bucken"].out = FALSE /\ a["bucken"].level = s["bucken"].level
      /\ a["iovdd"] = s["iovdd"] /\ a["sr"] = s["sr"]
  BY DEF PinStates, Pins, Out, a
<1>2. /\ c \in PinStates /\ c["bucken"] = a["bucken"] /\ c["sr"] = a["sr"]
      /\ c["iovdd"].out = FALSE /\ c["iovdd"].level = a["iovdd"].level
  BY <1>1 DEF PinStates, Pins, Out, c
<1>3. \/ o.pins = c /\ o.failed = "none"
      \/ o.pins \in {s, a} /\ o.failed \in {"bucken", "iovdd"}
  BY GpioRemoveIs DEF a, c
<1> QED
  BY <1>1, <1>2, <1>3 DEF Low

LEMMA PwrOffEffect ==
  ASSUME NEW s \in PinStates, NEW o \in PwrOff(s)
  PROVE  /\ o.pins \in PinStates
         /\ o.pins["sr"].out = s["sr"].out
         /\ o.failed = "none" => Low(o.pins)
<1> DEFINE a == Lev(s, "bucken", FALSE)
<1> DEFINE c == Lev(a, "iovdd", FALSE)
<1> HIDE DEF a, c
<1>1. a \in PinStates /\ a["bucken"].level = FALSE /\ a["sr"].out = s["sr"].out
  BY DEF PinStates, Pins, Lev, a
<1>2. /\ c \in PinStates /\ c["bucken"] = a["bucken"] /\ c["iovdd"].level = FALSE
      /\ c["sr"].out = a["sr"].out
  BY <1>1 DEF PinStates, Pins, Lev, c
<1>3. \/ o.pins = c /\ o.failed = "none"
      \/ o.pins \in {s, a} /\ o.failed \in {"bucken", "iovdd"}
  BY PwrOffIs DEF a, c
<1> QED
  BY <1>1, <1>2, <1>3 DEF Low

LEMMA SrEffect ==
  ASSUME NEW s \in PinStates
  PROVE  /\ \A o \in SrConfig(s) :
              /\ o.pins \in PinStates
              /\ \A p \in {"bucken", "iovdd"} : o.pins[p] = s[p]
              /\ SrOff(s) => SrOff(o.pins)
              /\ o.failed \in {"none", "sr"}
         /\ \A o \in SrRemove(s) :
              /\ o.pins \in PinStates
              /\ \A p \in {"bucken", "iovdd"} : o.pins[p] = s[p]
              /\ SrOff(s) => SrOff(o.pins)
              /\ o.failed = "none" /\ SrOff(s) => o.pins["sr"].out = FALSE
<1> DEFINE a == Out(s, "sr", TRUE)
<1> DEFINE c == Out(s, "sr", FALSE)
<1> HIDE DEF a, c
<1>1. a \in PinStates /\ a["bucken"] = s["bucken"] /\ a["iovdd"] = s["iovdd"]
  BY DEF PinStates, Pins, Out, a
<1>2. /\ c \in PinStates /\ c["bucken"] = s["bucken"] /\ c["iovdd"] = s["iovdd"]
      /\ c["sr"].out = FALSE
  BY DEF PinStates, Pins, Out, c
<1>3. /\ \A o \in SrConfig(s) :
           \/ o.pins = s /\ o.failed = "sr"
           \/ o.pins = (IF SrCoex THEN a ELSE s) /\ o.failed = "none"
      /\ \A o \in SrRemove(s) :
           \/ o.pins = s /\ o.failed = "sr"
           \/ o.pins = (IF SrCoex THEN c ELSE s) /\ o.failed = "none"
  BY SrIs DEF a, c
<1> QED
  BY <1>1, <1>2, <1>3 DEF SrOff

(* The clean-up of rpu_init after PwrOn has failed.                        *)
LEMMA CleanUpEffect ==
  ASSUME NEW s \in PinStates, NEW u \in Always(GpioRemove(s), SrRemove)
  PROVE  /\ u.pins \in PinStates
         /\ Low(s) => Low(u.pins)
         /\ SrOff(s) => SrOff(u.pins)
         /\ u.failed = "none" /\ SrOff(s) => Released(u.pins)
<1>1. PICK g \in GpioRemove(s) :
        \E c \in SrRemove(g.pins) : u = IF IsOk(g) THEN c ELSE [g EXCEPT !.pins = c.pins]
  BY DEF Always
<1>2. PICK c \in SrRemove(g.pins) : u = IF IsOk(g) THEN c ELSE [g EXCEPT !.pins = c.pins]
  BY <1>1
<1>3. /\ g.pins \in PinStates /\ (Low(s) => Low(g.pins)) /\ g.pins["sr"].out = s["sr"].out
      /\ g.failed = "none" => g.pins["bucken"].out = FALSE /\ g.pins["iovdd"].out = FALSE
  BY GpioRemoveEffect
<1>4. /\ c.pins \in PinStates
      /\ c.pins["bucken"] = g.pins["bucken"] /\ c.pins["iovdd"] = g.pins["iovdd"]
      /\ SrOff(g.pins) => SrOff(c.pins)
      /\ c.failed = "none" /\ SrOff(g.pins) => c.pins["sr"].out = FALSE
  BY <1>2, <1>3, SrEffect
<1>5. u.pins = c.pins /\ (u.failed = "none" => g.failed = "none" /\ c.failed = "none")
  <2>1. CASE IsOk(g)
    BY <1>2, <2>1 DEF IsOk
  <2>2. CASE ~IsOk(g)
    <3>1. g.failed # "none" /\ g \in [pins : {g.pins}, failed : {g.failed}, clean : {g.clean}]
      BY <1>1, <2>2, ConfigureIs DEF IsOk, GpioRemove, OnSuccess, Configure, Ok, Err
    <3>2. u = [g EXCEPT !.pins = c.pins]
      BY <1>2, <2>2
    <3> QED
      BY <3>1, <3>2
  <2> QED
    BY <2>1, <2>2
<1> QED
  BY <1>3, <1>4, <1>5 DEF Low, SrOff, Released, Pins

(* The coexistence switch, removed when it could not be configured.        *)
LEMMA SwitchEffect ==
  ASSUME NEW s \in PinStates, NEW r \in OnFailure(SrConfig(s), SrRemove)
  PROVE  /\ r.pins \in PinStates
         /\ r.pins["bucken"] = s["bucken"] /\ r.pins["iovdd"] = s["iovdd"]
         /\ SrOff(s) => SrOff(r.pins)
         /\ r.failed \in {"none", "sr"}
<1>1. PICK x \in SrConfig(s) :
        r \in IF IsOk(x) THEN {x}
             ELSE {[x EXCEPT !.pins = c.pins, !.clean = @ /\ IsOk(c)] : c \in SrRemove(x.pins)}
  BY Zenon DEF OnFailure
<1>2. /\ x.pins \in PinStates
      /\ x.pins["bucken"] = s["bucken"] /\ x.pins["iovdd"] = s["iovdd"]
      /\ SrOff(s) => SrOff(x.pins)
      /\ x.failed \in {"none", "sr"}
  BY <1>1, SrEffect
<1>3. CASE IsOk(x)
  BY <1>1, <1>2, <1>3
<1>4. CASE ~IsOk(x)
  <2>1. PICK c \in SrRemove(x.pins) : r = [x EXCEPT !.pins = c.pins, !.clean = @ /\ IsOk(c)]
    BY <1>1, <1>4, Zenon
  <2>2. x \in {Ok(s), Ok([s EXCEPT !["sr"].out = TRUE]), Err(s, "sr")}
    BY <1>1 DEF SrConfig, Configure
  <2>3. r.pins = c.pins /\ r.failed = x.failed
    BY <2>1, <2>2 DEF Ok, Err
  <2>4. /\ c.pins \in PinStates
        /\ c.pins["bucken"] = x.pins["bucken"] /\ c.pins["iovdd"] = x.pins["iovdd"]
        /\ SrOff(x.pins) => SrOff(c.pins)
    BY <1>2, <2>1, SrEffect
  <2> QED
    BY <1>2, <2>3, <2>4
<1> QED
  BY <1>3, <1>4

Shape(o) == DOMAIN o = {"pins", "failed", "clean"}

LEMMA PwrOnShape ==
  ASSUME NEW s, NEW o \in PwrOn(s)
  PROVE  Shape(o)
<1>1. PICK x \in SetLevel(s, "bucken", TRUE) :
        IF IsOk(x) THEN o \in OnFailure(SetLevel(x.pins, "iovdd", TRUE), LAMBDA b : SetLevel(b, "bucken", FALSE))
                   ELSE o = x
  BY DEF PwrOn, OnSuccess
<1>2. CASE ~IsOk(x)
  <2>1. o \in {Ok([s EXCEPT !["bucken"].level = TRUE]), Err(s, "bucken")}
    BY <1>1, <1>2 DEF SetLevel
  <2> QED
    BY <2>1 DEF Ok, Err, Shape
<1>3. CASE IsOk(x)
  <2>1. PICK b \in SetLevel(x.pins, "iovdd", TRUE) :
          o \in IF IsOk(b) THEN {b}
               ELSE {[b EXCEPT !.pins = c.pins, !.clean = @ /\ IsOk(c)] :
                     c \in SetLevel(b.pins, "bucken", FALSE)}
    BY <1>1, <1>3, Zenon DEF OnFailure
  <2>2. b \in {Ok([x.pins EXCEPT !["iovdd"].level = TRUE]), Err(x.pins, "iovdd")}
    BY <2>1 DEF SetLevel
  <2>3. CASE IsOk(b)
    BY <2>1, <2>2, <2>3 DEF Ok, Err, Shape
  <2>4. CASE ~IsOk(b)
    <3>1. PICK c \in SetLevel(b.pins, "bucken", FALSE) :
            o = [b EXCEPT !.pins = c.pins, !.clean = @ /\ IsOk(c)]
      BY <2>1, <2>4, Zenon
    <3>2. Shape(b)
      BY <2>2 DEF Ok, Err, Shape
    <3> QED
      BY <3>1, <3>2 DEF Shape
  <2> QED
    BY <2>3, <2>4
<1> QED
  BY <1>2, <1>3

LEMMA RpuInitEffect ==
  ASSUME NEW s \in PinStates, NEW o \in RpuInit(s)
  PROVE  /\ o.pins \in PinStates
         /\ SrOff(s) => SrOff(o.pins)
         /\ IsOk(o) => ChipOn(o.pins)
         /\ ~IsOk(o) => /\ o.clean = TRUE /\ Low(s) => Low(o.pins)
                        /\ o.clean = TRUE /\ SrOff(s) /\ Released(s) /\ o.failed # "sr" =>
                             Released(o.pins)
<1> DEFINE CleanUp(c) == Always(GpioRemove(c), SrRemove)
           Supply(b)  == OnFailure(PwrOn(b), LAMBDA c : CleanUp(c))
           Rest(a)    == OnSuccess(OnFailure(SrConfig(a), SrRemove), LAMBDA b : Supply(b))
<1>1. PICK g \in GpioConfig(s) : IF IsOk(g) THEN o \in Rest(g.pins) ELSE o = g
  BY DEF RpuInit, OnSuccess
<1>2. /\ g.pins \in PinStates /\ (Low(s) => Low(g.pins))
      /\ IsOk(g) => /\ g.pins["bucken"].out = TRUE /\ g.pins["iovdd"].out = TRUE
                    /\ g.pins["sr"].out = s["sr"].out
      /\ ~IsOk(g) => /\ g.failed # "sr"
                     /\ g.clean = TRUE /\ Released(s) => Released(g.pins)
                     /\ g.pins["sr"].out = s["sr"].out
  <2>1. /\ g.pins \in PinStates
        /\ Low(s) => Low(g.pins)
        /\ g.pins["sr"].out = s["sr"].out
        /\ g.failed = "none" => g.pins["bucken"].out = TRUE /\ g.pins["iovdd"].out = TRUE
        /\ g.failed # "none" => /\ g.failed \in {"bucken", "iovdd"}
                                /\ g.clean = TRUE /\ Released(s) => Released(g.pins)
    BY <1>1, GpioConfigEffect
  <2>2. g.failed # "none" => g.failed # "sr"
    BY <2>1
  <2> QED
    BY <2>1, <2>2, Zenon DEF IsOk
<1>3. CASE ~IsOk(g)
  BY <1>1, <1>2, <1>3 DEF SrOff
<1>4. CASE IsOk(g)
  <2>1. PICK r \in OnFailure(SrConfig(g.pins), SrRemove) :
          IF IsOk(r) THEN o \in Supply(r.pins) ELSE o = r
    BY <1>1, <1>4 DEF OnSuccess
  <2>2. /\ r.pins \in PinStates /\ (Low(s) => Low(r.pins)) /\ (SrOff(s) => SrOff(r.pins))
        /\ r.pins["bucken"].out = TRUE /\ r.pins["iovdd"].out = TRUE
        /\ r.failed \in {"none", "sr"}
    BY <1>2, <1>4, <2>1, SwitchEffect DEF Low, SrOff
  <2>3. CASE ~IsOk(r)
    BY <2>1, <2>2, <2>3 DEF IsOk
  <2>4. CASE IsOk(r)
    <3>1. PICK w \in PwrOn(r.pins) :
            o \in IF IsOk(w) THEN {w}
                 ELSE {[w EXCEPT !.pins = u.pins, !.clean = @ /\ IsOk(u)] : u \in CleanUp(w.pins)}
      BY <2>1, <2>4, Zenon DEF OnFailure
    <3>2. /\ w.pins \in PinStates /\ (SrOff(s) => SrOff(w.pins))
          /\ w.pins["bucken"].out = TRUE /\ w.pins["iovdd"].out = TRUE
          /\ IsOk(w) => w.pins["bucken"].level = TRUE /\ w.pins["iovdd"].level = TRUE
          /\ ~IsOk(w) => (w.clean = TRUE /\ Low(s) => Low(w.pins))
      <4>1. /\ w.pins \in PinStates
            /\ w.pins["bucken"].out = r.pins["bucken"].out /\ w.pins["iovdd"].out = r.pins["iovdd"].out
            /\ w.pins["sr"].out = r.pins["sr"].out
            /\ w.failed = "none" => w.pins["bucken"].level = TRUE /\ w.pins["iovdd"].level = TRUE
            /\ w.failed # "none" => /\ w.failed \in {"bucken", "iovdd"}
                                    /\ w.clean = TRUE /\ Low(r.pins) => Low(w.pins)
        BY <2>2, <3>1, PwrOnEffect
      <4> QED
        BY <2>2, <4>1, Zenon DEF IsOk, SrOff, Low
    <3>3. CASE IsOk(w)
      BY <3>1, <3>2, <3>3 DEF ChipOn, Driven
    <3>4. CASE ~IsOk(w)
      <4>1. PICK u \in CleanUp(w.pins) : o = [w EXCEPT !.pins = u.pins, !.clean = @ /\ IsOk(u)]
        BY <3>1, <3>4, Zenon
      <4>2. /\ u.pins \in PinStates /\ (Low(w.pins) => Low(u.pins)) /\ (SrOff(w.pins) => SrOff(u.pins))
            /\ u.failed = "none" /\ SrOff(w.pins) => Released(u.pins)
        BY <3>2, <4>1, CleanUpEffect
      <4>4. Shape(w)
        BY <3>1, PwrOnShape
      <4>3. /\ o.pins = u.pins /\ o.failed = w.failed
            /\ o.clean = TRUE => w.clean = TRUE /\ u.failed = "none"
        BY <4>1, <4>4 DEF IsOk, Shape
      <4> QED
        BY <3>2, <3>4, <4>2, <4>3 DEF IsOk
    <3> QED
      BY <3>3, <3>4
  <2> QED
    BY <2>3, <2>4
<1> QED
  BY <1>3, <1>4

LEMMA RpuEnableEffect ==
  ASSUME NEW s \in PinStates, NEW o \in RpuEnable(s)
  PROVE  /\ o.pins \in PinStates
         /\ SrOff(s) => SrOff(o.pins)
         /\ IsOk(o) => o.pins = s
         /\ ~IsOk(o) => o.failed = "wake" /\ (o.clean = TRUE => Low(o.pins))
<1>1. PICK w \in {Ok(s), Err(s, "wake")} :
        o \in IF IsOk(w) THEN {w}
             ELSE {[w EXCEPT !.pins = u.pins, !.clean = @ /\ IsOk(u)] : u \in PwrOff(w.pins)}
  BY Zenon DEF RpuEnable, OnFailure
<1>2. CASE IsOk(w)
  <2>1. w = Ok(s)
    BY <1>1, <1>2 DEF Err, IsOk
  <2> QED
    BY <1>1, <1>2, <2>1 DEF Ok, IsOk
<1>3. CASE ~IsOk(w)
  <2>1. PICK u \in PwrOff(w.pins) : o = [w EXCEPT !.pins = u.pins, !.clean = @ /\ IsOk(u)]
    BY <1>1, <1>3, Zenon
  <2>0. IsOk(Ok(s))
    BY DEF Ok, IsOk
  <2>2. w = Err(s, "wake")
    BY <1>1, <1>3, <2>0
  <2>3. o.pins = u.pins /\ o.failed = "wake" /\ (o.clean = TRUE => u.failed = "none")
    BY <2>1, <2>2 DEF Err, IsOk
  <2>4. /\ u.pins \in PinStates
        /\ u.pins["sr"].out = s["sr"].out
        /\ u.failed = "none" => Low(u.pins)
    <3>1. w.pins = s
      BY <2>2 DEF Err
    <3> QED
      BY <2>1, <3>1, PwrOffEffect
  <2> QED
    BY <2>3, <2>4 DEF IsOk, SrOff
<1> QED
  BY <1>2, <1>3

LEMMA RpuDisableEffect ==
  ASSUME NEW s \in PinStates, NEW o \in RpuDisable(s)
  PROVE  /\ o.pins \in PinStates
         /\ SrOff(s) => SrOff(o.pins)
         /\ IsOk(o) /\ SrOff(s) => Low(o.pins) /\ Released(o.pins)
<1>1. PICK a \in PwrOff(s) :
        IF IsOk(a) THEN o \in OnSuccess(GpioRemove(a.pins), SrRemove) ELSE o = a
  BY DEF RpuDisable, OnSuccess
<1>2. /\ a.pins \in PinStates
      /\ a.pins["sr"].out = s["sr"].out
      /\ a.failed = "none" => Low(a.pins)
  BY <1>1, PwrOffEffect
<1>3. CASE ~IsOk(a)
  BY <1>1, <1>2, <1>3 DEF SrOff
<1>4. CASE IsOk(a)
  <2>1. PICK g \in GpioRemove(a.pins) : IF IsOk(g) THEN o \in SrRemove(g.pins) ELSE o = g
    BY <1>1, <1>4 DEF OnSuccess
  <2>2. /\ g.pins \in PinStates
        /\ Low(a.pins) => Low(g.pins)
        /\ g.pins["sr"].out = a.pins["sr"].out
        /\ g.failed = "none" => g.pins["bucken"].out = FALSE /\ g.pins["iovdd"].out = FALSE
    BY <1>2, <2>1, GpioRemoveEffect
  <2>3. CASE ~IsOk(g)
    BY <1>2, <2>1, <2>2, <2>3 DEF SrOff
  <2>4. CASE IsOk(g)
    <3>1. /\ o.pins \in PinStates
          /\ o.pins["bucken"] = g.pins["bucken"] /\ o.pins["iovdd"] = g.pins["iovdd"]
          /\ SrOff(g.pins) => SrOff(o.pins)
          /\ o.failed = "none" /\ SrOff(g.pins) => o.pins["sr"].out = FALSE
      BY <2>1, <2>2, <2>4, SrEffect
    <3> QED
      BY <1>2, <1>4, <2>2, <2>4, <3>1 DEF IsOk, SrOff, Low, Released, Pins
  <2> QED
    BY <2>3, <2>4
<1> QED
  BY <1>3, <1>4

---------------------------------------------------------------------------
(* The supplies.                                                           *)

(* Without the device, what is wrong with the pins has its reason.         *)
Unsupplied(s, r) ==
  /\ r \cap {"bus", "undo"} = {} => Low(s)
  /\ r = {} => Released(s)

PinInv ==
  /\ pins \in PinStates /\ SrOff(pins)
  /\ pc \in PCs
  /\ pc \in {"down", "tasklet", "undo"} => Unsupplied(pins, residue)
  /\ pc \in {"added", "up", "removing"} => ChipOn(pins)

LEMMA AllOffIs ==
  /\ AllOff \in PinStates /\ Low(AllOff) /\ Released(AllOff) /\ SrOff(AllOff)
  BY DEF AllOff, PinStates, Low, Released, SrOff, Pins

LEMMA ReasonsGiven ==
  ASSUME NEW s, NEW r, PinsNow(s, r),
         Unsupplied(pins, residue),
         r \cap {"bus", "undo"} = {} /\ Low(pins) => Low(s),
         r = {} /\ Low(pins) /\ Released(pins) => Released(s)
  PROVE  Unsupplied(s, residue')
<1>1. CASE s = AllOff
  BY <1>1, AllOffIs DEF Unsupplied
<1>2. CASE s # AllOff
  <2>1. residue' = residue \cup r
    BY <1>2 DEF PinsNow
  <2>2. residue' \cap {"bus", "undo"} = {} =>
          residue \cap {"bus", "undo"} = {} /\ r \cap {"bus", "undo"} = {}
    BY <2>1
  <2>3. residue' = {} => residue = {} /\ r = {}
    BY <2>1
  <2>4. residue = {} => residue \cap {"bus", "undo"} = {}
    OBVIOUS
  <2> QED
    BY <2>2, <2>3, <2>4 DEF Unsupplied
<1> QED
  BY <1>1, <1>2

LEMMA DevAddFailsKept ==
  ASSUME PinInv, pc = "tasklet", DevAddFails
  PROVE  pins' \in PinStates /\ SrOff(pins') /\ Unsupplied(pins', residue')
<1>0. pins \in PinStates /\ SrOff(pins) /\ Unsupplied(pins, residue)
  BY DEF PinInv
<1>1. PICK o \in RpuInit(pins) :
        \/ ~IsOk(o) /\ PinsNow(o.pins, Reason(o))
        \/ IsOk(o) /\ PinsNow(o.pins, {"bus"})
        \/ IsOk(o) /\ \E e \in RpuEnable(o.pins) : ~IsOk(e) /\ PinsNow(e.pins, Reason(e))
  BY DEF DevAddFails
<1>2. /\ o.pins \in PinStates /\ SrOff(o.pins)
      /\ ~IsOk(o) => /\ o.clean = TRUE /\ Low(pins) => Low(o.pins)
                     /\ o.clean = TRUE /\ Released(pins) /\ o.failed # "sr" =>
                          Released(o.pins)
  BY <1>0, <1>1, RpuInitEffect
<1>3. CASE ~IsOk(o) /\ PinsNow(o.pins, Reason(o))
  <2>1. "undo" \notin Reason(o) => o.clean = TRUE
    BY DEF Reason
  <2>2. "sr" \notin Reason(o) => o.failed # "sr"
    BY DEF Reason
  <2>3. Unsupplied(o.pins, residue')
    BY <1>0, <1>2, <1>3, <2>1, <2>2, ReasonsGiven
  <2> QED
    BY <1>2, <1>3, <2>3 DEF PinsNow
<1>4. CASE IsOk(o) /\ PinsNow(o.pins, {"bus"})
  <2>1. Unsupplied(o.pins, residue')
    BY <1>0, <1>4, ReasonsGiven
  <2> QED
    BY <1>2, <1>4, <2>1 DEF PinsNow
<1>5. CASE IsOk(o) /\ \E e \in RpuEnable(o.pins) : ~IsOk(e) /\ PinsNow(e.pins, Reason(e))
  <2>1. PICK e \in RpuEnable(o.pins) : ~IsOk(e) /\ PinsNow(e.pins, Reason(e))
    BY <1>5
  <2>2. /\ e.pins \in PinStates /\ SrOff(e.pins)
        /\ e.failed = "wake" /\ (e.clean = TRUE => Low(e.pins))
    BY <1>2, <2>1, RpuEnableEffect
  <2>3. "undo" \notin Reason(e) => e.clean = TRUE
    BY DEF Reason
  <2>4. "wake" \in Reason(e)
    BY <2>2 DEF Reason
  <2>5. Unsupplied(e.pins, residue')
    BY <1>0, <2>1, <2>2, <2>3, <2>4, ReasonsGiven
  <2> QED
    BY <2>1, <2>2, <2>5 DEF PinsNow
<1> QED
  BY <1>1, <1>3, <1>4, <1>5

LEMMA DevAddSucceedsKept ==
  ASSUME PinInv, pc = "tasklet", DevAddSucceeds
  PROVE  pins' \in PinStates /\ SrOff(pins') /\ ChipOn(pins')
<1>1. PICK o \in RpuInit(pins) :
        \E e \in RpuEnable(o.pins) : IsOk(o) /\ IsOk(e) /\ pins' = e.pins
  BY DEF DevAddSucceeds
<1>2. PICK e \in RpuEnable(o.pins) : IsOk(o) /\ IsOk(e) /\ pins' = e.pins
  BY <1>1
<1>3. o.pins \in PinStates /\ SrOff(o.pins) /\ ChipOn(o.pins)
  BY <1>1, <1>2, RpuInitEffect DEF PinInv
<1>4. e.pins = o.pins
  BY <1>2, <1>3, RpuEnableEffect
<1> QED
  BY <1>2, <1>3, <1>4

LEMMA DevRemKept ==
  ASSUME PinInv, DevRem
  PROVE  pins' \in PinStates /\ SrOff(pins') /\ Unsupplied(pins', residue')
<1>0. pins \in PinStates /\ SrOff(pins)
  BY DEF PinInv
<1>1. PICK o \in RpuDisable(pins) : PinsNow(o.pins, IF IsOk(o) THEN {} ELSE {"undo"})
  BY DEF DevRem
<1>2. /\ o.pins \in PinStates /\ SrOff(o.pins)
      /\ IsOk(o) => Low(o.pins) /\ Released(o.pins)
  BY <1>0, <1>1, RpuDisableEffect
<1>3. pins' = o.pins
  BY <1>1 DEF PinsNow
<1>4. CASE IsOk(o)
  BY <1>2, <1>3, <1>4 DEF Unsupplied
<1>5. CASE ~IsOk(o)
  <2>1. CASE o.pins = AllOff
    BY <1>2, <1>3, <2>1, AllOffIs DEF Unsupplied
  <2>2. CASE o.pins # AllOff
    <3>1. "undo" \in residue'
      BY <1>1, <1>5, <2>2 DEF PinsNow
    <3> QED
      BY <1>2, <1>3, <3>1 DEF Unsupplied
  <2> QED
    BY <2>1, <2>2
<1> QED
  BY <1>2, <1>3, <1>4, <1>5

LEMMA PinsStart == Init => PinInv
  BY AllOffIs DEF Init, PinInv, PCs, Unsupplied

LEMMA PinsKept == PinInv /\ [Next]_vars => PinInv'
<1> SUFFICES ASSUME PinInv, [Next]_vars PROVE PinInv'
  OBVIOUS
<1> USE DEF PinInv, PCs
<1>1. CASE HalAdd
  BY <1>1 DEF HalAdd, hwVars
<1>2. CASE DevAdd
  <2>1. CASE DevAddFails /\ pc' = "undo"
    <3>1. pc = "tasklet"
      BY <1>2 DEF DevAdd
    <3> QED
      BY <2>1, <3>1, DevAddFailsKept
  <2>2. CASE DevAddSucceeds /\ pc' = "added"
    <3>1. pc = "tasklet"
      BY <1>2 DEF DevAdd
    <3> QED
      BY <2>2, <3>1, DevAddSucceedsKept
  <2> QED
    BY <1>2, <2>1, <2>2 DEF DevAdd
<1>3. CASE IntrReg
  BY <1>3 DEF IntrReg, hwVars
<1>4. CASE RemoveCall
  BY <1>4 DEF RemoveCall, hwVars
<1>5. CASE IrqRemove
  BY <1>5 DEF IrqRemove, hwVars
<1>6. CASE IrqCanceled
  BY <1>6 DEF IrqCanceled, hwVars
<1>7. CASE TaskletKill
  BY <1>7 DEF TaskletKill, hwVars
<1>8. CASE TaskletFree
  BY <1>8 DEF TaskletFree, hwVars
<1>9. CASE DevRem
  <2>1. pc' = "undo"
    BY <1>9 DEF DevRem
  <2> QED
    BY <1>9, <2>1, DevRemKept
<1>10. CASE HalFree
  BY <1>10 DEF HalFree, hwVars
<1>11. CASE \/ ChipEvent \/ IrqWorkBegin \/ IrqWorkFetch \/ IrqWorkEnd
            \/ TaskletBegin \/ TaskletEvent \/ TaskletEmpty \/ TaskletEnd
  BY <1>11 DEF ChipEvent, IrqWorkBegin, IrqWorkFetch, IrqWorkEnd, TaskletBegin,
               TaskletEvent, TaskletEmpty, TaskletEnd, hwVars
<1>12. CASE UNCHANGED vars
  BY <1>12 DEF vars, hwVars
<1> QED
  BY <1>1, <1>2, <1>3, <1>4, <1>5, <1>6, <1>7, <1>8, <1>9, <1>10, <1>11, <1>12 DEF Next

LEMMA PinsAlways == Spec => []PinInv
  BY PinsStart, PinsKept, PTL DEF Spec

(* Whatever fails during a bring-up or a removal, a device that is not     *)
(* there is without supply, but for a failed bus or a failed undoing.      *)
THEOREM SuppliesGoOff == Spec => []SuppliesOff
<1>1. PinInv => SuppliesOff
  BY DEF PinInv, SuppliesOff, Unsupplied, Low, Supplied, Driven
<1> QED
  BY <1>1, PinsAlways, PTL

(* And its pins are disconnected, but for the named exceptions.            *)
THEOREM PinsAreReleased == Spec => []PinsReleased
<1>1. PinInv => PinsReleased
  BY DEF PinInv, PinsReleased, Unsupplied
<1> QED
  BY <1>1, PinsAlways, PTL

---------------------------------------------------------------------------
(* The interrupt.  What the registration stands at tells who may hold the  *)
(* context; the order of bring-up and removal ties it to the HAL context.  *)

HalStands == IF pc = "down" THEN hal = 0 ELSE hal # 0

Registration ==
  irqReg \in CASE pc \in {"down", "tasklet", "added"} -> {"none"}
               [] pc = "up"                           -> {"reg"}
               [] pc = "removing"                     -> {"reg", "cancel", "done"}
               [] pc = "undo"                         -> {"none", "done"}

(* intr_priv, the contexts allocated and the work in progress.             *)
Held ==
  IF irqReg \in {"reg", "cancel"}
    THEN intrPriv = hal /\ alive = {hal} /\ irqRunning \in {0, hal}
    ELSE intrPriv = 0 /\ alive = {} /\ irqRunning = 0

(* The list of the GPIO driver and the queue.                              *)
Reaching ==
  IF irqReg = "reg" THEN listed = {hal} /\ irqQueued \subseteq {hal}
                    ELSE listed = {} /\ irqQueued = {}

IrqInv ==
  /\ pc \in PCs /\ HalStands /\ Registration
  /\ removalFailed \/ (Held /\ Reaching /\ irqData = irqRunning)

LEMMA IrqStart == Init => IrqInv
  BY DEF Init, IrqInv, PCs, HalStands, Registration, Held, Reaching

LEMMA IrqKept == IrqInv /\ [Next]_vars => IrqInv'
<1> SUFFICES ASSUME IrqInv, [Next]_vars PROVE IrqInv'
  OBVIOUS
<1>0. 0 \notin Gens
  BY DeviceAssumption
<1> USE DEF IrqInv, PCs, HalStands, Registration, Held, Reaching
<1>1. CASE HalAdd
  BY <1>0, <1>1 DEF HalAdd, irqVars
<1>2. CASE DevAdd
  BY <1>2 DEF DevAdd, irqVars, halVars
<1>3. CASE IntrReg
  <2>1. irqReg = "none" /\ pc = "added"
    BY <1>3 DEF IntrReg
  <2>2. CASE /\ intrPriv' = hal /\ irqReg' = "reg" /\ pinIrq' = TRUE
             /\ alive' = alive \cup {hal} /\ listed' = listed \cup {hal}
             /\ pc' = "up"
    BY <1>3, <2>1, <2>2 DEF IntrReg, halVars
  <2>3. CASE /\ intrPriv' = 0 /\ irqReg' = "done" /\ pinIrq' \in {pinIrq, TRUE}
             /\ pc' = "removing"
             /\ UNCHANGED <<alive, listed>>
    BY <1>3, <2>1, <2>3 DEF IntrReg, halVars
  <2> QED
    BY <1>3, <2>2, <2>3 DEF IntrReg
<1>4. CASE RemoveCall
  BY <1>4 DEF RemoveCall, irqVars, halVars
<1>5. CASE IrqRemove
  BY <1>5 DEF IrqRemove, halVars
<1>6. CASE IrqCanceled
  BY <1>6 DEF IrqCanceled, halVars
<1>7. CASE TaskletKill
  BY <1>7 DEF TaskletKill, irqVars
<1>8. CASE TaskletFree
  BY <1>8 DEF TaskletFree, irqVars
<1>9. CASE DevRem
  BY <1>9 DEF DevRem, irqVars, halVars
<1>10. CASE HalFree
  BY <1>10 DEF HalFree
<1>11. CASE ChipEvent
  BY <1>11 DEF ChipEvent, halVars, IrqHandler
<1>12. CASE IrqWorkBegin
  BY <1>12 DEF IrqWorkBegin, halVars
<1>13. CASE IrqWorkFetch
  BY <1>13 DEF IrqWorkFetch
<1>14. CASE IrqWorkEnd
  BY <1>14 DEF IrqWorkEnd, halVars
<1>15. CASE TaskletBegin \/ TaskletEvent \/ TaskletEmpty \/ TaskletEnd
  BY <1>15 DEF TaskletBegin, TaskletEvent, TaskletEmpty, TaskletEnd, irqVars, halVars
<1>16. CASE UNCHANGED vars
  BY <1>16 DEF vars, irqVars, halVars
<1> QED
  BY <1>1, <1>2, <1>3, <1>4, <1>5, <1>6, <1>7, <1>8, <1>9, <1>10, <1>11, <1>12, <1>13,
     <1>14, <1>15, <1>16 DEF Next

LEMMA IrqAlways == Spec => []IrqInv
  BY IrqStart, IrqKept, PTL DEF Spec

(* Whoever may still look at an interrupt context finds it allocated: the  *)
(* list, the queue and the work in progress, through every bring-up and    *)
(* removal in which rpu_irq_remove does not fail.                          *)
THEOREM ContextsStayReachable == Spec => []ContextReachable
<1>1. IrqInv => ContextReachable
  <2> SUFFICES ASSUME IrqInv, ~removalFailed
               PROVE  LET reach == listed \cup irqQueued \cup ({irqRunning} \ {0})
                      IN  reach \subseteq alive /\ (reach # {} => intrPriv # 0)
    BY DEF ContextReachable
  <2>1. CASE irqReg \in {"reg", "cancel"}
    <3>1. pc # "down"
      BY <2>1 DEF IrqInv, Registration
    <3> QED
      BY <2>1, <3>1 DEF IrqInv, Held, Reaching, HalStands
  <2>2. CASE irqReg \notin {"reg", "cancel"}
    BY <2>2 DEF IrqInv, Held, Reaching
  <2> QED
    BY <2>1, <2>2
<1> QED
  BY <1>1, IrqAlways, PTL

(* The interrupt work never meets a device that is gone or unsupplied.     *)
THEOREM InterruptsFindDevice == Spec => []InterruptOnLiveDevice
<1>1. IrqInv /\ PinInv => InterruptOnLiveDevice
  <2> SUFFICES ASSUME IrqInv, PinInv, ~removalFailed, irqRunning # 0
               PROVE  irqData = hal /\ ChipOn(pins)
    BY DEF InterruptOnLiveDevice
  <2>1. irqReg \in {"reg", "cancel"} /\ irqRunning = hal /\ irqData = hal
    BY DEF IrqInv, Held
  <2>2. pc \in {"up", "removing"}
    BY <2>1 DEF IrqInv, Registration, PCs
  <2> QED
    BY <2>1, <2>2 DEF PinInv
<1> QED
  BY <1>1, IrqAlways, PinsAlways, PTL

---------------------------------------------------------------------------
(* The work item.                                                          *)

Owner == CASE pc = "down"                    -> tl = NoItem /\ tlState = "none"
           [] pc \in {"tasklet", "added", "up"} -> tl \in Items /\ tlState = "owned"
           [] pc \in {"removing", "undo"}    ->
                tl \in Items /\ tlState \in {"owned", "killed", "freed"}

PoolInv ==
  /\ pc \in PCs /\ Owner
  /\ inUse = [i \in Items |-> i = tl /\ tlState \in {"owned", "killed"}]

LEMMA PoolStart == Init => PoolInv
  BY PoolAssumption DEF Init, PoolInit, PoolInv, PCs, Owner, Items

LEMMA PoolKept == PoolInv /\ [Next]_vars => PoolInv'
<1> SUFFICES ASSUME PoolInv, [Next]_vars PROVE PoolInv'
  OBVIOUS
<1> USE DEF PoolInv, PCs, Owner
<1>1. CASE HalAdd
  BY <1>1 DEF HalAdd, WorkAlloc
<1>2. CASE DevAdd
  BY <1>2 DEF DevAdd, poolVars, halVars
<1>3. CASE IntrReg
  BY <1>3 DEF IntrReg, poolVars, halVars
<1>4. CASE RemoveCall
  BY <1>4 DEF RemoveCall, poolVars, halVars
<1>5. CASE IrqRemove \/ IrqCanceled
  BY <1>5 DEF IrqRemove, IrqCanceled, poolVars, halVars
<1>7. CASE TaskletKill
  BY <1>7 DEF TaskletKill, Leaving, WorkKill
<1>8. CASE TaskletFree
  BY <1>8 DEF TaskletFree, Leaving, WorkFree
<1>9. CASE DevRem
  BY <1>9 DEF DevRem, poolVars, halVars
<1>10. CASE HalFree
  BY <1>10, PoolAssumption DEF HalFree, poolVars, Items
<1>11. CASE ChipEvent \/ IrqWorkBegin \/ IrqWorkEnd \/ TaskletEvent \/ TaskletEmpty
  BY <1>11 DEF ChipEvent, IrqWorkBegin, IrqWorkEnd, TaskletEvent, TaskletEmpty, poolVars, halVars
<1>12. CASE IrqWorkFetch
  BY <1>12 DEF IrqWorkFetch, WorkSchedule, poolVars
<1>13. CASE TaskletBegin \/ TaskletEnd
  BY <1>13 DEF TaskletBegin, TaskletEnd, RunBegin, RunEnd, halVars
<1>14. CASE UNCHANGED vars
  BY <1>14 DEF vars, poolVars, halVars
<1> QED
  BY <1>1, <1>2, <1>3, <1>4, <1>5, <1>7, <1>8, <1>9, <1>10, <1>11, <1>12, <1>13, <1>14 DEF Next

LEMMA PoolAlways == Spec => []PoolInv
  BY PoolStart, PoolKept, PTL DEF Spec

(* A device that is gone has given everything back.                        *)
THEOREM EverythingGivenBack == Spec => []NothingLeaks
<1>1. IrqInv /\ PoolInv => NothingLeaks
  <2> SUFFICES ASSUME IrqInv, PoolInv, pc = "down"
               PROVE  /\ \A i \in Items : ~inUse[i]
                      /\ removalFailed \/ (alive = {} /\ listed = {} /\ intrPriv = 0)
    BY DEF NothingLeaks
  <2>1. \A i \in Items : ~inUse[i]
    BY DEF PoolInv, Owner
  <2>2. irqReg = "none"
    BY DEF IrqInv, Registration
  <2> QED
    BY <2>1, <2>2 DEF IrqInv, Held, Reaching
<1> QED
  BY <1>1, IrqAlways, PoolAlways, PTL

---------------------------------------------------------------------------
(* The tasklet.  A HAL context is new to the interrupt until it registers: *)
(* so what the interrupt schedules belongs to a registered device.         *)

Unregistered == pc \in {"tasklet", "added"} \/ (pc = "undo" /\ tlState = "owned")

NewToIrq ==
  /\ intrPriv \in alive \cup {0}
  /\ Unregistered => intrPriv # hal /\ irqData # hal

(* Types; the events the chip holds and those fetched share one bound.     *)
ItemTypes ==
  /\ type \in [Items -> Types] /\ data \in [Items -> Contexts]
  /\ bhQueue \in Seq(Items) /\ running \in Items \cup {NoItem} /\ runData \in Contexts

IrqTypes ==
  /\ hal \in Contexts /\ intrPriv \in Contexts /\ irqRunning \in Contexts
  /\ irqData \in Contexts
  /\ alive \subseteq Gens /\ listed \subseteq Gens /\ irqQueued \subseteq Gens
  /\ pinIrq \in BOOLEAN /\ irqReg \in {"none", "reg", "cancel", "done"}
  /\ fetched \in BOOLEAN /\ removalFailed \in BOOLEAN

FlowTypes ==
  /\ chipEvents \in Nat /\ events \in Nat /\ chipEvents + events <= MaxEvents
  /\ drained \in BOOLEAN /\ raced \in BOOLEAN
  /\ residue \subseteq Reasons

TypeInv == ItemTypes /\ IrqTypes /\ FlowTypes

(* As long as no tasklet was killed while it ran or scheduled after that,  *)
(* the queue and its thread hold at most the tasklet of the HAL context,   *)
(* only between the registration of the interrupt and the kill.            *)
Busy == bhQueue # <<>> \/ running # NoItem

TaskletInv ==
  \/ raced
  \/ /\ bhQueue \in {<<>>, <<tl>>}
     /\ running # NoItem => running = tl /\ runData = hal
     /\ Busy => tlState = "owned" /\ pc \in {"up", "removing"}
     /\ tlState = "owned" => data[tl] = hal

LEMMA TypesStart == Init => TypeInv
<1> SUFFICES ASSUME Init PROVE TypeInv
  OBVIOUS
<1>1. ItemTypes
  BY DEF Init, PoolInit, ItemTypes, Types, Contexts
<1>2. IrqTypes
  BY DEF Init, IrqTypes, Contexts
<1>3. FlowTypes
  <2>1. chipEvents = 0 /\ events = 0 /\ drained = FALSE /\ raced = FALSE /\ residue = {}
    BY DEF Init
  <2>2. chipEvents + events <= MaxEvents
    BY <2>1, DeviceAssumption
  <2> QED
    BY <2>1, <2>2 DEF FlowTypes
<1> QED
  BY <1>1, <1>2, <1>3 DEF TypeInv

LEMMA SameTypes ==
  /\ ItemTypes /\ UNCHANGED poolVars => ItemTypes'
  /\ IrqTypes /\ UNCHANGED <<irqVars, hal>> => IrqTypes'
  /\ FlowTypes /\ UNCHANGED <<flowVars, raced, residue>> => FlowTypes'
  BY DEF ItemTypes, IrqTypes, FlowTypes, poolVars, irqVars, flowVars

(* The queue after k_work_cancel.                                          *)
LEMMA KillEffect ==
  ASSUME ItemTypes, NEW i, WorkKill(i)
  PROVE  /\ bhQueue' \in Seq(Items) /\ UNCHANGED <<inUse, type, data, running, runData>>
         /\ bhQueue \in {<<>>, <<i>>} => bhQueue' = <<>>
<1>1. CASE \E k \in DOMAIN bhQueue : bhQueue[k] = i /\ bhQueue' = RemoveAt(bhQueue, k)
  <2>1. PICK k \in DOMAIN bhQueue : bhQueue[k] = i /\ bhQueue' = RemoveAt(bhQueue, k)
    BY <1>1
  <2>2. /\ bhQueue \in Seq(Items) /\ k \in 1 .. Len(bhQueue)
        /\ bhQueue' = SubSeq(bhQueue, 1, k - 1) \o SubSeq(bhQueue, k + 1, Len(bhQueue))
    BY <2>1 DEF RemoveAt, ItemTypes
  <2>3. bhQueue' \in Seq(Items)
    BY <2>2
  <2>4. ASSUME bhQueue = <<i>> PROVE bhQueue' = <<>>
    <3>1. k = 1 /\ Len(bhQueue) = 1
      BY <2>2, <2>4
    <3>2. Len(bhQueue') = 0
      BY <2>2, <3>1
    <3> QED
      BY <2>3, <3>2
  <2> QED
    BY <2>1, <2>3, <2>4 DEF WorkKill
<1>2. CASE i \notin Range(bhQueue) /\ bhQueue' = bhQueue
  <2>1. bhQueue # <<i>>
    BY <1>2 DEF Range
  <2> QED
    BY <1>2, <2>1 DEF WorkKill, ItemTypes
<1> QED
  BY <1>1, <1>2 DEF WorkKill

(* The queue after work_schedule of an item.                               *)
LEMMA ScheduleEffect ==
  ASSUME ItemTypes, NEW i \in Items, WorkSchedule(i)
  PROVE  /\ bhQueue' \in Seq(Items) /\ UNCHANGED <<inUse, type, data, running, runData>>
         /\ bhQueue \in {<<>>, <<i>>} => bhQueue' \in {<<>>, <<i>>}
<1>1. bhQueue' \in {bhQueue, Append(bhQueue, i)}
  BY DEF WorkSchedule, Submit
<1>2. bhQueue = <<i>> => i \in Range(bhQueue)
  BY DEF Range
<1>3. bhQueue = <<i>> => bhQueue' = bhQueue
  BY <1>2 DEF WorkSchedule, Submit
<1>4. Append(bhQueue, i) \in Seq(Items) /\ (bhQueue = <<>> => Append(bhQueue, i) = <<i>>)
  <2>1. bhQueue \in Seq(Items)
    BY DEF ItemTypes
  <2>2. Append(<<>>, i) = <<i>>
    OBVIOUS
  <2>3. Append(bhQueue, i) \in Seq(Items)
    BY <2>1
  <2> QED
    BY <2>2, <2>3
<1>5. bhQueue' \in Seq(Items)
  BY <1>1, <1>4 DEF ItemTypes
<1>6. bhQueue \in {<<>>, <<i>>} => bhQueue' \in {<<>>, <<i>>}
  BY <1>1, <1>3, <1>4
<1> QED
  BY <1>5, <1>6 DEF WorkSchedule

LEMMA BeginEffect ==
  ASSUME ItemTypes, RunBegin
  PROVE  /\ bhQueue' \in Seq(Items) /\ running' \in Items /\ runData' \in Contexts
         /\ running' = Head(bhQueue) /\ runData' = data[running']
         /\ \A i : bhQueue = <<i>> => bhQueue' = <<>> /\ running' = i
<1>1. bhQueue \in Seq(Items) /\ bhQueue # <<>>
  BY DEF ItemTypes, RunBegin
<1>2. Head(bhQueue) \in Items /\ Tail(bhQueue) \in Seq(Items)
  BY <1>1
<1> QED
  BY <1>2 DEF ItemTypes, RunBegin

LEMMA TypesKept == PinInv /\ IrqInv /\ PoolInv /\ TypeInv /\ [Next]_vars => TypeInv'
<1> SUFFICES ASSUME PinInv, IrqInv, PoolInv, ItemTypes, IrqTypes, FlowTypes, [Next]_vars
             PROVE  ItemTypes' /\ IrqTypes' /\ FlowTypes'
  BY DEF TypeInv
<1>1. CASE HalAdd
  <2>1. hal' \in Gens /\ tl' \in Items /\ WorkAlloc(tl', "BH", hal')
    BY <1>1 DEF HalAdd, WorkAlloc
  <2>2. ItemTypes'
    BY <2>1 DEF WorkAlloc, ItemTypes, Types, Contexts
  <2> QED
    BY <1>1, <2>1, <2>2
       DEF HalAdd, IrqTypes, FlowTypes, Contexts, hwVars, irqVars, flowVars
<1>2. CASE DevAdd \/ DevRem
  <2>1. UNCHANGED <<poolVars, irqVars, halVars>>
    BY <1>2 DEF DevAdd, DevRem
  <2>2. residue' \subseteq Reasons
    <3>1. \A o : Reason(o) \subseteq Reasons
      BY DEF Reason, Reasons
    <3>2. ASSUME NEW t, NEW r, r \subseteq Reasons, PinsNow(t, r) PROVE residue' \subseteq Reasons
      BY <3>2 DEF PinsNow, FlowTypes
    <3>3. CASE DevAddFails
      BY <3>1, <3>2, <3>3 DEF DevAddFails, Reasons
    <3>4. CASE DevAddSucceeds
      BY <3>4 DEF DevAddSucceeds
    <3>5. CASE DevRem
      BY <3>2, <3>5 DEF DevRem, Reasons
    <3> QED
      BY <1>2, <3>3, <3>4, <3>5 DEF DevAdd
  <2>3. /\ drained' = drained /\ raced' = raced /\ events' = events
        /\ chipEvents' = 0 \/ chipEvents' = chipEvents
    BY <1>2 DEF DevAdd, DevRem, flowVars, halVars
  <2>4. FlowTypes'
    BY <2>2, <2>3, DeviceAssumption DEF FlowTypes
  <2> QED
    BY <2>1, <2>4, SameTypes DEF halVars
<1>3. CASE IntrReg
  <2>1. hal \in Gens
    BY <1>3 DEF IntrReg, IrqInv, HalStands, IrqTypes, Contexts
  <2> QED
    BY <1>3, <2>1 DEF IntrReg, ItemTypes, IrqTypes, FlowTypes, Contexts, poolVars, hwVars,
                      halVars, flowVars
<1>4. CASE RemoveCall \/ IrqRemove \/ IrqCanceled \/ IrqWorkBegin \/ IrqWorkEnd
  <2>1. UNCHANGED <<poolVars, hwVars, halVars, flowVars>>
    BY <1>4 DEF RemoveCall, IrqRemove, IrqCanceled, IrqWorkBegin, IrqWorkEnd
  <2>2. IrqTypes'
    BY <1>4, <2>1 DEF RemoveCall, IrqRemove, IrqCanceled, IrqWorkBegin, IrqWorkEnd, IrqTypes,
                      Contexts, irqVars, halVars
  <2> QED
    BY <2>1, <2>2 DEF ItemTypes, FlowTypes, poolVars, hwVars, halVars, flowVars
<1>5. CASE TaskletKill \/ TaskletFree
  <2>1. /\ UNCHANGED <<hwVars, irqVars, flowVars, hal, type, data, running, runData>>
        /\ bhQueue' \in Seq(Items) /\ raced' \in BOOLEAN
    BY <1>5, KillEffect DEF TaskletKill, TaskletFree, WorkFree, ItemTypes, FlowTypes
  <2> QED
    BY <2>1 DEF ItemTypes, IrqTypes, FlowTypes, hwVars, irqVars, flowVars
<1>6. CASE HalFree
  <2>1. ItemTypes' /\ IrqTypes'
    BY <1>6, SameTypes DEF HalFree, IrqTypes, Contexts
  <2>2. FlowTypes'
    BY <1>6, DeviceAssumption DEF HalFree, FlowTypes, hwVars
  <2> QED
    BY <2>1, <2>2
<1>7. CASE ChipEvent
  <2>1. UNCHANGED <<poolVars, hwVars, halVars, events, drained>>
    BY <1>7 DEF ChipEvent
  <2>2. chipEvents' = chipEvents + 1 /\ chipEvents + events < MaxEvents
    BY <1>7 DEF ChipEvent
  <2>3. FlowTypes'
    BY <2>1, <2>2, DeviceAssumption DEF FlowTypes, hwVars, halVars
  <2>4. IrqTypes'
    BY <1>7 DEF ChipEvent, IrqHandler, IrqTypes, Contexts, halVars
  <2> QED
    BY <2>1, <2>3, <2>4, SameTypes
<1>8. CASE IrqWorkFetch
  <2>1. /\ UNCHANGED <<hwVars, hal, intrPriv, alive, listed, pinIrq, irqReg, irqQueued,
                       irqRunning, irqData, removalFailed, drained>>
        /\ fetched' = TRUE /\ raced' \in BOOLEAN
    BY <1>8 DEF IrqWorkFetch, FlowTypes
  <2>2. ItemTypes'
    <3>1. CASE irqData = hal /\ tl # NoItem
      <4>1. tl \in Items /\ WorkSchedule(tl)
        BY <1>8, <3>1 DEF IrqWorkFetch, PoolInv, Owner, PCs
      <4> QED
        BY <4>1, ScheduleEffect DEF ItemTypes
    <3>2. CASE ~(irqData = hal /\ tl # NoItem)
      BY <1>8, <3>2 DEF IrqWorkFetch, ItemTypes, poolVars
    <3> QED
      BY <3>1, <3>2
  <2>3. chipEvents' \in Nat /\ events' \in Nat /\ chipEvents' + events' <= MaxEvents
    BY <1>8, DeviceAssumption DEF IrqWorkFetch, FlowTypes
  <2> QED
    BY <2>1, <2>2, <2>3 DEF IrqTypes, FlowTypes, hwVars
<1>9. CASE TaskletBegin \/ TaskletEnd
  <2>1. UNCHANGED <<hwVars, irqVars, halVars, chipEvents, events>> /\ drained' = FALSE
    BY <1>9 DEF TaskletBegin, TaskletEnd
  <2>2. ItemTypes'
    <3>1. CASE TaskletBegin
      BY <3>1, BeginEffect DEF TaskletBegin, RunBegin, ItemTypes
    <3>2. CASE TaskletEnd
      BY <3>2 DEF TaskletEnd, RunEnd, ItemTypes, Contexts
    <3> QED
      BY <1>9, <3>1, <3>2
  <2> QED
    BY <2>1, <2>2 DEF IrqTypes, FlowTypes, hwVars, irqVars, halVars
<1>10. CASE TaskletEvent \/ TaskletEmpty
  <2>1. UNCHANGED <<poolVars, hwVars, irqVars, halVars, chipEvents>>
    BY <1>10 DEF TaskletEvent, TaskletEmpty
  <2>2. events' = events \/ (events > 0 /\ events' = events - 1)
    BY <1>10 DEF TaskletEvent, TaskletEmpty
  <2>3. drained' \in BOOLEAN
    BY <1>10 DEF TaskletEvent, TaskletEmpty, FlowTypes
  <2>4. FlowTypes'
    BY <2>1, <2>2, <2>3, DeviceAssumption DEF FlowTypes, hwVars, halVars
  <2> QED
    BY <2>1, <2>4, SameTypes DEF halVars
<1>11. CASE UNCHANGED vars
  BY <1>11, SameTypes DEF vars, hwVars, halVars
<1> QED
  BY <1>1, <1>2, <1>3, <1>4, <1>5, <1>6, <1>7, <1>8, <1>9, <1>10, <1>11 DEF Next

LEMMA NewStart == Init => NewToIrq
  BY DEF Init, NewToIrq, Unregistered

LEMMA NewKept == PinInv /\ IrqInv /\ PoolInv /\ NewToIrq /\ [Next]_vars => NewToIrq'
<1> SUFFICES ASSUME IrqInv, PoolInv, NewToIrq, [Next]_vars PROVE NewToIrq'
  OBVIOUS
<1> USE DEF NewToIrq, Unregistered
<1>1. CASE HalAdd
  <2>1. hal' \in Gens /\ hal' \notin alive \cup {irqRunning, irqData, runData}
    BY <1>1 DEF HalAdd
  <2>2. hal' # 0
    BY <2>1, DeviceAssumption
  <2> QED
    BY <1>1, <2>1, <2>2 DEF HalAdd, irqVars
<1>2. CASE DevAdd
  BY <1>2 DEF DevAdd, irqVars, halVars
<1>3. CASE IntrReg
  <2>1. pc = "added" /\ UNCHANGED halVars /\ pc' \in {"up", "removing"}
    BY <1>3 DEF IntrReg
  <2>2. intrPriv' \in alive' \cup {0}
    BY <1>3 DEF IntrReg
  <2> QED
    BY <2>1, <2>2
<1>4. CASE RemoveCall
  BY <1>4 DEF RemoveCall, irqVars, halVars
<1>5. CASE IrqRemove
  BY <1>5 DEF IrqRemove, halVars
<1>6. CASE IrqCanceled
  <2>1. pc = "removing"
    BY <1>6 DEF IrqCanceled, IrqInv, Registration, PCs
  <2> QED
    BY <1>6, <2>1 DEF IrqCanceled, halVars
<1>7. CASE TaskletKill \/ TaskletFree
  BY <1>7 DEF TaskletKill, TaskletFree, irqVars
<1>8. CASE DevRem
  BY <1>8 DEF DevRem, irqVars, halVars
<1>9. CASE HalFree
  BY <1>9 DEF HalFree
<1>10. CASE ChipEvent
  BY <1>10 DEF ChipEvent, halVars
<1>11. CASE IrqWorkBegin
  BY <1>11 DEF IrqWorkBegin, halVars
<1>12. CASE IrqWorkFetch
  BY <1>12 DEF IrqWorkFetch
<1>13. CASE IrqWorkEnd
  <2>1. Unregistered => hal # 0
    BY DEF IrqInv, HalStands
  <2> QED
    BY <1>13, <2>1 DEF IrqWorkEnd, halVars
<1>14. CASE TaskletBegin \/ TaskletEvent \/ TaskletEmpty \/ TaskletEnd \/ UNCHANGED vars
  BY <1>14 DEF TaskletBegin, TaskletEvent, TaskletEmpty, TaskletEnd, vars, irqVars, halVars
<1> QED
  BY <1>1, <1>2, <1>3, <1>4, <1>5, <1>6, <1>7, <1>8, <1>9, <1>10, <1>11, <1>12, <1>13, <1>14
     DEF Next

LEMMA TaskletStart == Init => TaskletInv
  BY DEF Init, PoolInit, TaskletInv, Busy

LEMMA TaskletKept ==
  PoolInv /\ ItemTypes /\ NewToIrq /\ TaskletInv /\ [Next]_vars => TaskletInv'
<1> SUFFICES ASSUME PoolInv, ItemTypes, NewToIrq, TaskletInv, [Next]_vars, ~raced'
             PROVE  TaskletInv'
  BY DEF TaskletInv
<1>1. /\ ~raced /\ bhQueue \in {<<>>, <<tl>>}
      /\ running # NoItem => running = tl /\ runData = hal
      /\ bhQueue # <<>> \/ running # NoItem => tlState = "owned" /\ pc \in {"up", "removing"}
      /\ tlState = "owned" => data[tl] = hal
  <2>1. ~raced
    BY DEF Next, HalAdd, DevAdd, IntrReg, RemoveCall, IrqRemove, IrqCanceled, TaskletKill,
           TaskletFree, DevRem, HalFree, ChipEvent, IrqWorkBegin, IrqWorkFetch, IrqWorkEnd,
           TaskletBegin, TaskletEvent, TaskletEmpty, TaskletEnd, vars, halVars
  <2> QED
    BY <2>1 DEF TaskletInv, Busy
<1> USE DEF TaskletInv, Busy
<1>2. CASE HalAdd
  <2>1. tlState = "none" /\ bhQueue = <<>> /\ running = NoItem
    BY <1>1, <1>2 DEF HalAdd, PoolInv, Owner
  <2>2. tl' \in Items /\ data' = [data EXCEPT ![tl'] = hal'] /\ UNCHANGED <<bhQueue, running>>
    BY <1>2 DEF HalAdd, WorkAlloc
  <2>3. data'[tl'] = hal'
    BY <2>2 DEF ItemTypes
  <2> QED
    BY <2>1, <2>2, <2>3
<1>3. CASE DevAdd
  BY <1>1, <1>3 DEF DevAdd, poolVars, halVars
<1>4. CASE IntrReg
  BY <1>1, <1>4 DEF IntrReg, poolVars, halVars
<1>5. CASE RemoveCall
  BY <1>1, <1>5 DEF RemoveCall, poolVars, halVars
<1>6. CASE IrqRemove \/ IrqCanceled \/ ChipEvent \/ IrqWorkBegin \/ IrqWorkEnd
           \/ TaskletEvent \/ TaskletEmpty \/ UNCHANGED vars
  BY <1>1, <1>6 DEF IrqRemove, IrqCanceled, ChipEvent, IrqWorkBegin, IrqWorkEnd, TaskletEvent,
                    TaskletEmpty, vars, poolVars, halVars
<1>7. CASE TaskletKill
  <2>1. WorkKill(tl) /\ running # tl /\ tlState' = "killed" /\ UNCHANGED <<pc, hal, tl>>
    BY <1>7 DEF TaskletKill
  <2>2. bhQueue' = <<>> /\ running' = running /\ data' = data
    BY <1>1, <2>1, KillEffect
  <2> QED
    BY <1>1, <2>1, <2>2
<1>8. CASE TaskletFree
  <2>1. bhQueue = <<>> /\ running = NoItem
    BY <1>1, <1>8 DEF TaskletFree
  <2> QED
    BY <1>8, <2>1 DEF TaskletFree, WorkFree
<1>9. CASE DevRem
  BY <1>1, <1>9 DEF DevRem, poolVars, halVars
<1>10. CASE HalFree
  BY <1>1, <1>10 DEF HalFree, poolVars
<1>11. CASE IrqWorkFetch
  <2>1. CASE irqData = hal /\ tl # NoItem
    <3>1. WorkSchedule(tl) /\ tlState = "owned" /\ UNCHANGED <<pc, hal, tl, tlState>>
      BY <1>1, <1>11, <2>1 DEF IrqWorkFetch
    <3>2. tl \in Items /\ pc \in {"up", "removing"}
      BY <2>1, <3>1 DEF PoolInv, Owner, PCs, NewToIrq, Unregistered
    <3>3. /\ bhQueue' \in {<<>>, <<tl>>}
          /\ UNCHANGED <<data, running, runData>>
      BY <1>1, <3>1, <3>2, ScheduleEffect
    <3> QED
      BY <1>1, <3>1, <3>2, <3>3
  <2>2. CASE ~(irqData = hal /\ tl # NoItem)
    BY <1>1, <1>11, <2>2 DEF IrqWorkFetch, poolVars
  <2> QED
    BY <2>1, <2>2
<1>12. CASE TaskletBegin
  <2>1. RunBegin /\ bhQueue = <<tl>> /\ UNCHANGED <<pc, hal, tl, tlState, data>>
    BY <1>1, <1>12 DEF TaskletBegin, RunBegin, halVars
  <2>2. bhQueue' = <<>> /\ running' = tl /\ runData' = data[tl]
    BY <2>1, BeginEffect
  <2> QED
    BY <1>1, <2>1, <2>2
<1>13. CASE TaskletEnd
  BY <1>1, <1>13 DEF TaskletEnd, RunEnd, halVars
<1> QED
  BY <1>2, <1>3, <1>4, <1>5, <1>6, <1>7, <1>8, <1>9, <1>10, <1>11, <1>12, <1>13 DEF Next

LEMMA DeviceAlways == Spec => [](PinInv /\ IrqInv /\ PoolInv /\ TypeInv /\ NewToIrq /\ TaskletInv)
<1>1. Init => TypeInv /\ NewToIrq /\ TaskletInv
  BY TypesStart, NewStart, TaskletStart
<1>2. /\ PinInv /\ IrqInv /\ PoolInv /\ TypeInv /\ NewToIrq /\ TaskletInv /\ [Next]_vars
      => (TypeInv /\ NewToIrq /\ TaskletInv)'
  BY TypesKept, NewKept, TaskletKept DEF TypeInv
<1> QED
  BY <1>1, <1>2, PinsAlways, IrqAlways, PoolAlways, PTL DEF Spec

(* The variables keep their types for any contexts, items and events.      *)
THEOREM DeviceTypes == Spec => []TypeOK
<1>1. ASSUME PinInv, IrqInv, PoolInv, TypeInv PROVE TypeOK
  <2>1. chipEvents \in 0 .. MaxEvents /\ events \in 0 .. MaxEvents
    BY <1>1, DeviceAssumption DEF TypeInv, FlowTypes
  <2>2. /\ inUse \in [Items -> BOOLEAN] /\ tl \in Items \cup {NoItem}
        /\ tlState \in {"none", "owned", "killed", "freed"}
    BY <1>1 DEF PoolInv, Owner, PCs
  <2>3. /\ type \in [Items -> Types] /\ data \in [Items -> Contexts]
        /\ bhQueue \in Seq(Items) /\ running \in Items \cup {NoItem} /\ runData \in Contexts
    BY <1>1 DEF TypeInv, ItemTypes
  <2>4. pins \in PinStates /\ residue \subseteq Reasons /\ pc \in PCs
    BY <1>1 DEF PinInv, TypeInv, FlowTypes
  <2> QED
    BY <1>1, <2>1, <2>2, <2>3, <2>4, Zenon DEF TypeOK, TypeInv, IrqTypes, FlowTypes
<1> QED
  BY <1>1, DeviceAlways, PTL

(* The tasklet that the work queue runs belongs to the device there is,    *)
(* and the chip is supplied, through every order of interrupts, bring-ups, *)
(* removals and failures, as long as no tasklet is killed while it runs    *)
(* and none is scheduled after it was killed: work_kill does not wait.     *)
THEOREM TaskletFindsDevice == Spec => []TaskletOnLiveDevice
<1>1. PinInv /\ TaskletInv => TaskletOnLiveDevice
  BY DEF PinInv, TaskletInv, Busy, TaskletOnLiveDevice
<1> QED
  BY <1>1, DeviceAlways, PTL
=============================================================================
