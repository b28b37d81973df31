--------------------------- MODULE OtpProgProofs ----------------------------
(***************************************************************************)
(* What the commands on the one-time memory may leave behind, for any set  *)
(* of fields.  A function is a set of outcomes, so that a lemma about it   *)
(* says what each of its outcomes is: which chip, and with which status.   *)
(***************************************************************************)
EXTENDS OtpProg, TLAPS

Outcomes == [chip : OtpChips, ok : BOOLEAN]

(* The fields of a chip.                                                   *)
LEMMA ChipFields ==
  ASSUME NEW c \in OtpChips
  PROVE  /\ c.mode \in {"standby", "read", "write"} /\ c.settled \in BOOLEAN
         /\ c.volt \in {"1V8", "2V5"}
         /\ c.protect \subseteq Patterns
         /\ c.written \subseteq UNION {WordsOf(f) : f \in OtpFields}
         /\ c.flags \subseteq Flagged
         /\ c.misuse \in BOOLEAN /\ c.unread \in BOOLEAN
         /\ c.lost \in BOOLEAN /\ c.explicit \in BOOLEAN
  BY DEF OtpChips

(* Misuse only after a lost write.                                         *)
Sound(c) == c.misuse => c.lost

(* The history only grows in a command, what was written by the user and   *)
(* what was not read is known before.                                      *)
Grows(c, d) == (c.lost => d.lost) /\ d.unread = c.unread

(* The memory and the history that only writing changes.                   *)
SameMemory(c, d) ==
  /\ d.protect = c.protect /\ d.written = c.written /\ d.flags = c.flags
  /\ d.explicit = c.explicit

(* The chip with one register or one mark changed.                         *)
LEMMA Requested ==
  ASSUME NEW c \in OtpChips, NEW m \in {"standby", "read", "write"}
  PROVE  LET d == [c EXCEPT !.mode = m, !.settled = FALSE]
         IN  /\ d \in OtpChips /\ SameMemory(c, d) /\ Grows(c, d)
             /\ d.mode = m /\ d.misuse = c.misuse /\ d.volt = c.volt
  BY DEF OtpChips, SameMemory, Grows

LEMMA Settles ==
  ASSUME NEW c \in OtpChips
  PROVE  LET d == [c EXCEPT !.settled = TRUE]
         IN  /\ d \in OtpChips /\ SameMemory(c, d) /\ Grows(c, d) /\ d.settled
             /\ d.mode = c.mode /\ d.misuse = c.misuse /\ d.volt = c.volt
  BY DEF OtpChips, SameMemory, Grows

LEMMA Loses ==
  ASSUME NEW c \in OtpChips
  PROVE  LET d == [c EXCEPT !.lost = TRUE]
         IN  /\ d \in OtpChips /\ SameMemory(c, d) /\ Grows(c, d) /\ d.lost
             /\ d.mode = c.mode /\ d.settled = c.settled /\ d.misuse = c.misuse
             /\ d.volt = c.volt
  BY DEF OtpChips, SameMemory, Grows

(* An outcome is a chip and a status.                                      *)
LEMMA OutcomeOf ==
  ASSUME NEW c \in OtpChips
  PROVE  /\ Success(c) \in Outcomes /\ Success(c).chip = c /\ Success(c).ok = TRUE
         /\ Failure(c) \in Outcomes /\ Failure(c).chip = c /\ Failure(c).ok = FALSE
  BY DEF Success, Failure, Outcomes

---------------------------------------------------------------------------
(* The functions below the commands.                                       *)

LEMMA write_word_outcome ==
  ASSUME NEW c \in OtpChips, NEW d \in OtpChips, NEW o \in write_word(c, d)
  PROVE  /\ o \in Outcomes /\ o.ok
         /\ o.chip = d \/ o.chip = [c EXCEPT !.lost = TRUE]
  BY Loses, OutcomeOf DEF write_word

(* A poll changes only what is known of the mode.                          *)
LEMMA poll_otp_ready_outcome ==
  ASSUME NEW c \in OtpChips, NEW o \in poll_otp_ready(c)
  PROVE  /\ o \in Outcomes /\ SameMemory(c, o.chip) /\ Grows(c, o.chip)
         /\ o.chip.mode = c.mode /\ o.chip.misuse = c.misuse /\ o.chip.volt = c.volt
         /\ o.ok => o.chip.settled
<1>1. CASE o = Success([c EXCEPT !.settled = TRUE])
  BY <1>1, Settles, OutcomeOf
<1>2. CASE o = Failure(c)
  BY <1>2, OutcomeOf DEF SameMemory, Grows
<1> QED
  BY <1>1, <1>2 DEF poll_otp_ready

(* A request for a mode that succeeds puts the chip into it, or its write  *)
(* was lost.                                                               *)
LEMMA request_mode_outcome ==
  ASSUME NEW c \in OtpChips, NEW m \in {"standby", "read", "write"},
         NEW o \in request_mode(c, m)
  PROVE  /\ o \in Outcomes /\ SameMemory(c, o.chip) /\ Grows(c, o.chip)
         /\ o.chip.misuse = c.misuse /\ o.chip.volt = c.volt
         /\ o.ok => o.chip.lost \/ (o.chip.mode = m /\ o.chip.settled)
<1> DEFINE d == [c EXCEPT !.mode = m, !.settled = FALSE]
<1>1. /\ d \in OtpChips /\ SameMemory(c, d) /\ Grows(c, d)
      /\ d.mode = m /\ d.misuse = c.misuse /\ d.volt = c.volt
  BY Requested
<1>2. PICK w \in write_word(c, d) : IF w.ok THEN o \in poll_otp_ready(w.chip) ELSE o = w
  BY DEF request_mode, AndThen
<1>3. w \in Outcomes /\ w.ok /\ (w.chip = d \/ w.chip = [c EXCEPT !.lost = TRUE])
  BY <1>1, <1>2, write_word_outcome
<1>4. /\ w.chip \in OtpChips /\ SameMemory(c, w.chip) /\ Grows(c, w.chip)
      /\ w.chip.misuse = c.misuse /\ w.chip.volt = c.volt
      /\ w.chip.lost \/ w.chip.mode = m
  <2>1. CASE w.chip = [c EXCEPT !.lost = TRUE]
    BY <2>1, Loses
  <2>2. CASE w.chip = d
    BY <1>1, <2>2
  <2> QED
    BY <1>3, <2>1, <2>2
<1>5. /\ o \in Outcomes /\ SameMemory(w.chip, o.chip) /\ Grows(w.chip, o.chip)
      /\ o.chip.mode = w.chip.mode /\ o.chip.misuse = w.chip.misuse /\ o.chip.volt = w.chip.volt
      /\ o.ok => o.chip.settled
  BY <1>2, <1>3, <1>4, poll_otp_ready_outcome
<1> QED
  BY <1>4, <1>5, SMTT(40) DEF SameMemory, Grows

(* What the accesses of a command do to the chip while they write no word. *)
Accesses(c, o) ==
  /\ o \in Outcomes /\ SameMemory(c, o.chip) /\ Grows(c, o.chip)
  /\ Sound(c) => Sound(o.chip)

LEMMA AccessesFollow ==
  ASSUME NEW c, NEW o, NEW p, Accesses(c, o), Accesses(o.chip, p)
  PROVE  Accesses(c, p)
  BY DEF Accesses, SameMemory, Grows

(* The voltage is changed in standby, or a write was lost.                 *)
LEMMA VoltageSet ==
  ASSUME NEW c \in OtpChips, NEW v \in {"1V8", "2V5"}
  PROVE  LET d == [c EXCEPT !.volt = v, !.misuse = @ \/ c.mode # "standby" \/ ~c.settled]
         IN  /\ d \in OtpChips /\ SameMemory(c, d) /\ Grows(c, d) /\ d.volt = v
             /\ Sound(c) /\ (c.lost \/ (c.mode = "standby" /\ c.settled)) => Sound(d)
  BY DEF OtpChips, SameMemory, Grows, Sound

LEMMA set_voltage_outcome ==
  ASSUME NEW c \in OtpChips, NEW v \in {"1V8", "2V5"}, NEW o \in set_voltage(c, v)
  PROVE  /\ Accesses(c, o)
         /\ o.ok => o.chip.lost \/ o.chip.volt = v
<1>1. PICK r \in request_mode(c, "standby") :
        IF r.ok THEN o \in write_word(r.chip,
                            [r.chip EXCEPT !.volt = v,
                               !.misuse = @ \/ r.chip.mode # "standby" \/ ~r.chip.settled])
                ELSE o = r
  BY DEF set_voltage, AndThen
<1>2. /\ r \in Outcomes /\ SameMemory(c, r.chip) /\ Grows(c, r.chip)
      /\ r.chip.misuse = c.misuse
      /\ r.ok => r.chip.lost \/ (r.chip.mode = "standby" /\ r.chip.settled)
  BY request_mode_outcome
<1>3. r.chip \in OtpChips /\ r.ok \in BOOLEAN
  BY <1>2 DEF Outcomes
<1>4. Accesses(c, r)
  BY <1>2 DEF Accesses, Sound, Grows
<1>5. CASE r.ok
  <2> DEFINE d == [r.chip EXCEPT !.volt = v,
                     !.misuse = @ \/ r.chip.mode # "standby" \/ ~r.chip.settled]
  <2>1. /\ d \in OtpChips /\ SameMemory(r.chip, d) /\ Grows(r.chip, d) /\ d.volt = v
        /\ Sound(r.chip) => Sound(d)
    BY <1>2, <1>3, <1>5, VoltageSet
  <2>2. o \in write_word(r.chip, d)
    BY <1>1, <1>5
  <2> HIDE DEF d
  <2>3. o \in Outcomes /\ (o.chip = d \/ o.chip = [r.chip EXCEPT !.lost = TRUE])
    BY <1>3, <2>1, <2>2, write_word_outcome
  <2>4. CASE o.chip = d
    BY <1>4, <2>1, <2>3, <2>4, AccessesFollow DEF Accesses
  <2>5. CASE o.chip = [r.chip EXCEPT !.lost = TRUE]
    <3>1. SameMemory(r.chip, o.chip) /\ Grows(r.chip, o.chip) /\ o.chip.lost
      BY <1>3, <2>5, Loses
    <3>2. Accesses(r.chip, o)
      BY <2>3, <3>1 DEF Accesses, Sound
    <3> QED
      BY <1>4, <3>1, <3>2, AccessesFollow
  <2> QED
    BY <2>3, <2>4, <2>5, SMTT(40)
<1>6. CASE ~r.ok
  BY <1>1, <1>4, <1>6
<1> QED
  BY <1>3, <1>5, <1>6

LEMMA ModeAccesses ==
  ASSUME NEW c \in OtpChips, NEW m \in {"standby", "read", "write"},
         NEW o \in request_mode(c, m)
  PROVE  Accesses(c, o) /\ o.chip.volt = c.volt
  BY request_mode_outcome DEF Accesses, Sound, Grows

LEMMA PollAccesses ==
  ASSUME NEW c \in OtpChips, NEW o \in poll_otp_ready(c)
  PROVE  Accesses(c, o)
  BY poll_otp_ready_outcome DEF Accesses, Sound, Grows

LEMMA TimingAccesses ==
  ASSUME NEW c \in OtpChips, NEW o \in set_otp_timing_reg_40mhz(c)
  PROVE  Accesses(c, o) /\ o.ok
<1>1. o \in Outcomes /\ o.ok /\ (o.chip = c \/ o.chip = [c EXCEPT !.lost = TRUE])
  BY write_word_outcome DEF set_otp_timing_reg_40mhz
<1>2. CASE o.chip = c
  BY <1>1, <1>2 DEF Accesses, SameMemory, Grows
<1>3. CASE o.chip = [c EXCEPT !.lost = TRUE]
  BY <1>1, <1>3, Loses DEF Accesses, Sound
<1> QED
  BY <1>1, <1>2, <1>3

(* A mark of misuse on a chip.                                             *)
LEMMA Marked ==
  ASSUME NEW c \in OtpChips, NEW b \in BOOLEAN
  PROVE  LET d == [c EXCEPT !.misuse = @ \/ b]
         IN  /\ d \in OtpChips /\ SameMemory(c, d) /\ Grows(c, d)
             /\ d.mode = c.mode /\ d.settled = c.settled /\ d.volt = c.volt /\ d.lost = c.lost
             /\ Sound(c) /\ (c.lost \/ ~b) => Sound(d)
  BY DEF OtpChips, SameMemory, Grows, Sound

(* Reading changes nothing in the memory, and reads in the read mode.      *)
LEMMA read_otp_memory_outcome ==
  ASSUME NEW c \in OtpChips, NEW o \in read_otp_memory(c)
  PROVE  Accesses(c, o)
<1> DEFINE Back(g)    == request_mode([g EXCEPT !.misuse = @ \/ ~InMode(g, "read", "1V8")], "standby")
           Mode(f)    == AndThen(request_mode(f, "read"), LAMBDA g : Back(g))
           Volt(e)    == AndThen(set_voltage(e, "1V8"), LAMBDA f : Mode(f))
           Timing(d)  == AndThen(set_otp_timing_reg_40mhz(d), LAMBDA e : Volt(e))
<1>1. PICK p \in poll_otp_ready(c) : IF p.ok THEN o \in Timing(p.chip) ELSE o = p
  BY DEF read_otp_memory, AndThen
<1>2. Accesses(c, p) /\ p.chip \in OtpChips /\ p.ok \in BOOLEAN
  BY PollAccesses DEF Accesses, Outcomes
<1>3. CASE p.ok
  <2>1. PICK t \in set_otp_timing_reg_40mhz(p.chip) : IF t.ok THEN o \in Volt(t.chip) ELSE o = t
    BY <1>1, <1>3 DEF AndThen
  <2>2. Accesses(p.chip, t) /\ t.ok
    BY <1>2, TimingAccesses
  <2>3. Accesses(c, t) /\ t.chip \in OtpChips
    BY <1>2, <2>2, AccessesFollow DEF Accesses, Outcomes
  <2>4. PICK v \in set_voltage(t.chip, "1V8") : IF v.ok THEN o \in Mode(v.chip) ELSE o = v
    BY <2>1, <2>2 DEF AndThen
  <2>5. Accesses(t.chip, v) /\ (v.ok => v.chip.lost \/ v.chip.volt = "1V8")
    BY <2>3, set_voltage_outcome
  <2>6. Accesses(c, v) /\ v.chip \in OtpChips /\ v.ok \in BOOLEAN
    BY <2>3, <2>5, AccessesFollow DEF Accesses, Outcomes
  <2>7. CASE v.ok
    <3>1. PICK r \in request_mode(v.chip, "read") : IF r.ok THEN o \in Back(r.chip) ELSE o = r
      BY <2>4, <2>7 DEF AndThen
    <3>2. /\ Accesses(v.chip, r) /\ r.chip.volt = v.chip.volt
          /\ r.ok => r.chip.lost \/ (r.chip.mode = "read" /\ r.chip.settled)
      BY <2>6, ModeAccesses, request_mode_outcome
    <3>3. Accesses(c, r) /\ r.chip \in OtpChips /\ r.ok \in BOOLEAN
      BY <2>6, <3>2, AccessesFollow DEF Accesses, Outcomes
    <3>4. CASE r.ok
      <4> DEFINE g == [r.chip EXCEPT !.misuse = @ \/ ~InMode(r.chip, "read", "1V8")]
      <4>1. r.chip.lost \/ InMode(r.chip, "read", "1V8")
        BY <2>5, <2>7, <3>2, <3>4 DEF InMode, Accesses, Grows
      <4>2. /\ g \in OtpChips /\ SameMemory(r.chip, g) /\ Grows(r.chip, g)
            /\ Sound(r.chip) => Sound(g)
        BY <3>3, <4>1, Marked DEF InMode
      <4>3. o \in request_mode(g, "standby")
        BY <3>1, <3>4
      <4> HIDE DEF g
      <4>4. Accesses(g, o)
        BY <4>2, <4>3, ModeAccesses
      <4>5. Accesses(r.chip, o)
        BY <4>2, <4>4 DEF Accesses, SameMemory, Grows
      <4> QED
        BY <3>3, <4>5, AccessesFollow
    <3> QED
      BY <3>1, <3>3, <3>4
  <2> QED
    BY <2>4, <2>6, <2>7
<1> QED
  BY <1>1, <1>2, <1>3

---------------------------------------------------------------------------
(* The functions that write words.                                         *)

(* A chip that is ready for it.                                            *)
Writing(c) == c \in OtpChips /\ Sound(c) /\ (c.lost \/ InMode(c, "write", "2V5"))

(* Two chips that differ in their memory only.                             *)
SameStatus(c, d) ==
  /\ d.mode = c.mode /\ d.settled = c.settled /\ d.volt = c.volt
  /\ d.misuse = c.misuse /\ d.lost = c.lost /\ d.unread = c.unread
  /\ d.explicit = c.explicit

(* A location keeps its word or gets the new one, and a success is a word  *)
(* programmed or a write lost.                                             *)
LEMMA write_otp_location_outcome ==
  ASSUME NEW c \in OtpChips, Writing(c), NEW d \in OtpChips, SameStatus(c, d),
         NEW o \in write_otp_location(c, d)
  PROVE  /\ o \in Outcomes /\ Writing(o.chip) /\ Grows(c, o.chip)
         /\ SameMemory(c, o.chip) \/ SameMemory(d, o.chip)
         /\ o.ok => o.chip.lost \/ SameMemory(d, o.chip)
<1> DEFINE seen(x) == [x EXCEPT !.misuse = @ \/ ~InMode(c, "write", "2V5")]
           sc == seen(c)
           sd == seen(d)
<1>1. /\ sc \in OtpChips /\ SameMemory(c, sc) /\ Grows(c, sc) /\ Writing(sc)
  <2>1. c \in OtpChips /\ Sound(c) /\ (c.lost \/ InMode(c, "write", "2V5"))
    BY DEF Writing
  <2> DEFINE b == ~InMode(c, "write", "2V5")
  <2>2. /\ sc \in OtpChips /\ SameMemory(c, sc) /\ Grows(c, sc)
        /\ sc.mode = c.mode /\ sc.settled = c.settled /\ sc.volt = c.volt /\ sc.lost = c.lost
        /\ Sound(sc)
    <3>1. b \in BOOLEAN /\ (c.lost \/ ~b)
      BY <2>1
    <3>2. sc = [c EXCEPT !.misuse = @ \/ b]
      OBVIOUS
    <3> HIDE DEF b, sc
    <3> QED
      BY <2>1, <3>1, <3>2, Marked, Zenon
  <2> HIDE DEF sc
  <2> QED
    BY <2>1, <2>2 DEF Writing, InMode
<1>2. /\ sd \in OtpChips /\ SameMemory(d, sd) /\ Grows(c, sd) /\ Writing(sd)
  <2>1. /\ Sound(d) /\ (d.lost \/ InMode(c, "write", "2V5"))
        /\ InMode(c, "write", "2V5") = InMode(d, "write", "2V5")
    BY DEF Writing, SameStatus, Sound, InMode
  <2> DEFINE b == ~InMode(c, "write", "2V5")
  <2>2. /\ sd \in OtpChips /\ SameMemory(d, sd) /\ Grows(d, sd)
        /\ sd.mode = d.mode /\ sd.settled = d.settled /\ sd.volt = d.volt /\ sd.lost = d.lost
        /\ Sound(sd)
    <3>1. b \in BOOLEAN /\ (d.lost \/ ~b)
      BY <2>1
    <3>2. sd = [d EXCEPT !.misuse = @ \/ b]
      OBVIOUS
    <3> HIDE DEF b, sd
    <3> QED
      BY <2>1, <3>1, <3>2, Marked, Zenon
  <2> HIDE DEF sd
  <2> QED
    BY <2>1, <2>2 DEF Writing, InMode, Grows, SameStatus
<1> HIDE DEF sc, sd
<1>3. \/ \E w \in write_word(sc, sd) : o \in {Success(w.chip), Failure(w.chip)}
      \/ o = Failure(sc)
  <2>1. o \in AndThen(write_word(sc, sd), LAMBDA e : {Success(e), Failure(e)}) \cup {Failure(sc)}
    BY DEF write_otp_location, sc, sd
  <2>2. CASE o \in AndThen(write_word(sc, sd), LAMBDA e : {Success(e), Failure(e)})
    <3>1. PICK w \in write_word(sc, sd) :
            IF w.ok THEN o \in {Success(w.chip), Failure(w.chip)} ELSE o = w
      BY <2>2 DEF AndThen
    <3>2. w.ok
      BY <1>1, <1>2, write_word_outcome
    <3> QED
      BY <3>1, <3>2
  <2> QED
    BY <2>1, <2>2
<1>4. ASSUME NEW w \in write_word(sc, sd), o \in {Success(w.chip), Failure(w.chip)}
      PROVE  /\ o \in Outcomes /\ Writing(o.chip) /\ Grows(c, o.chip)
             /\ SameMemory(c, o.chip) \/ SameMemory(d, o.chip)
             /\ o.ok => o.chip.lost \/ SameMemory(d, o.chip)
  <2>1. w.chip = sd \/ w.chip = [sc EXCEPT !.lost = TRUE]
    BY <1>1, <1>2, <1>4, write_word_outcome
  <2>2. CASE w.chip = sd
    BY <1>2, <1>4, <2>2, OutcomeOf
  <2>3. CASE w.chip = [sc EXCEPT !.lost = TRUE]
    <3>1. /\ w.chip \in OtpChips /\ SameMemory(sc, w.chip) /\ Grows(sc, w.chip) /\ w.chip.lost
      BY <1>1, <2>3, Loses
    <3>2. o \in Outcomes /\ o.chip = w.chip
      BY <1>4, <3>1, OutcomeOf
    <3> QED
      BY <1>1, <3>1, <3>2 DEF Writing, Sound, SameMemory, Grows
  <2> QED
    BY <2>1, <2>2, <2>3
<1>5. CASE o = Failure(sc)
  BY <1>1, <1>5, OutcomeOf
<1> QED
  BY <1>3, <1>4, <1>5

LEMMA WordTyped ==
  ASSUME NEW c \in OtpChips, NEW f \in OtpFields, NEW i \in 0 .. 3, i < FieldWords[f]
  PROVE  LET d == [c EXCEPT !.written = @ \cup {<<f, i>>}]
         IN  /\ d \in OtpChips /\ SameStatus(c, d)
             /\ d.protect = c.protect /\ d.flags = c.flags
             /\ d.written = c.written \cup {<<f, i>>}
<1>1. FieldWords[f] \in Nat
  BY OtpAssumption DEF OtpAssumption, FieldWords
<1>2. <<f, i>> \in WordsOf(f)
  BY <1>1 DEF WordsOf
<1> QED
  BY <1>2 DEF OtpChips, SameStatus

(* An outcome o of writing the first n words of field f to chip c.         *)
WroteWords(c, f, n, o) ==
  /\ o \in Outcomes /\ Writing(o.chip) /\ Grows(c, o.chip)
  /\ o.chip.protect = c.protect /\ o.chip.flags = c.flags /\ o.chip.explicit = c.explicit
  /\ o.ok => o.chip.lost \/ \A i \in 0 .. n - 1 : i < FieldWords[f] => <<f, i>> \in o.chip.written

LEMMA Turn_outcome ==
  ASSUME NEW c, NEW f \in OtpFields, NEW i \in 0 .. 3, NEW S,
         NEW n \in 1 .. 4, n = i + 1, \A o \in S : WroteWords(c, f, i, o)
  PROVE  \A o \in Turn(S, f, i) : WroteWords(c, f, n, o)
<1>1. CASE ~(i < FieldWords[f])
  BY <1>1 DEF Turn, WroteWords
<1>2. CASE i < FieldWords[f]
  <2> SUFFICES ASSUME NEW o \in Turn(S, f, i) PROVE WroteWords(c, f, n, o)
    OBVIOUS
  <2>1. PICK p \in S : IF p.ok THEN o \in write_otp_location(p.chip,
                                       [p.chip EXCEPT !.written = @ \cup {<<f, i>>}])
                               ELSE o = p
    BY <1>2 DEF Turn, AndThen
  <2>2. /\ p \in Outcomes /\ Writing(p.chip) /\ Grows(c, p.chip) /\ p.chip \in OtpChips
        /\ p.ok \in BOOLEAN
        /\ p.chip.protect = c.protect /\ p.chip.flags = c.flags /\ p.chip.explicit = c.explicit
        /\ p.ok => p.chip.lost \/ \A j \in 0 .. i - 1 : j < FieldWords[f] => <<f, j>> \in p.chip.written
    BY <2>1 DEF WroteWords, Outcomes
  <2>3. CASE ~p.ok
    BY <2>1, <2>2, <2>3 DEF WroteWords
  <2>4. CASE p.ok
    <3> DEFINE d == [p.chip EXCEPT !.written = @ \cup {<<f, i>>}]
    <3>1. /\ d \in OtpChips /\ SameStatus(p.chip, d)
          /\ d.protect = p.chip.protect /\ d.flags = p.chip.flags
          /\ d.written = p.chip.written \cup {<<f, i>>}
      BY <1>2, <2>2, WordTyped
    <3>2. o \in write_otp_location(p.chip, d)
      BY <2>1, <2>4
    <3> HIDE DEF d
    <3>3. /\ o \in Outcomes /\ Writing(o.chip) /\ Grows(p.chip, o.chip)
          /\ SameMemory(p.chip, o.chip) \/ SameMemory(d, o.chip)
          /\ o.ok => o.chip.lost \/ SameMemory(d, o.chip)
      BY <2>2, <3>1, <3>2, write_otp_location_outcome
    <3>4. o.chip.protect = c.protect /\ o.chip.flags = c.flags /\ o.chip.explicit = c.explicit
      BY <2>2, <3>1, <3>3 DEF SameMemory, SameStatus
    <3>5. ASSUME o.ok, ~o.chip.lost, NEW j \in 0 .. i, j < FieldWords[f]
          PROVE  <<f, j>> \in o.chip.written
      <4>1. o.chip.written = p.chip.written \cup {<<f, i>>}
        BY <3>1, <3>3, <3>5 DEF SameMemory
      <4>2. ~p.chip.lost
        BY <3>3, <3>5 DEF Grows
      <4>3. j \in 0 .. i - 1 \/ j = i
        OBVIOUS
      <4> QED
        BY <2>2, <2>4, <3>5, <4>1, <4>2, <4>3
    <3>6. n - 1 = i
      OBVIOUS
    <3> QED
      BY <2>2, <3>3, <3>4, <3>5, <3>6 DEF WroteWords, Grows
  <2> QED
    BY <2>2, <2>3, <2>4
<1> QED
  BY <1>1, <1>2

(* The words of a field: all of them after a success, unless a write was   *)
(* lost.                                                                   *)
LEMMA WriteWords_outcome ==
  ASSUME NEW c, Writing(c), NEW f \in OtpFields, NEW o \in WriteWords(c, f)
  PROVE  /\ o \in Outcomes /\ Writing(o.chip) /\ Grows(c, o.chip)
         /\ o.chip.protect = c.protect /\ o.chip.flags = c.flags
         /\ o.chip.explicit = c.explicit
         /\ o.ok => o.chip.lost \/ WordsOf(f) \subseteq o.chip.written
<1> DEFINE T0 == {Success(c)}
           T1 == Turn(T0, f, 0)
           T2 == Turn(T1, f, 1)
           T3 == Turn(T2, f, 2)
           T4 == Turn(T3, f, 3)
<1>1. \A p \in T0 : WroteWords(c, f, 0, p)
  <2>1. c \in OtpChips /\ Grows(c, c) /\ 0 .. 0 - 1 = {}
    BY DEF Writing, Grows
  <2>2. Success(c) \in Outcomes /\ Success(c).chip = c
    BY <2>1, OutcomeOf
  <2> QED
    BY <2>1, <2>2 DEF WroteWords
<1> HIDE DEF T0
<1>2. \A p \in T1 : WroteWords(c, f, 1, p)
  BY <1>1, Turn_outcome
<1> HIDE DEF T1
<1>3. \A p \in T2 : WroteWords(c, f, 2, p)
  <2>1. 1 \in 0 .. 3 /\ 2 \in 1 .. 4 /\ 2 = 1 + 1
    OBVIOUS
  <2> QED
    BY <1>2, <2>1, Turn_outcome
<1> HIDE DEF T2
<1>4. \A p \in T3 : WroteWords(c, f, 3, p)
  BY <1>3, Turn_outcome, SMTT(40)
<1> HIDE DEF T3
<1>5. \A p \in T4 : WroteWords(c, f, 4, p)
  BY <1>4, Turn_outcome
<1>6. o \in T4
  BY DEF T0, T1, T2, T3, T4, WriteWords
<1> HIDE DEF T4
<1>7. WroteWords(c, f, 4, o)
  BY <1>5, <1>6
<1>8. FieldWords[f] \in 1 .. 4
  BY OtpAssumption DEF OtpAssumption, FieldWords
<1>9. (\A i \in 0 .. 4 - 1 : i < FieldWords[f] => <<f, i>> \in o.chip.written)
        => WordsOf(f) \subseteq o.chip.written
  BY <1>8 DEF WordsOf
<1> QED
  BY <1>7, <1>9 DEF WroteWords

LEMMA FlagsTyped ==
  ASSUME NEW c \in OtpChips, NEW s \in SUBSET Flagged
  PROVE  LET d == [c EXCEPT !.flags = @ \cup s]
         IN  /\ d \in OtpChips /\ SameStatus(c, d)
             /\ d.written = c.written /\ d.flags = c.flags \cup s
  BY DEF OtpChips, SameStatus

LEMMA ClearFlags_outcome ==
  ASSUME NEW c, Writing(c), NEW s \in SUBSET Flagged, NEW o \in ClearFlags(c, s)
  PROVE  /\ o \in Outcomes /\ Writing(o.chip) /\ Grows(c, o.chip)
         /\ o.chip.written = c.written /\ o.chip.explicit = c.explicit
         /\ o.chip.flags \subseteq c.flags \cup s
<1> DEFINE d == [c EXCEPT !.flags = @ \cup s]
<1>1. c \in OtpChips
  BY DEF Writing
<1>2. /\ d \in OtpChips /\ SameStatus(c, d)
      /\ d.written = c.written /\ d.flags = c.flags \cup s
  BY <1>1, FlagsTyped
<1>3. PICK q \in write_otp_location(c, d) : o = Success(q.chip)
  BY DEF ClearFlags
<1> HIDE DEF d
<1>4. /\ q \in Outcomes /\ Writing(q.chip) /\ Grows(c, q.chip)
      /\ SameMemory(c, q.chip) \/ SameMemory(d, q.chip)
  BY <1>1, <1>2, <1>3, write_otp_location_outcome
<1>5. o \in Outcomes /\ o.chip = q.chip
  BY <1>3, <1>4, OutcomeOf DEF Writing
<1> QED
  BY <1>2, <1>4, <1>5 DEF SameMemory, SameStatus

(* An outcome o of writing a field to chip c: a flag follows its words.    *)
WroteField(c, o) ==
  /\ o \in Outcomes /\ Sound(o.chip) /\ Grows(c, o.chip)
  /\ \A g \in o.chip.flags \ c.flags :
       WordsOf(g) \subseteq o.chip.written \/ o.chip.explicit \/ o.chip.lost

LEMMA WriteProtects_outcome ==
  ASSUME NEW c, Writing(c), NEW v \in Locking, NEW o \in WriteProtects(c, v)
  PROVE  WroteField(c, o)
<1>1. c \in OtpChips /\ Sound(c) /\ (c.lost \/ InMode(c, "write", "2V5"))
  BY DEF Writing
<1>2. PICK k \in (SUBSET c.protect) \X (SUBSET c.protect) \X BOOLEAN :
        o = Success([c EXCEPT !.protect = k[1] \cup {Programmed(w, v) : w \in k[2]},
                              !.lost = @ \/ k[3], !.misuse = @ \/ ~InMode(c, "write", "2V5")])
  BY DEF WriteProtects
<1> DEFINE P == k[1] \cup {Programmed(w, v) : w \in k[2]}
<1>3. P \subseteq Patterns
  <2>1. k[1] \subseteq Patterns /\ k[2] \subseteq Patterns
    BY <1>1, <1>2, ChipFields
  <2>2. \A w \in Patterns : Programmed(w, v) \in Patterns
    BY DEF Programmed, Locking, Patterns
  <2> QED
    BY <2>1, <2>2
<1> HIDE DEF P
<1> DEFINE d == [c EXCEPT !.protect = P, !.lost = @ \/ k[3],
                          !.misuse = @ \/ ~InMode(c, "write", "2V5")]
<1>4. /\ d \in OtpChips /\ Grows(c, d) /\ d.flags = c.flags /\ Sound(d)
  BY <1>1, <1>2, <1>3 DEF OtpChips, Grows, Sound, InMode
<1>5. o = Success(d)
  BY <1>2 DEF P
<1> HIDE DEF d
<1> QED
  BY <1>4, <1>5, OutcomeOf DEF WroteField

LEMMA WriteField_outcome ==
  ASSUME NEW c, Writing(c), NEW f \in OtpFields,
         NEW v, f = "REGION_PROTECT" => v \in Locking,
         NEW o \in WriteField(c, f, v)
  PROVE  WroteField(c, o)
<1>1. CASE f = "REGION_PROTECT"
  <2>1. o \in WriteProtects(c, v)
    BY <1>1 DEF WriteField, Flagged
  <2> QED
    BY <1>1, <2>1, WriteProtects_outcome
<1>2. CASE f = "REGION_DEFAULTS"
  <2> DEFINE e == [c EXCEPT !.explicit = TRUE]
  <2>1. PICK s \in SUBSET (Flagged \cap OtpFields) : o \in ClearFlags(e, s)
    BY <1>2 DEF WriteField, Flagged
  <2>2. Writing(e) /\ Grows(c, e) /\ e.explicit
    BY DEF Writing, OtpChips, Sound, InMode, Grows
  <2> HIDE DEF e
  <2>3. o \in Outcomes /\ Writing(o.chip) /\ Grows(e, o.chip) /\ o.chip.explicit
    BY <2>1, <2>2, ClearFlags_outcome
  <2> QED
    BY <2>2, <2>3 DEF WroteField, Writing, Grows
<1>3. CASE f \in Flagged
  <2>1. PICK w \in WriteWords(c, f) : IF w.ok THEN o \in ClearFlags(w.chip, {f}) ELSE o = w
    BY <1>3 DEF WriteField, AndThen, Flagged
  <2>2. /\ w \in Outcomes /\ Writing(w.chip) /\ Grows(c, w.chip)
        /\ w.chip.flags = c.flags
        /\ w.ok => w.chip.lost \/ WordsOf(f) \subseteq w.chip.written
    BY <2>1, WriteWords_outcome
  <2>3. CASE w.ok
    <3>1. /\ o \in Outcomes /\ Writing(o.chip) /\ Grows(w.chip, o.chip)
          /\ o.chip.written = w.chip.written
          /\ o.chip.flags \subseteq w.chip.flags \cup {f}
      BY <1>3, <2>1, <2>2, <2>3, ClearFlags_outcome
    <3> QED
      BY <2>2, <2>3, <3>1 DEF WroteField, Writing, Grows
  <2>4. CASE ~w.ok
    BY <2>1, <2>2, <2>4 DEF WroteField, Writing
  <2>5. w.ok \in BOOLEAN
    BY <2>2 DEF Outcomes
  <2> QED
    BY <2>3, <2>4, <2>5
<1>4. CASE f \notin Flagged \cup {"REGION_PROTECT", "REGION_DEFAULTS"}
  <2>1. o \in WriteWords(c, f)
    BY <1>4 DEF WriteField
  <2> QED
    BY <2>1, WriteWords_outcome DEF WroteField, Writing
<1> QED
  BY <1>1, <1>2, <1>3, <1>4

LEMMA WroteFieldThen ==
  ASSUME NEW c, NEW o, NEW p, WroteField(c, o), Accesses(o.chip, p)
  PROVE  WroteField(c, p)
  BY DEF WroteField, Accesses, SameMemory, Grows

LEMMA AccessesThenWrote ==
  ASSUME NEW c, NEW o, NEW p, Accesses(c, o), WroteField(o.chip, p)
  PROVE  WroteField(c, p)
  BY DEF WroteField, Accesses, SameMemory, Grows

LEMMA AccessesAreWrites ==
  ASSUME NEW c, NEW o, Accesses(c, o), Sound(c)
  PROVE  WroteField(c, o)
  BY DEF WroteField, Accesses, SameMemory

(* The way back after an error.                                            *)
LEMMA Leave_outcome ==
  ASSUME NEW c \in OtpChips, NEW s \in request_mode(c, "standby"),
         NEW q \in set_voltage(s.chip, "1V8"), NEW o,
         o = [q EXCEPT !.ok = @ /\ s.ok]
  PROVE  Accesses(c, o)
<1>1. Accesses(c, s) /\ s.chip \in OtpChips /\ s.ok \in BOOLEAN
  BY ModeAccesses DEF Accesses, Outcomes
<1>2. Accesses(s.chip, q) /\ q \in Outcomes
  BY <1>1, set_voltage_outcome DEF Accesses
<1>3. o \in Outcomes /\ o.chip = q.chip
  BY <1>1, <1>2 DEF Outcomes
<1>4. Accesses(s.chip, o)
  BY <1>2, <1>3 DEF Accesses
<1> QED
  BY <1>1, <1>4, AccessesFollow

(* write_otp_memory up to its last label: a chip that is ready is written. *)
LEMMA write_otp_memory_outcome ==
  ASSUME NEW c \in OtpChips, Sound(c), NEW f \in OtpFields,
         NEW v, f = "REGION_PROTECT" => v \in Locking,
         NEW o \in write_otp_memory(c, f, v)
  PROVE  WroteField(c, o)
<1> DEFINE Mode(g)   == AndThen(request_mode(g, "write"), LAMBDA h : WriteField(h, f, v))
           Volt(e)   == AndThen(set_voltage(e, "2V5"), LAMBDA g : Mode(g))
           write(d)  == AndThen(set_otp_timing_reg_40mhz(d), LAMBDA e : Volt(e))
           leave(e)  == UNION {{[q EXCEPT !.ok = @ /\ s.ok] : q \in set_voltage(s.chip, "1V8")} :
                               s \in request_mode(e, "standby")}
           all(d)    == UNION {IF w.ok THEN {w} ELSE leave(w.chip) : w \in write(d)}
<1>1. PICK p \in poll_otp_ready(c) : IF p.ok THEN o \in all(p.chip) ELSE o = p
  BY DEF write_otp_memory, AndThen
<1>2. Accesses(c, p) /\ p.chip \in OtpChips /\ p.ok \in BOOLEAN /\ Sound(p.chip)
  BY PollAccesses DEF Accesses, Outcomes
<1>3. ASSUME NEW w \in write(p.chip) PROVE WroteField(p.chip, w)
  <2>1. PICK t \in set_otp_timing_reg_40mhz(p.chip) : IF t.ok THEN w \in Volt(t.chip) ELSE w = t
    BY <1>3 DEF AndThen
  <2>2. Accesses(p.chip, t) /\ t.ok /\ t.chip \in OtpChips
    BY <1>2, TimingAccesses DEF Accesses, Outcomes
  <2>3. PICK x \in set_voltage(t.chip, "2V5") : IF x.ok THEN w \in Mode(x.chip) ELSE w = x
    BY <2>1, <2>2 DEF AndThen
  <2>4. /\ Accesses(t.chip, x) /\ x.chip \in OtpChips /\ x.ok \in BOOLEAN
        /\ x.ok => x.chip.lost \/ x.chip.volt = "2V5"
    BY <2>2, set_voltage_outcome DEF Accesses, Outcomes
  <2>5. Accesses(p.chip, x)
    BY <2>2, <2>4, AccessesFollow
  <2>6. CASE x.ok
    <3>1. PICK r \in request_mode(x.chip, "write") :
            IF r.ok THEN w \in WriteField(r.chip, f, v) ELSE w = r
      BY <2>3, <2>6 DEF AndThen
    <3>2. /\ Accesses(x.chip, r) /\ r.chip.volt = x.chip.volt
          /\ r.chip \in OtpChips /\ r.ok \in BOOLEAN
          /\ r.ok => r.chip.lost \/ (r.chip.mode = "write" /\ r.chip.settled)
      BY <2>4, ModeAccesses, request_mode_outcome DEF Accesses, Outcomes
    <3>3. Accesses(p.chip, r)
      BY <2>5, <3>2, AccessesFollow
    <3>4. CASE r.ok
      <4>1. r.chip.lost \/ InMode(r.chip, "write", "2V5")
        BY <2>4, <2>6, <3>2, <3>4 DEF InMode, Accesses, Grows
      <4>2. Writing(r.chip)
        BY <1>2, <3>2, <3>3, <4>1 DEF Writing, Accesses
      <4>3. WroteField(r.chip, w)
        BY <3>1, <3>4, <4>2, WriteField_outcome
      <4> QED
        BY <3>3, <4>3, AccessesThenWrote
    <3>5. CASE ~r.ok
      BY <1>2, <3>1, <3>3, <3>5, AccessesAreWrites
    <3> QED
      BY <3>2, <3>4, <3>5
  <2>7. CASE ~x.ok
    BY <1>2, <2>3, <2>5, <2>7, AccessesAreWrites
  <2> QED
    BY <2>4, <2>6, <2>7
<1> HIDE DEF write
<1>4. CASE p.ok
  <2>1. PICK w \in write(p.chip) : o \in IF w.ok THEN {w} ELSE leave(w.chip)
    BY <1>1, <1>4
  <2>2. WroteField(p.chip, w) /\ w.chip \in OtpChips /\ w.ok \in BOOLEAN
    BY <1>3, <2>1 DEF WroteField, Outcomes
  <2>3. WroteField(p.chip, o)
    <3>1. CASE w.ok
      BY <2>1, <2>2, <3>1
    <3>2. CASE ~w.ok
      <4>1. PICK s \in request_mode(w.chip, "standby") :
              \E q \in set_voltage(s.chip, "1V8") : o = [q EXCEPT !.ok = @ /\ s.ok]
        BY <2>1, <3>2
      <4>2. Accesses(w.chip, o)
        BY <2>2, <4>1, Leave_outcome
      <4> QED
        BY <2>2, <4>2, WroteFieldThen
    <3> QED
      BY <2>2, <3>1, <3>2
  <2> QED
    BY <1>2, <2>3, AccessesThenWrote
<1>5. CASE ~p.ok
  BY <1>1, <1>2, <1>5, AccessesAreWrites
<1> QED
  BY <1>2, <1>4, <1>5

---------------------------------------------------------------------------
(* The commands.                                                           *)

(* A command forgets the history of the last one.                          *)
LEMMA Begun ==
  ASSUME NEW c \in OtpChips
  PROVE  /\ Begin(c) \in OtpChips /\ Sound(Begin(c)) /\ ~Begin(c).unread
         /\ Begin(c).protect = c.protect /\ Begin(c).written = c.written
         /\ Begin(c).flags = c.flags
  BY DEF Begin, OtpChips, Sound

(* The memory of a locked region.                                          *)
Locked(c) == check_protection(c.protect) \in {"OTP_PROGRAMMED", "OTP_INVALID"}

(* What a command does to the chip, from c to d.                           *)
Command(c, d) ==
  /\ d \in OtpChips /\ Sound(d)
  /\ \A g \in d.flags \ c.flags : WordsOf(g) \subseteq d.written \/ d.explicit \/ d.lost
  /\ Locked(c) /\ ~d.unread =>
       d.protect = c.protect /\ d.written = c.written /\ d.flags = c.flags

LEMMA ReadIsCommand ==
  ASSUME NEW c \in OtpChips, NEW o, Accesses(Begin(c), o)
  PROVE  Command(c, o.chip)
  BY Begun DEF Command, Accesses, Outcomes, SameMemory

LEMMA ReadCommandIs ==
  ASSUME OtpTypeOK, ReadCommand
  PROVE  Command(otp, otp')
<1>1. PICK o \in read_otp_memory(Begin(otp)) : otp' = o.chip
  BY DEF ReadCommand
<1>2. Begin(otp) \in OtpChips
  BY Begun DEF OtpTypeOK
<1> QED
  BY <1>1, <1>2, read_otp_memory_outcome, ReadIsCommand DEF OtpTypeOK

LEMMA ReadRetrimIs ==
  ASSUME OtpTypeOK, ReadRetrim
  PROVE  Command(otp, otp')
<1> DEFINE again(c) == {Success(c) : w \in c.protect \cap {"OTP_FRESH_FROM_FAB"}}
                         \cup UNION {read_otp_memory(c) : w \in c.protect \ {"OTP_FRESH_FROM_FAB"}}
<1>1. PICK o \in AndThen(read_otp_memory(Begin(otp)), LAMBDA c : again(c)) : otp' = o.chip
  BY DEF ReadRetrim
<1>2. PICK p \in read_otp_memory(Begin(otp)) : IF p.ok THEN o \in again(p.chip) ELSE o = p
  BY <1>1 DEF AndThen
<1>3. Accesses(Begin(otp), p) /\ p.chip \in OtpChips
  BY <1>2, Begun, read_otp_memory_outcome DEF OtpTypeOK, Accesses, Outcomes
<1>4. Accesses(Begin(otp), o)
  <2>1. CASE o = p
    BY <1>3, <2>1
  <2>2. CASE o \in again(p.chip)
    <3>1. CASE o = Success(p.chip)
      BY <1>3, <3>1, OutcomeOf DEF Accesses
    <3>2. CASE o \in read_otp_memory(p.chip)
      BY <1>3, <3>2, read_otp_memory_outcome, AccessesFollow
    <3> QED
      BY <2>2, <3>1, <3>2
  <2> QED
    BY <1>2, <2>1, <2>2
<1> QED
  BY <1>1, <1>4, ReadIsCommand DEF OtpTypeOK

(* A judgement that finds a locked region open was made of unread words.   *)
LEMMA JudgedOpen_outcome ==
  ASSUME NEW c \in OtpChips, NEW j \in JudgedOpen(c)
  PROVE  /\ j.c \in OtpChips /\ SameMemory(c, j.c) /\ (c.lost => j.c.lost)
         /\ Sound(c) => Sound(j.c)
         /\ j.open /\ Locked(c) => j.c.unread
<1>1. CASE j = [c |-> c, open |-> check_protection(c.protect)
                                    \in {"OTP_ENABLE_PATTERN", "OTP_FRESH_FROM_FAB"}]
  BY <1>1 DEF SameMemory, Locked
<1>2. CASE j \in [c : {[c EXCEPT !.unread = TRUE]}, open : BOOLEAN]
  BY <1>2 DEF OtpChips, SameMemory, Sound
<1> QED
  BY <1>1, <1>2 DEF JudgedOpen

LEMMA WriteIs ==
  ASSUME OtpTypeOK, NEW f \in OtpFields,
         NEW v, f = "REGION_PROTECT" => v \in Locking, Write(f, v)
  PROVE  Command(otp, otp')
<1> DEFINE b         == Begin(otp)
           judged(c) == UNION {IF j.open THEN write_otp_memory(j.c, f, v) ELSE {Failure(j.c)} :
                               j \in JudgedOpen(c)}
<1>1. /\ b \in OtpChips /\ Sound(b)
      /\ b.protect = otp.protect /\ b.written = otp.written /\ b.flags = otp.flags
  BY Begun DEF OtpTypeOK
<1>2. PICK o \in AndThen(read_otp_memory(b), LAMBDA c : judged(c)) : otp' = o.chip
  BY DEF Write
<1>3. PICK p \in read_otp_memory(b) : IF p.ok THEN o \in judged(p.chip) ELSE o = p
  BY <1>2 DEF AndThen
<1>4. Accesses(b, p)
  BY <1>1, <1>3, read_otp_memory_outcome
<1>5. CASE ~p.ok
  BY <1>2, <1>3, <1>4, <1>5, ReadIsCommand DEF OtpTypeOK
<1>6. CASE p.ok
  <2>1. PICK j \in JudgedOpen(p.chip) :
          o \in IF j.open THEN write_otp_memory(j.c, f, v) ELSE {Failure(j.c)}
    BY <1>3, <1>6
  <2>2. /\ p.chip \in OtpChips /\ Sound(p.chip) /\ Locked(p.chip) = Locked(otp)
        /\ p.chip.protect = otp.protect /\ p.chip.written = otp.written
        /\ p.chip.flags = otp.flags
    BY <1>1, <1>4 DEF Accesses, Outcomes, SameMemory, Locked
  <2>3. /\ j.c \in OtpChips /\ SameMemory(p.chip, j.c) /\ Sound(j.c)
        /\ j.open /\ Locked(p.chip) => j.c.unread
    BY <2>1, <2>2, JudgedOpen_outcome
  <2>4. CASE j.open
    <3>1. WroteField(j.c, o)
      BY <2>1, <2>3, <2>4, write_otp_memory_outcome
    <3> QED
      BY <1>2, <2>2, <2>3, <2>4, <3>1 DEF Command, WroteField, SameMemory, Grows, Outcomes
  <2>5. CASE ~j.open
    <3>1. o.chip = j.c
      BY <2>1, <2>3, <2>5, OutcomeOf
    <3> QED
      BY <1>2, <2>2, <2>3, <3>1 DEF Command, SameMemory
  <2> QED
    BY <2>4, <2>5
<1>7. p.ok \in BOOLEAN
  BY <1>4 DEF Accesses, Outcomes
<1> QED
  BY <1>5, <1>6, <1>7

LEMMA OtpStep ==
  ASSUME OtpTypeOK, OtpNext
  PROVE  Command(otp, otp')
<1>1. CASE \E f \in OtpFields : \E v \in IF f = "REGION_PROTECT" THEN Locking ELSE {0} : Write(f, v)
  <2>1. PICK f \in OtpFields :
          \E v \in IF f = "REGION_PROTECT" THEN Locking ELSE {0} : Write(f, v)
    BY <1>1
  <2> QED
    BY <2>1, WriteIs
<1> QED
  BY <1>1, ReadCommandIs, ReadRetrimIs DEF OtpNext

OtpInv == OtpTypeOK /\ AccessInMode

LEMMA OtpInvInit == OtpInit => OtpInv
  BY DEF OtpInit, OtpInv, OtpTypeOK, OtpChips, AccessInMode, Patterns

LEMMA OtpInvNext == OtpInv /\ [OtpNext]_otp => OtpInv'
  BY OtpStep DEF OtpInv, OtpTypeOK, AccessInMode, Command, Sound

LEMMA OtpInvariance == OtpSpec => []OtpInv
  BY OtpInvInit, OtpInvNext, PTL DEF OtpSpec

(* The one-time memory has no other mode, voltage, pattern or word than    *)
(* those of the commands.                                                  *)
THEOREM OtpTypes == OtpSpec => []OtpTypeOK
<1>1. OtpInv => OtpTypeOK
  BY DEF OtpInv
<1> QED
  BY OtpInvariance, <1>1, PTL

(* Every location is read and programmed in its mode and at its voltage,   *)
(* whichever poll times out in the command, unless a bus write of the same *)
(* command was lost.                                                       *)
THEOREM AccessesAreInMode == OtpSpec => []AccessInMode
<1>1. OtpInv => AccessInMode
  BY DEF OtpInv
<1> QED
  BY OtpInvariance, <1>1, PTL

(* A flag of REGION_DEFAULTS is cleared after all the words of its field.  *)
THEOREM FlagsFollowFields == OtpSpec => FlagAfterField
<1>1. OtpInv /\ [OtpNext]_otp =>
        [\A f \in otp'.flags \ otp.flags :
           WordsOf(f) \subseteq otp'.written \/ otp'.explicit \/ otp'.lost]_otp
  BY OtpStep DEF OtpInv, Command
<1> QED
  BY OtpInvariance, <1>1, PTL DEF OtpSpec, FlagAfterField

(* What a command has locked no later command changes, unless it judged    *)
(* protection words that it had not read.                                  *)
THEOREM LockedRegionStays == OtpSpec => LockedStays
<1>1. OtpInv /\ [OtpNext]_otp =>
        [check_protection(otp.protect) \in {"OTP_PROGRAMMED", "OTP_INVALID"} /\ ~otp'.unread =>
           /\ otp'.protect = otp.protect
           /\ otp'.written = otp.written /\ otp'.flags = otp.flags]_otp
  BY OtpStep DEF OtpInv, Command, Locked
<1> QED
  BY OtpInvariance, <1>1, PTL DEF OtpSpec, LockedStays
=============================================================================
