------------------------------ MODULE OtpProg -------------------------------
(***************************************************************************)
(* Programming the one-time memory of the chip: nrf_wifi_ficr_prog.c and   *)
(* the shell commands of nrf_wifi_radio_ficr_shell.c.  A word can only     *)
(* lose bits, so what a command does wrongly stays.  Every access goes     *)
(* over the bus, whose status the code drops, and most steps are followed  *)
(* by a poll of up to 100 reads that may time out.  A function is modelled *)
(* by the set of its outcomes: the chip as it leaves it, and its status.   *)
(***************************************************************************)
EXTENDS Naturals

CONSTANT OtpFields   \* the fields that the commands are tried with

FieldWords ==
  [REGION_PROTECT |-> 4, QSPI_KEY |-> 4, MAC0_ADDR |-> 2, MAC1_ADDR |-> 2, CALIB_XO |-> 1,
   REGION_DEFAULTS |-> 1, PRODRETEST_PROGVERSION |-> 1, PRODRETEST_TRIM0 |-> 1]

ASSUME OtpAssumption == OtpFields \subseteq DOMAIN FieldWords

VARIABLE otp

Flagged  == {"QSPI_KEY", "MAC0_ADDR", "MAC1_ADDR", "CALIB_XO"}
Patterns == {"OTP_FRESH_FROM_FAB", "OTP_ENABLE_PATTERN", "OTP_PROGRAMMED"}
Locking  == Patterns \ {"OTP_FRESH_FROM_FAB"}   \* what the user programs there
WordsOf(f) == {f} \X (0 .. FieldWords[f] - 1)

OtpChips ==
  [mode : {"standby", "read", "write"},   \* OTP_RWSBMODE_ADDR
   settled : BOOLEAN,                     \* OTP_READY was seen in that mode
   volt : {"1V8", "2V5"},                 \* OTP_VOLTCTRL_ADDR
   protect : SUBSET Patterns,   \* the values found in the four words of REGION_PROTECT
   written : SUBSET UNION {WordsOf(f) : f \in OtpFields},   \* words of the other fields
   flags : SUBSET Flagged,                \* the flags cleared in REGION_DEFAULTS
   (* History of the last command: an access in a wrong mode or voltage; a *)
   (* decision on protection words that were not read; a failed write on   *)
   (* the bus; REGION_DEFAULTS written by the user.                        *)
   misuse : BOOLEAN, unread : BOOLEAN, lost : BOOLEAN, explicit : BOOLEAN]

OtpTypeOK == otp \in OtpChips

OtpInit ==
  otp = [mode |-> "standby", settled |-> TRUE, volt |-> "1V8",
         protect |-> {"OTP_FRESH_FROM_FAB"}, written |-> {}, flags |-> {},
         misuse |-> FALSE, unread |-> FALSE, lost |-> FALSE, explicit |-> FALSE]

---------------------------------------------------------------------------
(* Outcomes.  AndThen returns an error at once, Anyway drops the status.   *)

Success(c) == [chip |-> c, ok |-> TRUE]
Failure(c) == [chip |-> c, ok |-> FALSE]
AndThen(S, F(_)) == UNION {IF o.ok THEN F(o.chip) ELSE {o} : o \in S}
Anyway(S, F(_))  == UNION {F(o.chip) : o \in S}

(* write_word drops the status of rpu_write.  The write turns c into d.    *)
write_word(c, d) == {Success(d), Success([c EXCEPT !.lost = TRUE])}

(* A poll ends with the bit it waits for or after 100 reads; a read that   *)
(* fails leaves the word at its last value, which did not have the bit.    *)
poll_otp_ready(c) == {Success([c EXCEPT !.settled = TRUE]), Failure(c)}

request_mode(c, m) ==
  AndThen(write_word(c, [c EXCEPT !.mode = m, !.settled = FALSE]), poll_otp_ready)

(* The two timing registers, which are written and never read.             *)
set_otp_timing_reg_40mhz(c) == write_word(c, c)

(* Mutant: the voltage is changed without waiting for standby.             *)
set_voltage_now(c, v) ==
  Anyway(request_mode(c, "standby"), LAMBDA d :
    write_word(d, [d EXCEPT !.volt = v, !.misuse = @ \/ d.mode # "standby" \/ ~d.settled]))

(* otp_wr_voltage_2V5 and otp_rd_voltage_1V8: in standby only.             *)
set_voltage(c, v) ==
  AndThen(request_mode(c, "standby"), LAMBDA d :
    write_word(d, [d EXCEPT !.volt = v, !.misuse = @ \/ d.mode # "standby" \/ ~d.settled]))

InMode(c, m, v) == c.mode = m /\ c.settled /\ c.volt = v

---------------------------------------------------------------------------
(* Reading.                                                                *)

check_protection(w) ==
  IF \E p \in Patterns : w = {p} THEN CHOOSE p \in Patterns : w = {p} ELSE "OTP_INVALID"

read_otp_memory(c) ==
  AndThen(poll_otp_ready(c), LAMBDA d :
    AndThen(set_otp_timing_reg_40mhz(d), LAMBDA e :
      AndThen(set_voltage(e, "1V8"), LAMBDA f :
        AndThen(request_mode(f, "read"), LAMBDA g :
          request_mode([g EXCEPT !.misuse = @ \/ ~InMode(g, "read", "1V8")], "standby")))))

---------------------------------------------------------------------------
(* Writing.                                                                *)

(* A location: d is the chip with the word programmed, which it may be     *)
(* although the poll for OTP_WR_DONE times out.                            *)
write_otp_location(c, d) ==
  LET seen(x) == [x EXCEPT !.misuse = @ \/ ~InMode(c, "write", "2V5")]
  IN  AndThen(write_word(seen(c), seen(d)), LAMBDA e : {Success(e), Failure(e)})
        \cup {Failure(seen(c))}

(* Mutant: the bits of both are mixed.                                     *)
ProgrammedMixed(w, v) == IF w = "OTP_FRESH_FROM_FAB" \/ w = v THEN v ELSE "OTP_INVALID"

(* A one-time word keeps the bits it has lost: OTP_PROGRAMMED has none.    *)
Programmed(w, v) == IF w = "OTP_FRESH_FROM_FAB" \/ w = v THEN v ELSE "OTP_PROGRAMMED"

(* The four words of REGION_PROTECT: no status counts, so that any of them *)
(* may keep its value, k[1], or get the new one, k[2], and any write may   *)
(* have failed on the bus, k[3].                                           *)
WriteProtects(c, v) ==
  {Success([c EXCEPT !.protect = k[1] \cup {Programmed(w, v) : w \in k[2]},
                     !.lost = @ \/ k[3], !.misuse = @ \/ ~InMode(c, "write", "2V5")]) :
   k \in {j \in (SUBSET c.protect) \X (SUBSET c.protect) \X BOOLEAN :
            j[1] \cup j[2] = c.protect}}

(* Word i of field f, if it has so many: the first failure ends it.        *)
Turn(S, f, i) ==
  IF i < FieldWords[f]
    THEN AndThen(S, LAMBDA d : write_otp_location(d, [d EXCEPT !.written = @ \cup {<<f, i>>}]))
    ELSE S

WriteWords(c, f) == Turn(Turn(Turn(Turn({Success(c)}, f, 0), f, 1), f, 2), f, 3)

(* The flags s of REGION_DEFAULTS: the status does not count.              *)
ClearFlags(c, s) ==
  {Success(o.chip) : o \in write_otp_location(c, [c EXCEPT !.flags = @ \cup s])}

(* Mutant: the flag before the field.                                      *)
WriteFieldFlagFirst(c, f, v) ==
  AndThen(ClearFlags(c, {f} \cap Flagged), LAMBDA d :
    IF f = "REGION_PROTECT" THEN WriteProtects(d, v) ELSE WriteWords(d, f))

(* The switch of write_otp_memory; v is the value of a protection word.    *)
WriteField(c, f, v) ==
  CASE f = "REGION_PROTECT"  -> WriteProtects(c, v)
    [] f = "REGION_DEFAULTS" -> UNION {ClearFlags([c EXCEPT !.explicit = TRUE], s) :
                                       s \in SUBSET (Flagged \cap OtpFields)}
    [] f \in Flagged         -> AndThen(WriteWords(c, f), LAMBDA d : ClearFlags(d, {f}))
    [] OTHER                 -> WriteWords(c, f)

(* A failure after the first poll returns to standby and 1.8 V, and the    *)
(* status of that replaces the error; a success stays in the write mode.   *)
write_otp_memory(c, f, v) ==
  AndThen(poll_otp_ready(c), LAMBDA d :
    LET write == AndThen(set_otp_timing_reg_40mhz(d), LAMBDA e :
                   AndThen(set_voltage(e, "2V5"), LAMBDA g :
                     AndThen(request_mode(g, "write"), LAMBDA h : WriteField(h, f, v))))
        leave(e) == UNION {{[o EXCEPT !.ok = @ /\ s.ok] : o \in set_voltage(s.chip, "1V8")} :
                           s \in request_mode(e, "standby")}
    IN  UNION {IF o.ok THEN {o} ELSE leave(o.chip) : o \in write})

---------------------------------------------------------------------------
(* The commands.                                                           *)

Begin(c) ==
  [c EXCEPT !.misuse = FALSE, !.unread = FALSE, !.lost = FALSE, !.explicit = FALSE]

(* otp_get_status, otp_read_params; the retrim commands read twice unless  *)
(* the first protection word is fresh.                                     *)
ReadCommand ==
  \E o \in read_otp_memory(Begin(otp)) : otp' = o.chip

ReadRetrim ==
  \E o \in AndThen(read_otp_memory(Begin(otp)), LAMBDA c :
             {Success(c) : w \in c.protect \cap {"OTP_FRESH_FROM_FAB"}}
               \cup UNION {read_otp_memory(c) : w \in c.protect \ {"OTP_FRESH_FROM_FAB"}}) :
    otp' = o.chip

(* Mutant: no look at the protection.                                      *)
JudgedOpenAlways(c) == {[c |-> c, open |-> TRUE]}

(* check_protection on the four words.  read_otp_memory does not report a  *)
(* location that could not be read and leaves its word uninitialised: then *)
(* the answer may be any.                                                  *)
JudgedOpen(c) ==
  {[c |-> c, open |-> check_protection(c.protect) \in {"OTP_ENABLE_PATTERN", "OTP_FRESH_FROM_FAB"}]}
    \cup [c : {[c EXCEPT !.unread = TRUE]}, open : BOOLEAN]

(* otp_write_params, otp_write_retrim_version and otp_write_retrim_params  *)
(* with valid arguments.                                                   *)
Write(f, v) ==
  \E o \in AndThen(read_otp_memory(Begin(otp)), LAMBDA c :
             UNION {IF j.open THEN write_otp_memory(j.c, f, v) ELSE {Failure(j.c)} :
                    j \in JudgedOpen(c)}) :
    otp' = o.chip

OtpNext ==
  \/ ReadCommand \/ ReadRetrim
  \/ \E f \in OtpFields : \E v \in IF f = "REGION_PROTECT" THEN Locking ELSE {0} : Write(f, v)

OtpSpec == OtpInit /\ [][OtpNext]_otp

---------------------------------------------------------------------------
(* A location is read in the read mode at 1.8 V and programmed in the      *)
(* write mode at 2.5 V, once the chip was ready in that mode and the       *)
(* timing set, and the voltage changes in standby: after any sequence of   *)
(* commands, of which a successful write leaves the chip in the write mode *)
(* at 2.5 V.  Only a write that failed on the bus in the same command, of  *)
(* which no function learns, may make it otherwise.                        *)
AccessInMode == otp.misuse => otp.lost

(* REGION_DEFAULTS says that a field is programmed only after all its      *)
(* words are, unless the user wrote REGION_DEFAULTS, or a write failed on  *)
(* the bus.                                                                *)
FlagAfterField ==
  [][\A f \in otp'.flags \ otp.flags :
       WordsOf(f) \subseteq otp'.written \/ otp'.explicit \/ otp'.lost]_otp

(* A region whose protection words do not allow writing is not changed any *)
(* more, unless the command judged words it had not read.                  *)
LockedStays ==
  [][check_protection(otp.protect) \in {"OTP_PROGRAMMED", "OTP_INVALID"} /\ ~otp'.unread =>
       /\ otp'.protect = otp.protect
       /\ otp'.written = otp.written /\ otp'.flags = otp.flags]_otp
=============================================================================
