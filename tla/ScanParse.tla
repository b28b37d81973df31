----------------------------- MODULE ScanParse ------------------------------
(***************************************************************************)
(* The scan parameters of the samples, scan_bm/src/utils.c (the same file  *)
(* is in scan_rt_bm): the channel list "2:1,5,9-11_5:36-48" is read string *)
(* by string into an array of max_channels entries.  A step is one turn of *)
(* a loop of the parser: a band, or a channel with the character after it. *)
(* Numbers have up to three digits (four leave chan_str unterminated) and  *)
(* go through atoi into a uint8_t.                                         *)
(***************************************************************************)
EXTENDS Naturals, Sequences, FiniteSets, Functions

CONSTANTS
  max_channels,   \* size of the array
  Numbers,        \* the numbers in the input
  MaxStrings      \* bound: channel strings in the input

ASSUME ParseAssumption == max_channels \in 1 .. 110 /\ Numbers \subseteq 0 .. 999

ScanBands == {2, 5, 6}

VARIABLES
  at,          \* what comes next: "band", "chan"; at the end "ok" or "error"
  band, chan_start, chan_idx,
  band_chan,   \* the entries written, those past the array included
  denoted,     \* the reference: what the list read so far denotes
  dash,        \* its number before a "-", or 0
  odd,         \* history: the list has something the parser gets wrong
  strings      \* channel strings read

scanVars == <<at, band, chan_start, chan_idx, band_chan, denoted, dash, odd, strings>>

valid_5g_chans_20mhz ==
  <<32, 36, 40, 44, 48, 52, 56, 60, 64, 68, 96, 100, 104, 108, 112, 116, 120, 124, 128, 132,
    136, 140, 144, 149, 153, 157, 159, 161, 163, 165, 167, 169, 171, 173, 175, 177>>

(* wifi_utils_validate_chan of band b, as the set of its channels.         *)
Channels(b) ==
  CASE b = 2 -> 1 .. 14
    [] b = 5 -> Range(valid_5g_chans_20mhz)
    [] b = 6 -> {c \in 1 .. 233 : (c - 1) % 4 = 0} \cup {2}

ScanInit ==
  /\ at = "band" /\ band = 2 /\ chan_start = 0 /\ chan_idx = 0
  /\ band_chan = <<>>
  /\ denoted = <<>> /\ dash = 0 /\ odd = FALSE /\ strings = 0

---------------------------------------------------------------------------
(* Ranges.                                                                 *)

Ascending(S) ==
  [k \in 1 .. Cardinality(S) |-> CHOOSE c \in S : Cardinality({d \in S : d <= c}) = k]

(* What a range denotes after its first channel.                           *)
Between(b, s, e) == Ascending({c \in Channels(b) : s < c /\ c <= e})

(* The channels wifi_utils_get_all_chans_in_range writes: in the 5 GHz     *)
(* band the search for the end goes on after the start, so that a range of *)
(* one channel never ends before the table does; in the 6 GHz band steps   *)
(* of four from the number after the start, except from 2 to 5.            *)
Written(b, s, e) ==
  CASE b = 2 -> Ascending(s + 1 .. e)
    [] b = 5 -> Ascending({c \in Channels(5) : s < c /\ (c <= e \/ s = e)})
    [] b = 6 -> IF s = 1 THEN Between(6, s, e)
                ELSE Ascending({c \in s + 1 .. e : (c - s - 1) % 4 = 0})

(* By how many entries it moves chan_idx on.                               *)
Advance(b, s, e) == IF b = 5 /\ s = e THEN 0 ELSE Len(Written(b, s, e))

(* The lists whose ranges or numbers are read as something else.           *)
OddRange(b, s, e) == (b = 5 /\ s = e) \/ (b = 6 /\ s # 1 /\ s # e)

(* The reference: number n with t after it, read on its own.              *)
Denote(n, t) ==
  /\ LET s == IF dash = 0 THEN <<n>> ELSE Between(band, dash, n)
     IN  denoted' = denoted \o [k \in DOMAIN s |-> <<band, s[k]>>]
  /\ dash' = IF t = "-" THEN n ELSE 0

(* Entries s of band b stored from index i on.                             *)
Store(array, i, b, s) ==
  LET n == Len(s)
  IN  [k \in 1 .. (IF Len(array) > i + n THEN Len(array) ELSE i + n) |->
         IF k \in i + 1 .. i + n THEN <<b, s[k - i]>> ELSE array[k]]

---------------------------------------------------------------------------
(* wifi_utils_parse_scan_chan.                                             *)

(* A band name and its colon; 0 stands for any other name.                 *)
ReadBand(b) ==
  /\ at = "band"
  /\ IF b \in ScanBands THEN band' = b /\ at' = "chan" ELSE at' = "error" /\ UNCHANGED band
  /\ UNCHANGED <<chan_start, chan_idx, band_chan, denoted, dash, odd, strings>>

(* The string ends before a colon: an error if there was no band at all.   *)
EndOfList ==
  /\ at = "band" /\ at' = IF strings > 0 THEN "ok" ELSE "error"
  /\ UNCHANGED <<band, chan_start, chan_idx, band_chan, denoted, dash, odd, strings>>

(* Mutant: chan_start is not reset after a range.                          *)
AfterKeeps(v, t) ==
  /\ at' = CASE t = "_" -> "band" [] t = "end" -> "ok" [] OTHER -> "chan"
  /\ chan_start' = IF t = "-" THEN v ELSE chan_start

(* The character after a channel string.                                   *)
After(v, t) ==
  /\ at' = CASE t = "_" -> "band" [] t = "end" -> "ok" [] OTHER -> "chan"
  /\ chan_start' = IF t = "-" THEN v ELSE 0

Refused ==
  at' = "error" /\ UNCHANGED <<chan_start, chan_idx, band_chan, denoted, dash, odd>>

(* A channel string, or one that is empty, too long or not a number.       *)
ReadBadChan ==
  /\ at = "chan" /\ Refused
  /\ UNCHANGED <<band, strings>>

(* Mutant: the limit is not checked.                                       *)
ReadChanUnlimited(n, t) ==
  /\ at = "chan" /\ chan_start = 0
  /\ strings < MaxStrings /\ strings' = strings + 1
  /\ n \in Channels(band)
  /\ band_chan' = Store(band_chan, chan_idx, band, <<n>>)
  /\ chan_idx' = chan_idx + 1
  /\ Denote(n, t) /\ After(n, t)
  /\ UNCHANGED <<band, odd>>

(* A channel of its own.                                                   *)
ReadChan(n, t) ==
  LET v == n % 256
  IN  /\ at = "chan" /\ chan_start = 0
      /\ strings < MaxStrings /\ strings' = strings + 1
      /\ IF v \notin Channels(band) \/ chan_idx = max_channels THEN Refused
         ELSE /\ band_chan' = Store(band_chan, chan_idx, band, <<v>>)
              /\ chan_idx' = chan_idx + 1
              /\ odd' = (odd \/ v # n)
              /\ Denote(n, t) /\ After(v, t)
      /\ UNCHANGED band

(* The end of a range: the number of entries is compared with the limit    *)
(* after they were written.                                                *)
ReadRange(n, t) ==
  LET v == n % 256
      s == chan_start
  IN  /\ at = "chan" /\ s # 0
      /\ strings < MaxStrings /\ strings' = strings + 1
      /\ IF v \notin Channels(band) \/ v < s THEN Refused
         ELSE /\ band_chan' = Store(band_chan, chan_idx, band, Written(band, s, v))
              /\ chan_idx' = chan_idx + Advance(band, s, v)
              /\ Denote(n, t)
              /\ odd' = (odd \/ v # n \/ OddRange(band, s, v))
              /\ IF chan_idx' > max_channels THEN at' = "error" /\ chan_start' = s
                 ELSE After(v, t)
      /\ UNCHANGED band

ScanNext ==
  \/ EndOfList \/ ReadBadChan
  \/ \E b \in ScanBands \cup {0} : ReadBand(b)
  \/ \E n \in Numbers, t \in {",", "-", "_", "end"} : ReadChan(n, t) \/ ReadRange(n, t)

ScanSpec == ScanInit /\ [][ScanNext]_scanVars

---------------------------------------------------------------------------
(* An accepted list is stored as what it denotes, every channel once and   *)
(* in order, across bands, ranges after ranges and ranges that share an    *)
(* end.  Three things the parser reads as something else: a number above   *)
(* 255, a 5 GHz range of one channel, and a 6 GHz range that does not      *)
(* start at channel 1.                                                     *)
StoredAsDenoted == at = "ok" => odd \/ band_chan = denoted

(* No list is accepted with more entries than the array has: the limit is  *)
(* checked before every channel and after every range.                     *)
AcceptedFits == at = "ok" => odd \/ Len(band_chan) <= max_channels

(* utils.h:108 calls max_channels the maximum number of channels to store: *)
(* nothing is written past the array, whatever becomes of the list.        *)
InsideArray == Len(band_chan) <= max_channels
=============================================================================
