-------------------------- MODULE SequentialProofs --------------------------
(***************************************************************************)
(* The parts that do not share state: the cutting of an unaligned read,    *)
(* the waking of the chip and the scan channel list, each on its own, and  *)
(* the types of all that keep any.                                         *)
(***************************************************************************)
EXTENDS MCSequential, OtpProgProofs, ChipMemoryProofs, FiniteSetTheorems,
        SequenceTheorems, TLAPS

---------------------------------------------------------------------------
(* The split of an unaligned read is right at every address, for every     *)
(* destination and every length, not only the bounded ones TLC enumerates. *)

AnyAsk == [addr : Nat, dptr : Nat, size : Nat \ {0}]

LEMMA ToWordRange ==
  ASSUME NEW a \in Nat
  PROVE  ToWord(a) \in 0 .. 3 /\ (a + ToWord(a)) % 4 = 0
  BY DEF ToWord, WORD_SIZE

LEMMA WholeRange ==
  ASSUME NEW n \in Nat
  PROVE  /\ Whole(n) \in Nat /\ Whole(n) <= n /\ n - Whole(n) < 4
         /\ Whole(n) % 4 = 0
  BY DEF Whole, WORD_SIZE

LEMMA WordSum ==
  ASSUME NEW a \in Nat, NEW b \in Nat, a % 4 = 0, b % 4 = 0
  PROVE  (a + b) % 4 = 0
  OBVIOUS

LEMMA WordBefore ==
  ASSUME NEW a \in Nat, NEW b \in 0 .. 3, (a + b) % 4 = 0
  PROVE  (a - (4 - b)) % 4 = 0
  OBVIOUS

LEMMA BetweenWords ==
  ASSUME NEW a \in Nat, NEW b \in 0 .. 3, (a + b) % 4 = 0, NEW s \in Nat \ {0}, s < b
  PROVE  (a - (4 - s)) % 4 # 0
  OBVIOUS

LEMMA LeastIs ==
  ASSUME NEW a \in Int, NEW b \in Int
  PROVE  /\ Least(a, b) \in {a, b} /\ Least(a, b) <= a /\ Least(a, b) <= b
  BY DEF Least

(* The split of s bytes with tf bytes to the next word of the flash and td *)
(* to the next word of dest: the suffix fits into the buffer, and a middle *)
(* or a suffix begins at a word.                                           *)
LEMMA Split ==
  ASSUME NEW s \in Nat \ {0}, NEW tf \in 0 .. 3, NEW td \in 0 .. 3
  PROVE  LET fp == Least(tf, s)
             dp == Least(td, s)
             fm == Least(Whole(s - fp), Whole(s - dp))
         IN  /\ fp \in 0 .. 3 /\ dp \in 0 .. 3 /\ fm \in Nat /\ fm % 4 = 0
             /\ s - fp - fm \in 0 .. 8
             /\ dp + fm <= s
             /\ fm > 0 => fp = tf /\ dp = td
             /\ s - fp - fm > 0 => fp = tf
             /\ s >= tf => fp = tf
             /\ s < tf => fp = s
<1> DEFINE fp == Least(tf, s)
           dp == Least(td, s)
           wf == Whole(s - fp)
           wd == Whole(s - dp)
           fm == Least(wf, wd)
<1>1. /\ fp \in {tf, s} /\ fp <= tf /\ fp <= s
      /\ dp \in {td, s} /\ dp <= td /\ dp <= s
  BY LeastIs
<1>2. fp \in 0 .. 3 /\ dp \in 0 .. 3 /\ s - fp \in Nat /\ s - dp \in Nat
  BY <1>1
<1> HIDE DEF fp, dp
<1>3. /\ wf \in Nat /\ wf <= s - fp /\ s - fp - wf < 4 /\ wf % 4 = 0
      /\ wd \in Nat /\ wd <= s - dp /\ s - dp - wd < 4 /\ wd % 4 = 0
  BY <1>2, WholeRange
<1> HIDE DEF wf, wd
<1>4. fm \in {wf, wd} /\ fm <= wf /\ fm <= wd
  BY <1>3, LeastIs
<1> HIDE DEF fm
<1>5. fm \in Nat /\ fm % 4 = 0
  BY <1>3, <1>4
<1>6. s - fp - fm \in 0 .. 8 /\ dp + fm <= s
  <2>1. CASE fm = wf
    BY <1>2, <1>3, <1>4, <2>1
  <2>2. CASE fm = wd
    <3>1. dp - fp <= 3
      BY <1>2
    <3>2. s - fp - fm = (s - dp - wd) + (dp - fp)
      BY <1>2, <1>3, <2>2
    <3> QED
      BY <1>2, <1>3, <1>4, <2>2, <3>1, <3>2
  <2> QED
    BY <1>4, <2>1, <2>2
<1>7. /\ fm > 0 => fp = tf /\ dp = td
      /\ s - fp - fm > 0 => fp = tf
      /\ s >= tf => fp = tf
      /\ s < tf => fp = s
  BY <1>1, <1>2, <1>3, <1>4
<1> QED
  BY <1>2, <1>5, <1>6, <1>7 DEF fp, dp, wf, wd, fm

(* Of any length at any address into any destination, a read that reaches  *)
(* the next word is made of the three transfers of read_non_aligned        *)
(* (qspi_if.c:803), whole words between word addresses inside dest and the *)
(* buffer of two words; a read that does not is one transfer from an       *)
(* address between two words.                                              *)
THEOREM EveryReadCut == \A q \in AnyAsk : Cut(q)
<1> SUFFICES ASSUME NEW a \in Nat, NEW d \in Nat, NEW s \in Nat \ {0}
             PROVE  Cut([addr |-> a, dptr |-> d, size |-> s])
  BY DEF AnyAsk
<1> DEFINE q  == [addr |-> a, dptr |-> d, size |-> s]
           tf == ToWord(a)
           td == ToWord(d)
           fp == Least(tf, s)
           dp == Least(td, s)
           fm == Least(Whole(s - fp), Whole(s - dp))
<1>1. tf \in 0 .. 3 /\ (a + tf) % 4 = 0 /\ td \in 0 .. 3 /\ (d + td) % 4 = 0
  BY ToWordRange
<1>2. q.addr = a /\ q.dptr = d /\ q.size = s
  OBVIOUS
<1> HIDE DEF q
<1>3. flash_prefix(q) = fp /\ dest_prefix(q) = dp
  BY <1>2 DEF flash_prefix, dest_prefix
<1>4. flash_middle(q) = fm
  BY <1>2, <1>3 DEF flash_middle
<1>5. flash_suffix(q) = s - fp - fm
  BY <1>2, <1>3, <1>4 DEF flash_suffix
<1> HIDE DEF tf, td
<1>6. /\ fp \in 0 .. 3 /\ dp \in 0 .. 3 /\ fm \in Nat /\ fm % 4 = 0
      /\ s - fp - fm \in 0 .. 8
      /\ dp + fm <= s
      /\ fm > 0 => fp = tf /\ dp = td
      /\ s - fp - fm > 0 => fp = tf
      /\ s >= tf => fp = tf
      /\ s < tf => fp = s
  BY <1>1, Split
<1> HIDE DEF fp, dp, fm
<1>7. fm > 0 => (a + fp) % 4 = 0 /\ (d + dp) % 4 = 0
  BY <1>1, <1>6
<1>8. ASSUME s - fp - fm > 0 PROVE (a + fp + fm) % 4 = 0
  <2>1. (a + fp) % 4 = 0 /\ a + fp \in Nat
    <3>1. fp = tf
      BY <1>6, <1>8
    <3>2. fp \in Nat
      BY <1>6
    <3> QED
      BY <1>1, <3>1, <3>2
  <2> QED
    BY <2>1, <1>6, WordSum
<1>9. ASSUME fp > 0, fp = tf PROVE (a - (4 - fp)) % 4 = 0
  BY <1>1, <1>9, WordBefore
<1>10. ToWord(a) = tf
  BY DEF tf
<1>11. ASSUME s >= tf PROVE Cut(q)
  <2>1. fp = tf /\ (fp > 0 => (a - (4 - fp)) % 4 = 0)
    BY <1>6, <1>9, <1>11
  <2>2. Tiled(q)
    BY <1>2, <1>3, <1>4, <1>5, <1>6, <1>7, <1>8, <1>10, <2>1 DEF Tiled, Aligned, WORD_SIZE
  <2>3. ~Short(q)
    BY <1>1, <1>2, <1>10, <1>11 DEF Short
  <2> QED
    BY <2>2, <2>3 DEF Cut
<1>12. ASSUME s < tf PROVE Cut(q)
  <2>1. fp = s /\ fm = 0 /\ s - fp - fm = 0
    BY <1>1, <1>6, <1>12
  <2>2. (a - (4 - fp)) % 4 # 0
    BY <1>1, <1>12, <2>1, BetweenWords
  <2>3. OffWord(q)
    BY <1>2, <1>3, <1>4, <1>5, <2>1, <2>2 DEF OffWord, Aligned, WORD_SIZE
  <2>4. Short(q)
    BY <1>2, <1>10, <1>12 DEF Short
  <2> QED
    BY <2>3, <2>4 DEF Cut
<1>13. s >= tf \/ s < tf
  BY <1>1
<1>14. Cut(q)
  BY <1>11, <1>12, <1>13
<1> QED
  BY <1>14 DEF q

(* The reads of the specification, of up to MaxSize bytes at any offset    *)
(* into a word, are cut in that way.                                       *)
THEOREM TransfersOfWords == AlignInit /\ [][AlignNext]_ask => []WordTransfers
<1>1. Asks \subseteq AnyAsk
  BY AlignAssumption DEF Asks, AnyAsk, WORD_SIZE, AlignAssumption
<1>2. AlignInit => ask \in Asks
  BY DEF AlignInit
<1>3. ask \in Asks /\ [AlignNext]_ask => (ask \in Asks)'
  BY DEF AlignNext
<1>4. ask \in Asks => WordTransfers
  BY <1>1, EveryReadCut DEF WordTransfers
<1> QED
  BY <1>2, <1>3, <1>4, PTL

---------------------------------------------------------------------------
(* Waking: an rpu_wakeup that returned 0 can be relied on, for any number  *)
(* of tries of either poll.                                                *)

(* The write is known to have arrived once RDSR2 has confirmed it: without *)
(* this the awake bit read by RDSR1 would prove nothing.                   *)
Confirmed == access = "RDSR1" /\ caller # "ps_status" => wakeupNow

(* Only a chip that is enabled is woken, asked or promised.                *)
OnEnabled == promised \/ caller \in {"ps_wake", "ps_status"} => enabled

Trusted == Place /\ Confirmed /\ OnEnabled /\ WokenStaysAwake

(* They stay true, action by action.                                       *)
LEMMA TrustKept == ASSUME Trusted, [WakeNext]_wakeVars PROVE Trusted'
<1> USE DEF Trusted, Place, Confirmed, OnEnabled, WokenStaysAwake
<1>1. CASE WakeNext
  <2>1. CASE EnableCall
    BY <2>1 DEF EnableCall
  <2>2. CASE WakeCall
    BY <2>2 DEF WakeCall
  <2>3. CASE WriteWakeup
    <3>1. PICK now \in {wakeupNow, TRUE} :
            \/ WakeupFails(now)
            \/ /\ wakeupNow' = now /\ access' = "RDSR2"
               /\ UNCHANGED <<awakeBit, caller, tries, enabled, promised>>
      BY <2>3 DEF WriteWakeup
    <3>2. CASE WakeupFails(now)
      BY <2>3, <3>2 DEF WriteWakeup, WakeupFails
    <3>3. CASE /\ wakeupNow' = now /\ access' = "RDSR2"
               /\ UNCHANGED <<awakeBit, caller, tries, enabled, promised>>
      <4>1. promised' => awakeBit' /\ wakeupNow'
        BY <3>1, <3>3
      <4> QED
        BY <2>3, <3>3, <4>1 DEF WriteWakeup
    <3> QED
      BY <3>1, <3>2, <3>3
  <2>4. CASE WaitWakeWrite
    BY <2>4 DEF WaitWakeWrite, PollAgain, WakeupFails
  <2>5. CASE WaitAwake
    BY <2>5 DEF WaitAwake, PollAgain, WakeupFails
  <2>6. CASE Sleep
    <3>1. access = "none" /\ access' = "none" /\ ~promised'
      BY <2>6 DEF Sleep
    <3> QED
      BY <2>6, <3>1 DEF Sleep
  <2>7. CASE SleepStatus
    BY <2>7 DEF SleepStatus
  <2>8. CASE Disable
    BY <2>8 DEF Disable
  <2>9. CASE ChipFollows
    BY <2>9 DEF ChipFollows
  <2> QED
    BY <1>1, <2>1, <2>2, <2>3, <2>4, <2>5, <2>6, <2>7, <2>8, <2>9 DEF WakeNext
<1>2. CASE UNCHANGED wakeVars
  BY <1>2 DEF wakeVars
<1> QED
  BY <1>1, <1>2

(* After an rpu_wakeup that returned 0 the chip stays awake until it is    *)
(* put to sleep or loses its supplies, over lost writes, failed reads and  *)
(* a chip that follows as late as it likes.                                *)
THEOREM WakeupIsReliable == WakeSpec => []WokenStaysAwake
<1>1. WakeInit => Trusted
  BY DEF WakeInit, Trusted, Place, Confirmed, OnEnabled, WokenStaysAwake
<1>2. Trusted /\ [WakeNext]_wakeVars => Trusted'
  BY TrustKept
<1>3. Trusted => WokenStaysAwake
  BY DEF Trusted
<1> QED
  BY <1>1, <1>2, <1>3, PTL DEF WakeSpec

---------------------------------------------------------------------------
(* The scan channel list.                                                  *)

(* A channel of a range is whatever CHOOSE makes it: only that two ranges  *)
(* of the same channels are the same matters.                              *)
Listed == {Ascending(S)[k] : S \in SUBSET (1 .. 233), k \in Nat} \cup Nat
Entry  == ScanBands \X Listed

LEMMA TableInside == Range(valid_5g_chans_20mhz) \subseteq 1 .. 233
  BY DEF Range, valid_5g_chans_20mhz

LEMMA ChannelsInside ==
  ASSUME NEW b \in ScanBands
  PROVE  Channels(b) \subseteq 1 .. 233
  BY TableInside DEF ScanBands, Channels

(* What a range stores is a sequence of channels.                          *)
LEMMA AscendingSeq ==
  ASSUME NEW S \in SUBSET (1 .. 233)
  PROVE  Ascending(S) \in Seq(Listed)
<1>1. IsFiniteSet(S)
  <2>1. IsFiniteSet(1 .. 233)
    <3>1. 1 \in Int /\ 233 \in Int
      OBVIOUS
    <3> QED
      BY <3>1, FS_Interval, Zenon
  <2>2. S \in SUBSET (1 .. 233)
    OBVIOUS
  <2> QED
    BY <2>1, <2>2, FS_Subset, Zenon
<1>2. PICK n \in Nat : n = Cardinality(S)
  BY <1>1, FS_CardinalityType
<1>3. \A k \in 1 .. n : Ascending(S)[k] \in Listed
  BY DEF Listed
<1> DEFINE a    == Ascending(S)
           F(k) == CHOOSE c \in S : Cardinality({d \in S : d <= c}) = k
<1>4. a = [k \in 1 .. n |-> F(k)]
  BY <1>2 DEF Ascending
<1>5. \A k \in 1 .. n : a[k] \in Listed
  BY <1>3
<1> HIDE DEF F, a
<1>6. a \in [1 .. n -> Listed]
  BY <1>4, <1>5
<1>7. a \in Seq(Listed)
  BY <1>2, <1>6
<1> QED
  BY <1>7 DEF a

LEMMA BetweenSeq ==
  ASSUME NEW b \in ScanBands, NEW s, NEW e
  PROVE  Between(b, s, e) \in Seq(Listed)
  BY ChannelsInside, AscendingSeq DEF Between

LEMMA WrittenSeq ==
  ASSUME NEW b \in ScanBands, NEW s \in Nat \ {0}, NEW e \in Channels(b)
  PROVE  /\ Written(b, s, e) \in Seq(Listed)
         /\ Advance(b, s, e) \in 0 .. Len(Written(b, s, e))
<1>1. e \in 1 .. 233
  BY ChannelsInside
<1>2. CASE b = 2
  <2> DEFINE W == s + 1 .. e
  <2>1. Written(b, s, e) = Ascending(W)
    BY <1>2 DEF Written
  <2>2. W \in SUBSET (1 .. 233)
    BY <1>1
  <2> HIDE DEF W
  <2>3. Written(b, s, e) \in Seq(Listed)
    BY <2>1, <2>2, AscendingSeq
  <2>4. Advance(b, s, e) = Len(Written(b, s, e))
    BY <1>2 DEF Advance
  <2> QED
    BY <2>3, <2>4
<1>3. CASE b = 5
  <2>1. Written(b, s, e) = Ascending({c \in Channels(5) : s < c /\ (c <= e \/ s = e)})
    BY <1>3 DEF Written
  <2>2. Written(b, s, e) \in Seq(Listed)
    BY <1>3, <2>1, ChannelsInside, AscendingSeq
  <2>3. Advance(b, s, e) \in {0, Len(Written(b, s, e))}
    BY DEF Advance
  <2> QED
    BY <2>2, <2>3
<1>4. CASE b = 6
  <2>1. Written(b, s, e) = IF s = 1 THEN Between(6, s, e)
                           ELSE Ascending({c \in s + 1 .. e : (c - s - 1) % 4 = 0})
    BY <1>4 DEF Written
  <2>2. {c \in s + 1 .. e : (c - s - 1) % 4 = 0} \in SUBSET (1 .. 233)
    BY <1>1
  <2>3. Written(b, s, e) \in Seq(Listed)
    BY <1>4, <2>1, <2>2, BetweenSeq, AscendingSeq
  <2>4. Advance(b, s, e) = Len(Written(b, s, e))
    BY <1>4 DEF Advance
  <2> QED
    BY <2>3, <2>4
<1> QED
  BY <1>2, <1>3, <1>4 DEF ScanBands

(* A range that is not odd is stored as what it denotes.                   *)
LEMMA WrittenIsBetween ==
  ASSUME NEW b \in ScanBands, NEW s \in Nat \ {0}, NEW e \in Channels(b), ~OddRange(b, s, e)
  PROVE  /\ Written(b, s, e) = Between(b, s, e)
         /\ Advance(b, s, e) = Len(Written(b, s, e))
<1> DEFINE B == {c \in Channels(b) : s < c /\ c <= e}
<1>1. Between(b, s, e) = Ascending(B)
  BY DEF Between
<1>2. CASE b = 2
  <2> DEFINE W == s + 1 .. e
  <2>1. Written(b, s, e) = Ascending(W) /\ Advance(b, s, e) = Len(Written(b, s, e))
    BY <1>2 DEF Written, Advance
  <2>2. Channels(b) = 1 .. 14
    BY <1>2 DEF Channels
  <2>3. W = B
    BY <2>2
  <2> HIDE DEF W, B
  <2> QED
    BY <1>1, <2>1, <2>3
<1>3. CASE b = 5
  <2> DEFINE W == {c \in Channels(5) : s < c /\ (c <= e \/ s = e)}
  <2>1. Written(b, s, e) = Ascending(W)
    BY <1>3 DEF Written
  <2>2. s # e
    BY <1>3 DEF OddRange
  <2>3. Advance(b, s, e) = Len(Written(b, s, e))
    BY <2>2 DEF Advance
  <2>4. W = B
    BY <1>3, <2>2
  <2> HIDE DEF W, B
  <2> QED
    BY <1>1, <2>1, <2>3, <2>4
<1>4. CASE b = 6
  <2>1. Advance(b, s, e) = Len(Written(b, s, e))
    BY <1>4 DEF Advance
  <2>2. CASE s = 1
    BY <1>4, <2>1, <2>2 DEF Written
  <2>3. CASE s # 1
    <3> DEFINE W == {c \in s + 1 .. e : (c - s - 1) % 4 = 0}
    <3>1. Written(b, s, e) = Ascending(W)
      BY <1>4, <2>3 DEF Written
    <3>2. s = e
      BY <1>4, <2>3 DEF OddRange
    <3>3. W = {}
      BY <3>2
    <3>4. B = {}
      BY <3>2, ChannelsInside
    <3> HIDE DEF W, B
    <3> QED
      BY <1>1, <2>1, <3>1, <3>3, <3>4
  <2> QED
    BY <2>2, <2>3
<1> QED
  BY <1>2, <1>3, <1>4 DEF ScanBands

(* n entries stored from index i on.                                       *)
LEMMA StoreSeq ==
  ASSUME NEW array \in Seq(Entry), NEW i \in Nat, i <= Len(array),
         NEW b \in ScanBands, NEW s \in Seq(Listed)
  PROVE  /\ Store(array, i, b, s) \in Seq(Entry)
         /\ i + Len(s) <= Len(Store(array, i, b, s))
         /\ i = Len(array) =>
              /\ Len(Store(array, i, b, s)) = i + Len(s)
              /\ Store(array, i, b, s) = array \o [k \in DOMAIN s |-> <<b, s[k]>>]
<1> DEFINE n == Len(s)
           m == IF Len(array) > i + n THEN Len(array) ELSE i + n
           F(k) == IF k \in i + 1 .. i + n THEN <<b, s[k - i]>> ELSE array[k]
           new == Store(array, i, b, s)
<1>1. new = [k \in 1 .. m |-> F(k)]
  BY DEF Store
<1>2. n \in Nat /\ m \in Nat /\ i + n <= m /\ m >= Len(array) /\ (i = Len(array) => m = i + n)
  OBVIOUS
<1>3. \A k \in 1 .. m : F(k) \in Entry
  <2> SUFFICES ASSUME NEW k \in 1 .. m PROVE F(k) \in Entry
    OBVIOUS
  <2>1. CASE k \in i + 1 .. i + n
    <3>1. k - i \in 1 .. Len(s)
      BY <2>1
    <3>2. s[k - i] \in Listed
      BY <3>1
    <3> QED
      BY <2>1, <3>2 DEF Entry
  <2>2. CASE k \notin i + 1 .. i + n
    <3>1. k \in 1 .. Len(array)
      BY <2>2
    <3> QED
      BY <2>2, <3>1
  <2> QED
    BY <2>1, <2>2
<1> DEFINE t == [k \in DOMAIN s |-> <<b, s[k]>>]
<1>4. t \in Seq(Entry) /\ Len(t) = n /\ \A k \in 1 .. n : t[k] = <<b, s[k]>>
  BY DEF Entry
<1>5. ASSUME i = Len(array), NEW k \in 1 .. m
      PROVE  F(k) = IF k <= Len(array) THEN array[k] ELSE t[k - Len(array)]
  <2>1. CASE k <= Len(array)
    <3>1. k \notin i + 1 .. i + n
      BY <1>2, <1>5, <2>1
    <3> QED
      BY <2>1, <3>1
  <2>2. CASE ~(k <= Len(array))
    <3>1. k \in i + 1 .. i + n /\ k - i \in 1 .. n /\ k - i = k - Len(array)
      BY <1>2, <1>5, <2>2
    <3>2. t[k - i] = <<b, s[k - i]>>
      BY <1>4, <3>1
    <3> QED
      BY <2>2, <3>1, <3>2
  <2> QED
    BY <2>1, <2>2
<1> HIDE DEF F, m, n, t, new
<1>6. new \in Seq(Entry) /\ Len(new) = m /\ \A k \in 1 .. m : new[k] = F(k)
  BY <1>1, <1>2, <1>3
<1>7. ASSUME i = Len(array)
      PROVE  new = array \o t
  <2>1. /\ array \o t \in Seq(Entry) /\ Len(array \o t) = Len(array) + n
        /\ \A k \in 1 .. Len(array) + n :
             (array \o t)[k] = IF k <= Len(array) THEN array[k] ELSE t[k - Len(array)]
    BY <1>4, ConcatProperties
  <2>2. m = Len(array) + n
    BY <1>2, <1>7
  <2>3. \A k \in 1 .. m : new[k] = (array \o t)[k]
    BY <1>5, <1>6, <1>7, <2>1, <2>2
  <2> QED
    BY <1>6, <2>1, <2>2, <2>3, SeqEqual
<1> QED
  BY <1>2, <1>6, <1>7 DEF new, n, t

(* While nothing odd was read the parser is where the reference is.        *)
InStep ==
  ~odd /\ at # "error" =>
    band_chan = denoted /\ chan_idx = Len(band_chan) /\ dash = chan_start

WithinLimit == at # "error" => chan_idx <= max_channels

PlaceTypes ==
  /\ at \in {"band", "chan", "ok", "error"} /\ band \in ScanBands
  /\ chan_start \in Nat /\ chan_idx \in Nat /\ dash \in Nat /\ odd \in BOOLEAN

ListTypes == band_chan \in Seq(Entry) /\ denoted \in Seq(Entry)

Filled == Len(band_chan) \in Nat /\ chan_idx <= Len(band_chan)

(* An entry past the array is written by a range only, and unless the      *)
(* range was an odd one the list is refused then.                          *)
OverrunRefused ==
  Len(band_chan) > max_channels => odd \/ (at = "error" /\ chan_start # 0)

ScanInv ==
  PlaceTypes /\ ListTypes /\ Filled /\ InStep /\ WithinLimit /\ OverrunRefused

LEMMA LimitNat == max_channels \in Nat \ {0}
  BY ParseAssumption DEF ParseAssumption

LEMMA ScanInvInit == ScanInit => ScanInv
<1> SUFFICES ASSUME ScanInit PROVE ScanInv
  OBVIOUS
<1>1. PlaceTypes
  BY DEF ScanInit, PlaceTypes, ScanBands
<1>2. ListTypes /\ Len(band_chan) = 0
  BY EmptySeq DEF ScanInit, ListTypes
<1>3. band_chan = denoted /\ chan_idx = 0 /\ dash = chan_start
  BY DEF ScanInit
<1>4. Filled /\ InStep /\ WithinLimit /\ OverrunRefused
  BY <1>2, <1>3, LimitNat DEF Filled, InStep, WithinLimit, OverrunRefused
<1> QED
  BY <1>1, <1>2, <1>4 DEF ScanInv

(* The reference of a number read.                                         *)
LEMMA DenoteSeq ==
  ASSUME NEW n \in Nat, NEW t, band \in ScanBands, Denote(n, t)
  PROVE  \E r \in Seq(Listed) :
           /\ r = IF dash = 0 THEN <<n>> ELSE Between(band, dash, n)
           /\ denoted' = denoted \o [k \in DOMAIN r |-> <<band, r[k]>>]
           /\ dash' = IF t = "-" THEN n ELSE 0
<1> DEFINE r == IF dash = 0 THEN <<n>> ELSE Between(band, dash, n)
<1>1. <<n>> \in Seq(Listed)
  <2>1. n \in Listed
    BY DEF Listed
  <2> QED
    BY <2>1
<1>2. r \in Seq(Listed)
  BY <1>1, BetweenSeq
<1>3. /\ denoted' = denoted \o [k \in DOMAIN r |-> <<band, r[k]>>]
      /\ dash' = IF t = "-" THEN n ELSE 0
  BY DEF Denote
<1> QED
  BY <1>2, <1>3

(* Nothing happens to the lists when a string is refused.                  *)
LEMMA RefusedKeeps ==
  ASSUME ScanInv, at \in {"band", "chan"}, band' \in ScanBands,
         at' \in {"ok", "chan", "error"},
         UNCHANGED <<chan_start, chan_idx, band_chan, denoted, dash, odd>>
  PROVE  ScanInv'
<1>1. PlaceTypes' /\ ListTypes' /\ Filled' /\ InStep' /\ WithinLimit'
  BY DEF ScanInv, PlaceTypes, ListTypes, Filled, InStep, WithinLimit
<1>2. OverrunRefused'
  BY LimitNat DEF ScanInv, PlaceTypes, InStep, WithinLimit, OverrunRefused
<1> QED
  BY <1>1, <1>2 DEF ScanInv

LEMMA ByteRange ==
  ASSUME NEW n \in Numbers
  PROVE  n \in Nat /\ n % 256 \in Nat
  BY ParseAssumption DEF ParseAssumption

(* What storing does to the invariant: n entries of the channels w are     *)
(* stored, the index moves on by m, and the reference gets those of r.     *)
LEMMA StoreStep ==
  ASSUME ScanInv, band' = band, NEW w \in Seq(Listed), NEW r \in Seq(Listed),
         NEW m \in 0 .. Len(w),
         band_chan' = Store(band_chan, chan_idx, band, w), chan_idx' = chan_idx + m,
         denoted' = denoted \o [k \in DOMAIN r |-> <<band, r[k]>>]
  PROVE  /\ ListTypes' /\ Filled' /\ chan_idx' \in Nat
         /\ w = r /\ m = Len(w) /\ chan_idx = Len(band_chan) /\ band_chan = denoted =>
              band_chan' = denoted' /\ chan_idx' = Len(band_chan')
<1>1. /\ band_chan \in Seq(Entry) /\ denoted \in Seq(Entry) /\ band \in ScanBands
      /\ chan_idx \in Nat /\ chan_idx <= Len(band_chan)
  BY DEF ScanInv, PlaceTypes, ListTypes, Filled
<1> DEFINE array == Store(band_chan, chan_idx, band, w)
           t == [k \in DOMAIN r |-> <<band, r[k]>>]
<1>2. /\ array \in Seq(Entry) /\ chan_idx + Len(w) <= Len(array)
      /\ chan_idx = Len(band_chan) =>
           /\ Len(array) = chan_idx + Len(w)
           /\ array = band_chan \o [k \in DOMAIN w |-> <<band, w[k]>>]
  BY <1>1, StoreSeq
<1>3. t \in Seq(Entry)
  BY <1>1, SMTT(40) DEF Entry
<1>4. denoted \o t \in Seq(Entry)
  BY <1>1, <1>3, ConcatProperties
<1>5. w = r /\ chan_idx = Len(band_chan) /\ band_chan = denoted => array = denoted \o t
  BY <1>2
<1> HIDE DEF array, t
<1>6. PICK len \in Nat : len = Len(array)
  BY <1>2
<1>7. PICK lw \in Nat : lw = Len(w)
  OBVIOUS
<1>8. chan_idx + m \in Nat /\ chan_idx + m <= len
  BY <1>1, <1>2, <1>6, <1>7
<1>9. band_chan' = array /\ denoted' = denoted \o t
  BY DEF array, t
<1>10. ListTypes'
  BY <1>2, <1>4, <1>9 DEF ListTypes
<1>11. Filled' /\ chan_idx' \in Nat
  BY <1>6, <1>8, <1>9 DEF Filled
<1>12. ASSUME w = r, m = Len(w), chan_idx = Len(band_chan), band_chan = denoted
       PROVE  band_chan' = denoted' /\ chan_idx' = Len(band_chan')
  BY <1>2, <1>5, <1>9, <1>12
<1> QED
  BY <1>10, <1>11, <1>12

(* The rest of the invariant after a number.                               *)
LEMMA LimitStep ==
  ASSUME PlaceTypes', Filled',
         ~odd' => /\ band_chan' = denoted' /\ chan_idx' = Len(band_chan')
                  /\ at' # "error" => dash' = chan_start',
         chan_idx' > max_channels => at' = "error" /\ chan_start' # 0
  PROVE  InStep' /\ WithinLimit' /\ OverrunRefused'
<1>1. max_channels \in Nat /\ chan_idx' \in Nat
  BY LimitNat DEF PlaceTypes
<1>2. InStep'
  BY DEF InStep
<1>3. WithinLimit'
  BY <1>1 DEF WithinLimit
<1>4. OverrunRefused'
  BY DEF OverrunRefused
<1> QED
  BY <1>2, <1>3, <1>4

(* A channel of its own.                                                   *)
LEMMA ChanStep ==
  ASSUME ScanInv, NEW n \in Numbers, NEW t, ReadChan(n, t)
  PROVE  ScanInv'
<1>1. PICK v \in Nat : n \in Nat /\ v = n % 256
  BY ByteRange
<1>2. /\ at = "chan" /\ chan_start = 0 /\ band' = band /\ band \in ScanBands
      /\ PlaceTypes /\ InStep /\ WithinLimit
  BY DEF ReadChan, ScanInv, PlaceTypes
<1>3. CASE v \notin Channels(band) \/ chan_idx = max_channels
  <2>1. Refused
    BY <1>1, <1>3 DEF ReadChan
  <2> QED
    BY <1>2, <2>1, RefusedKeeps DEF Refused
<1>4. CASE ~(v \notin Channels(band) \/ chan_idx = max_channels)
  <2>1. /\ band_chan' = Store(band_chan, chan_idx, band, <<v>>)
        /\ chan_idx' = chan_idx + 1 /\ odd' = (odd \/ v # n)
        /\ Denote(n, t) /\ After(v, t)
    BY <1>1, <1>4 DEF ReadChan
  <2>2. <<v>> \in Seq(Listed) /\ Len(<<v>>) = 1 /\ 1 \in 0 .. Len(<<v>>)
    <3>1. v \in Listed
      BY DEF Listed
    <3>2. <<v>> \in Seq(Listed) /\ Len(<<v>>) = 1
      BY <3>1
    <3> QED
      BY <3>2
  <2>3. PICK r \in Seq(Listed) :
          /\ r = IF dash = 0 THEN <<n>> ELSE Between(band, dash, n)
          /\ denoted' = denoted \o [k \in DOMAIN r |-> <<band, r[k]>>]
          /\ dash' = IF t = "-" THEN n ELSE 0
    BY <1>1, <1>2, <2>1, DenoteSeq
  <2>4. /\ ListTypes' /\ Filled' /\ chan_idx' \in Nat
        /\ <<v>> = r /\ chan_idx = Len(band_chan) /\ band_chan = denoted =>
             band_chan' = denoted' /\ chan_idx' = Len(band_chan')
    BY <1>2, <2>1, <2>2, <2>3, StoreStep
  <2>5. /\ at' \in {"band", "chan", "ok"}
        /\ chan_start' = IF t = "-" THEN v ELSE 0
    BY <2>1 DEF After
  <2>6. PlaceTypes'
    BY <1>1, <1>2, <2>1, <2>3, <2>4, <2>5 DEF PlaceTypes
  <2>7. ASSUME ~odd'
        PROVE  band_chan' = denoted' /\ chan_idx' = Len(band_chan') /\ dash' = chan_start'
    <3>1. ~odd /\ v = n
      BY <1>2, <2>1, <2>7 DEF PlaceTypes
    <3>2. band_chan = denoted /\ chan_idx = Len(band_chan) /\ dash = 0
      BY <1>2, <3>1 DEF InStep
    <3>3. r = <<v>>
      BY <2>3, <3>1, <3>2
    <3> QED
      BY <2>3, <2>4, <2>5, <3>1, <3>2, <3>3
  <2>8. ~(chan_idx' > max_channels)
    <3>1. chan_idx \in Nat /\ chan_idx <= max_channels /\ chan_idx # max_channels
      BY <1>2, <1>4 DEF WithinLimit, PlaceTypes
    <3>2. chan_idx' = chan_idx + 1
      BY <2>1
    <3> QED
      BY <3>1, <3>2, LimitNat
  <2>9. InStep' /\ WithinLimit' /\ OverrunRefused'
    BY <2>4, <2>6, <2>7, <2>8, LimitStep
  <2> QED
    BY <2>4, <2>6, <2>9 DEF ScanInv
<1> QED
  BY <1>3, <1>4

(* The end of a range.                                                     *)
LEMMA RangeStep ==
  ASSUME ScanInv, NEW n \in Numbers, NEW t, ReadRange(n, t)
  PROVE  ScanInv'
<1>1. PICK v \in Nat : n \in Nat /\ v = n % 256
  BY ByteRange
<1>2. /\ at = "chan" /\ band' = band /\ band \in ScanBands /\ chan_start \in Nat \ {0}
      /\ PlaceTypes /\ InStep
  BY DEF ReadRange, ScanInv, PlaceTypes
<1>3. CASE v \notin Channels(band) \/ v < chan_start
  <2>1. Refused
    BY <1>1, <1>3 DEF ReadRange
  <2> QED
    BY <1>2, <2>1, RefusedKeeps DEF Refused
<1>4. CASE ~(v \notin Channels(band) \/ v < chan_start)
  <2> DEFINE W == Written(band, chan_start, v)
             a == Advance(band, chan_start, v)
  <2>1. /\ band_chan' = Store(band_chan, chan_idx, band, W)
        /\ chan_idx' = chan_idx + a
        /\ odd' = (odd \/ v # n \/ OddRange(band, chan_start, v))
        /\ Denote(n, t)
        /\ IF chan_idx' > max_channels THEN at' = "error" /\ chan_start' = chan_start
           ELSE After(v, t)
    BY <1>1, <1>4 DEF ReadRange
  <2>2. W \in Seq(Listed) /\ a \in 0 .. Len(W)
    BY <1>2, <1>4, WrittenSeq
  <2> HIDE DEF W, a
  <2>3. PICK r \in Seq(Listed) :
          /\ r = IF dash = 0 THEN <<n>> ELSE Between(band, dash, n)
          /\ denoted' = denoted \o [k \in DOMAIN r |-> <<band, r[k]>>]
          /\ dash' = IF t = "-" THEN n ELSE 0
    BY <1>1, <1>2, <2>1, DenoteSeq
  <2>4. /\ ListTypes' /\ Filled' /\ chan_idx' \in Nat
        /\ W = r /\ a = Len(W) /\ chan_idx = Len(band_chan) /\ band_chan = denoted =>
             band_chan' = denoted' /\ chan_idx' = Len(band_chan')
    BY <1>2, <2>1, <2>2, <2>3, StoreStep
  <2>5. /\ chan_idx' > max_channels => at' = "error" /\ chan_start' = chan_start
        /\ ~(chan_idx' > max_channels) =>
             /\ at' \in {"band", "chan", "ok"}
             /\ chan_start' = IF t = "-" THEN v ELSE 0
    BY <2>1 DEF After
  <2>6. PlaceTypes'
    <3>1. chan_start' \in Nat /\ at' \in {"band", "chan", "ok", "error"}
      BY <1>2, <2>5
    <3>2. odd' \in BOOLEAN /\ band' \in ScanBands /\ dash' \in Nat
      BY <1>1, <1>2, <2>1, <2>3
    <3> QED
      BY <2>4, <3>1, <3>2 DEF PlaceTypes
  <2>7. ASSUME ~odd'
        PROVE  /\ band_chan' = denoted' /\ chan_idx' = Len(band_chan')
               /\ at' # "error" => dash' = chan_start'
    <3>1. ~odd /\ v = n /\ ~OddRange(band, chan_start, v)
      BY <2>1, <2>7
    <3>2. band_chan = denoted /\ chan_idx = Len(band_chan) /\ dash = chan_start
      BY <1>2, <3>1 DEF InStep
    <3>3. W = Between(band, chan_start, v) /\ a = Len(W)
      BY <1>2, <1>4, <3>1, WrittenIsBetween DEF W, a
    <3>4. r = W
      BY <1>2, <2>3, <3>1, <3>2, <3>3
    <3> QED
      BY <2>3, <2>4, <2>5, <3>1, <3>2, <3>3, <3>4
  <2>8. chan_idx' > max_channels => at' = "error" /\ chan_start' # 0
    BY <1>2, <2>5
  <2>9. InStep' /\ WithinLimit' /\ OverrunRefused'
    BY <2>4, <2>6, <2>7, <2>8, LimitStep
  <2> QED
    BY <2>4, <2>6, <2>9 DEF ScanInv
<1> QED
  BY <1>3, <1>4

LEMMA ScanInvNext == ScanInv /\ [ScanNext]_scanVars => ScanInv'
<1> SUFFICES ASSUME ScanInv, [ScanNext]_scanVars PROVE ScanInv'
  OBVIOUS
<1>1. CASE EndOfList
  BY <1>1, RefusedKeeps DEF EndOfList, ScanInv, PlaceTypes
<1>2. CASE ReadBadChan
  BY <1>2, RefusedKeeps DEF ReadBadChan, Refused, ScanInv, PlaceTypes
<1>3. ASSUME NEW b \in ScanBands \cup {0}, ReadBand(b) PROVE ScanInv'
  BY <1>3, RefusedKeeps DEF ReadBand, ScanInv, PlaceTypes
<1>4. ASSUME NEW n \in Numbers, NEW t, ReadChan(n, t) \/ ReadRange(n, t) PROVE ScanInv'
  BY <1>4, ChanStep, RangeStep
<1>5. CASE UNCHANGED scanVars
  BY <1>5 DEF scanVars, ScanInv, PlaceTypes, ListTypes, Filled, InStep, WithinLimit, OverrunRefused
<1> QED
  BY <1>1, <1>2, <1>3, <1>4, <1>5 DEF ScanNext

LEMMA ScanInvariance == ScanSpec => []ScanInv
  BY ScanInvInit, ScanInvNext, PTL DEF ScanSpec

(* An accepted channel list is stored as what it denotes, over any number  *)
(* of bands and ranges and for an array of any size, unless it has one of  *)
(* the three things that the parser reads as something else.               *)
THEOREM ListsAreStored == ScanSpec => []StoredAsDenoted
<1>1. ScanInv => StoredAsDenoted
  BY DEF ScanInv, PlaceTypes, InStep, StoredAsDenoted
<1> QED
  BY ScanInvariance, <1>1, PTL

(* No accepted list has more entries than the array, whose size is checked *)
(* before a channel and after a range, unless it has one of those three    *)
(* things; a refused one may have written past it.                         *)
THEOREM AcceptedListsFit == ScanSpec => []AcceptedFits
<1>1. ScanInv => AcceptedFits
  BY LimitNat DEF ScanInv, PlaceTypes, Filled, OverrunRefused, AcceptedFits
<1> QED
  BY ScanInvariance, <1>1, PTL

---------------------------------------------------------------------------
(* The types of all.                                                       *)

(* The type of the wake-up, with its set of flags taken apart.             *)
LEMMA WakeTypeIs ==
  WakeTypeOK <=> /\ wakeupNow \in BOOLEAN /\ awakeBit \in BOOLEAN
                 /\ enabled \in BOOLEAN /\ promised \in BOOLEAN
                 /\ Place /\ tries \in 0 .. Rdsr1Tries + Rdsr2Tries
  BY DEF WakeTypeOK, Flags, Counter

LEMMA NextTypeIs ==
  WakeTypeOK' <=> /\ wakeupNow' \in BOOLEAN /\ awakeBit' \in BOOLEAN
                  /\ enabled' \in BOOLEAN /\ promised' \in BOOLEAN
                  /\ Place' /\ tries' \in 0 .. Rdsr1Tries + Rdsr2Tries
  BY DEF WakeTypeOK, Flags, Counter

LEMMA TriesNat == Rdsr1Tries \in Nat /\ Rdsr2Tries \in Nat
  BY WakeAssumption DEF WakeAssumption

LEMMA FailureTyped ==
  ASSUME WakeTypeOK, NEW now \in BOOLEAN, WakeupFails(now)
  PROVE  WakeTypeOK'
<1>1. /\ wakeupNow' \in BOOLEAN /\ awakeBit' \in BOOLEAN
      /\ enabled' \in BOOLEAN /\ promised' \in BOOLEAN
  BY WakeTypeIs DEF WakeupFails, PowerOff
<1>2. Place'
  BY DEF WakeupFails, Place
<1>3. tries' \in 0 .. Rdsr1Tries + Rdsr2Tries
  BY TriesNat DEF WakeupFails
<1> QED
  BY <1>1, <1>2, <1>3, WakeTypeIs, NextTypeIs

LEMMA PollTyped ==
  ASSUME WakeTypeOK, NEW n \in {Rdsr1Tries, Rdsr2Tries}, PollAgain(n)
  PROVE  WakeTypeOK'
<1>1. Place'
  BY WakeTypeIs DEF PollAgain, Place
<1>2. tries' \in 0 .. Rdsr1Tries + Rdsr2Tries
  BY WakeTypeIs, TriesNat DEF PollAgain
<1> QED
  BY <1>1, <1>2, WakeTypeIs, NextTypeIs DEF PollAgain

LEMMA WakeTypesKept == WakeTypeOK /\ [WakeNext]_wakeVars => WakeTypeOK'
<1> SUFFICES ASSUME WakeTypeOK, [WakeNext]_wakeVars PROVE WakeTypeOK'
  OBVIOUS
<1>1. CASE EnableCall \/ WakeCall \/ SleepStatus \/ ChipFollows
  <2>1. Place'
    BY <1>1, WakeTypeIs DEF EnableCall, WakeCall, SleepStatus, ChipFollows, Place
  <2> QED
    BY <1>1, <2>1, WakeTypeIs, NextTypeIs DEF EnableCall, WakeCall, SleepStatus, ChipFollows
<1>2. CASE WriteWakeup
  <2>1. PICK now \in {wakeupNow, TRUE} :
          \/ WakeupFails(now)
          \/ /\ wakeupNow' = now /\ access' = "RDSR2"
             /\ UNCHANGED <<awakeBit, caller, tries, enabled, promised>>
    BY <1>2 DEF WriteWakeup
  <2>2. now \in BOOLEAN
    BY WakeTypeIs
  <2>3. CASE WakeupFails(now)
    BY <2>2, <2>3, FailureTyped
  <2>4. CASE /\ wakeupNow' = now /\ access' = "RDSR2"
             /\ UNCHANGED <<awakeBit, caller, tries, enabled, promised>>
    <3>1. Place'
      BY <1>2, <2>4, WakeTypeIs DEF WriteWakeup, Place
    <3> QED
      BY <2>2, <2>4, <3>1, WakeTypeIs, NextTypeIs
  <2> QED
    BY <2>1, <2>3, <2>4
<1>3. CASE WaitWakeWrite
  <2>1. CASE PollAgain(Rdsr2Tries) \/ WakeupFails(wakeupNow)
    BY <2>1, PollTyped, FailureTyped, WakeTypeIs
  <2>2. CASE /\ access' = "RDSR1" /\ tries' = 0
             /\ UNCHANGED <<wakeupNow, awakeBit, caller, enabled, promised>>
    <3>1. Place'
      BY <1>3, <2>2, WakeTypeIs DEF WaitWakeWrite, Place
    <3>2. tries' \in 0 .. Rdsr1Tries + Rdsr2Tries
      BY <2>2, TriesNat
    <3> QED
      BY <2>2, <3>1, <3>2, WakeTypeIs, NextTypeIs
  <2> QED
    BY <1>3, <2>1, <2>2 DEF WaitWakeWrite
<1>4. CASE WaitAwake
  <2>1. CASE PollAgain(Rdsr1Tries) \/ WakeupFails(wakeupNow)
    BY <2>1, PollTyped, FailureTyped, WakeTypeIs
  <2>2. CASE /\ caller' = "none" /\ access' = "none" /\ tries' = 0
             /\ UNCHANGED <<wakeupNow, awakeBit>>
             /\ enabled' \in BOOLEAN /\ promised' \in BOOLEAN
    <3>1. Place'
      BY <2>2 DEF Place
    <3>2. tries' \in 0 .. Rdsr1Tries + Rdsr2Tries
      BY <2>2, TriesNat
    <3> QED
      BY <2>2, <3>1, <3>2, WakeTypeIs, NextTypeIs
  <2> QED
    BY <1>4, <2>1, <2>2, WakeTypeIs, NextTypeIs DEF WaitAwake
<1>5. CASE Sleep \/ Disable
  <2>1. Place'
    BY <1>5, WakeTypeIs DEF Sleep, Disable, Place
  <2> QED
    BY <1>5, <2>1, WakeTypeIs, NextTypeIs DEF Sleep, Disable, PowerOff
<1>6. CASE UNCHANGED wakeVars
  <2>1. Place'
    BY <1>6, WakeTypeIs DEF wakeVars, Place
  <2> QED
    BY <1>6, <2>1, WakeTypeIs, NextTypeIs DEF wakeVars
<1> QED
  BY <1>1, <1>2, <1>3, <1>4, <1>5, <1>6 DEF WakeNext

LEMMA OtpTypesKept == OtpTypeOK /\ [OtpNext]_otp => OtpTypeOK'
  BY OtpStep DEF OtpTypeOK, Command

(* The parts run one at a time, so that the invariant of each is kept by   *)
(* its own steps.                                                          *)
SeqInv == OtpTypeOK /\ MemInv /\ WakeTypeOK

LEMMA SeqInvNext == SeqInv /\ [SeqNext]_seqVars => SeqInv'
<1> SUFFICES ASSUME SeqInv, [SeqNext]_seqVars PROVE SeqInv'
  OBVIOUS
<1>1. [OtpNext]_otp /\ [MemNext]_memVars /\ [WakeNext]_wakeVars
  BY DEF SeqNext, seqVars
<1> QED
  BY <1>1, OtpTypesKept, InvNext, WakeTypesKept DEF SeqInv

(* The chip has no other OTP mode or protection value, a read never runs   *)
(* past its length, a poll never past its tries.                           *)
THEOREM SequentialTypes == SeqSpec => []SeqTypeOK
<1>1. SeqInit => SeqInv
  <2>1. ASSUME WakeInit PROVE WakeTypeOK
    <3>1. Place /\ tries = 0
      BY <2>1 DEF WakeInit, Place
    <3>2. tries \in 0 .. Rdsr1Tries + Rdsr2Tries
      BY <3>1, TriesNat
    <3>3. /\ wakeupNow \in BOOLEAN /\ awakeBit \in BOOLEAN
          /\ enabled \in BOOLEAN /\ promised \in BOOLEAN
      BY <2>1 DEF WakeInit
    <3> QED
      BY <3>1, <3>2, <3>3, WakeTypeIs
  <2> QED
    BY <2>1, OtpInvInit, InvInit DEF SeqInit, SeqInv, OtpInv
<1>2. SeqInv => SeqTypeOK
  BY DEF SeqInv, SeqTypeOK, MemInv
<1> QED
  BY <1>1, <1>2, SeqInvNext, PTL DEF SeqSpec
=============================================================================
