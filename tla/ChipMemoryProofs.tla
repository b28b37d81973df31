-------------------------- MODULE ChipMemoryProofs --------------------------
(***************************************************************************)
(* Proofs about ChipMemory for every set of addresses and lengths its      *)
(* callers may use.                                                        *)
(***************************************************************************)
EXTENDS ChipMemory, TLAPS

---------------------------------------------------------------------------
(* The memory map.                                                         *)

LEMMA TheBlocks ==
  Blocks = {"SysBus", "ExtSysBus", "PBus", "PKTRAM", "GRAM", "LMAC_ROM", "LMAC_RET_RAM",
            "LMAC_SRC_RAM", "UMAC_ROM", "UMAC_RET_RAM", "UMAC_SRC_RAM"}
  BY DEF Blocks, rpu_7002_memmap

LEMMA BlockTypes ==
  \A b \in Blocks :
    /\ rpu_7002_memmap[b].first \in Nat /\ rpu_7002_memmap[b].last \in Nat
    /\ rpu_7002_memmap[b].latency \in 0 .. 2
  BY TheBlocks DEF rpu_7002_memmap, Block

LEMMA PacketRam ==
  /\ rpu_7002_memmap["PKTRAM"].latency = 0 /\ rpu_7002_memmap["PKTRAM"].first = 786432
  /\ "PKTRAM" \in Blocks /\ "none" \notin Blocks
  /\ \A b \in {"SysBus", "PBus", "GRAM"} :
       /\ b \in Blocks /\ rpu_7002_memmap[b].latency = 1
       /\ rpu_7002_memmap[b].last < 786432
  BY TheBlocks DEF rpu_7002_memmap, Block

LEMMA Disjoint ==
  ASSUME NEW a \in Nat, NEW b \in Blocks, NEW c \in Blocks, In(a, b), In(a, c)
  PROVE  b = c
  BY TheBlocks DEF In, rpu_7002_memmap, Block

(* A range inside a block needs its latency, for the blocks do not meet.   *)
LEMMA Apart ==
  \A b, c \in Blocks :
    b # c => \/ rpu_7002_memmap[b].last < rpu_7002_memmap[c].first
             \/ rpu_7002_memmap[c].last < rpu_7002_memmap[b].first
  BY TheBlocks DEF rpu_7002_memmap, Block

LEMMA NeededInside ==
  ASSUME NEW a \in Nat, NEW n \in Nat, NEW b \in Blocks, In(a, b),
         a + n - 1 <= rpu_7002_memmap[b].last
  PROVE  Needed(a, n) \subseteq {rpu_7002_memmap[b].latency}
<1> SUFFICES ASSUME NEW c \in Blocks,
                    rpu_7002_memmap[c].first < a + n, a <= rpu_7002_memmap[c].last
             PROVE  c = b
  BY DEF Needed
<1> QED
  BY Apart, BlockTypes DEF In

(* A part of a range needs no more than the range.                         *)
LEMMA NeededPart ==
  ASSUME NEW a \in Nat, NEW n \in Nat, NEW d \in Nat, NEW m \in Nat,
         a <= d, d + m <= a + n
  PROVE  Needed(d, m) \subseteq Needed(a, n)
  BY BlockTypes DEF Needed

---------------------------------------------------------------------------
(* Rounding.                                                               *)

LEMMA Rounding ==
  ASSUME NEW n \in Nat
  PROVE  LET w == Copied(n) \div 4
         IN  /\ w \in Nat /\ 4 * w = Copied(n) /\ 4 * w <= Alloc(n) /\ Copied(n) \in Nat
  BY DEF Copied, Alloc

LEMMA AllocNat ==
  ASSUME NEW n \in Nat
  PROVE  Alloc(n) \in Nat
  BY DEF Alloc

LEMMA RoundingWords ==
  ASSUME NEW n \in Nat, n % 4 = 0
  PROVE  Copied(n) = n
  BY DEF Copied

LEMMA ReadingIs ==
  ASSUME NEW a \in Nat, NEW n \in Nat
  PROVE  /\ Reading(a, n) \in Reads
         /\ Reading(a, n).from = a /\ Reading(a, n).count = n
         /\ Reading(a, n).left = Copied(n) \div 4
         /\ Reading(a, n).wrong = FALSE /\ Reading(a, n).switched = FALSE
<1>1. Copied(n) \div 4 \in Nat
  BY Rounding
<1> QED
  BY <1>1 DEF Reading, Idle, Reads

(* A read in progress has its words left inside its range.                 *)
Inside(r) == 4 * r.left <= Copied(r.count)

LEMMA AtIs ==
  ASSUME NEW r \in Reads, Inside(r)
  PROVE  /\ r.from \in Nat /\ r.count \in Nat /\ r.left \in Nat /\ Copied(r.count) \in Nat
         /\ At(r) \in Nat /\ r.from <= At(r)
         /\ At(r) + 4 * r.left = r.from + Copied(r.count)
  BY Rounding DEF Reads, Inside, At

LEMMA HlWordIs ==
  ASSUME NEW r \in Reads, r.left > 0, Inside(r), NEW s \in HlWord(r)
  PROVE  /\ s \in Reads /\ Inside(s)
         /\ s.from = r.from /\ s.left = r.left - 1 /\ s.count = r.count
         /\ s.wrong => r.wrong \/ ~(Needed(At(r), 4) \subseteq {latency})
         /\ r.switched => s.switched
         /\ lastBlock # "none" /\ rpu_7002_memmap[lastBlock].latency # 1 => s.switched
<1> DEFINE bad == ~(Needed(At(r), 4) \subseteq {latency})
<1>1. PICK fails \in BOOLEAN :
        s = [r EXCEPT !.left = r.left - 1,
                      !.wrong = r.wrong \/ (~fails /\ bad),
                      !.failed = r.failed \/ fails,
                      !.switched = r.switched \/
                        (lastBlock # "none" /\ rpu_7002_memmap[lastBlock].latency # 1)]
  BY DEF HlWord
<1> HIDE DEF bad
<1>2. /\ r.from \in Nat /\ r.left \in Nat /\ r.count \in Nat
      /\ r.wrong \in BOOLEAN /\ r.failed \in BOOLEAN /\ r.switched \in BOOLEAN
  BY DEF Reads
<1>3. /\ s.from = r.from /\ s.left = r.left - 1 /\ s.count = r.count
      /\ s.wrong = (r.wrong \/ (~fails /\ bad))
      /\ s.failed = (r.failed \/ fails)
      /\ s.switched = (r.switched \/
           (lastBlock # "none" /\ rpu_7002_memmap[lastBlock].latency # 1))
  BY <1>1 DEF Reads
<1>4. s \in Reads
  <2> DEFINE w == r.wrong \/ (~fails /\ bad)
             f == r.failed \/ fails
             x == r.switched \/
                    (lastBlock # "none" /\ rpu_7002_memmap[lastBlock].latency # 1)
  <2>1. w \in BOOLEAN /\ f \in BOOLEAN /\ x \in BOOLEAN
    OBVIOUS
  <2>2. s = [r EXCEPT !.left = r.left - 1, !.wrong = w, !.failed = f, !.switched = x]
    BY <1>1
  <2>3. r.left - 1 \in Nat
    BY <1>2
  <2> HIDE DEF w, f, x
  <2> QED
    BY <2>1, <2>2, <2>3 DEF Reads
<1>5. Inside(s)
  BY <1>2, <1>3, Rounding DEF Inside
<1> QED
  BY <1>3, <1>4, <1>5 DEF bad

LEMMA PlainIs ==
  ASSUME NEW r \in Reads, NEW s \in Plain(r)
  PROVE  /\ s \in Reads /\ s.left = 0 /\ s.count = r.count /\ s.from = r.from
         /\ s.switched = r.switched
         /\ s.wrong => ~(Needed(At(r), 4 * r.left) \subseteq {0})
<1> DEFINE bad == ~(Needed(At(r), 4 * r.left) \subseteq {0})
<1>1. PICK fails \in BOOLEAN :
        s = [r EXCEPT !.left = 0, !.failed = fails, !.wrong = ~fails /\ bad]
  BY DEF Plain
<1> HIDE DEF bad
<1>2. /\ s.left = 0 /\ s.count = r.count /\ s.wrong = (~fails /\ bad)
      /\ s.from = r.from /\ s.switched = r.switched
  BY <1>1 DEF Reads
<1>3. s \in Reads
  BY <1>1 DEF Reads
<1> QED
  BY <1>2, <1>3 DEF bad

---------------------------------------------------------------------------
(* The invariant: the latency of the bus is that of the block of the last  *)
(* platform access, and a read of the platform layer in progress stays     *)
(* inside that block.                                                      *)

LatencySet ==
  /\ lastBlock = "none" => latency = 1
  /\ lastBlock # "none" => latency = rpu_7002_memmap[lastBlock].latency

PlatPlaced ==
  plat.left > 0 =>
    /\ lastBlock \in Blocks /\ In(plat.from, lastBlock)
    /\ plat.from + Copied(plat.count) - 1 <= rpu_7002_memmap[lastBlock].last

Insides == Inside(plat) /\ Inside(hal)

MemInv ==
  /\ MemTypeOK /\ LatencySet /\ PlatPlaced /\ Insides
  /\ PlatformReadsRight /\ HalReadsRight

LEMMA InvInit == MemInit => MemInv
<1> SUFFICES ASSUME MemInit PROVE MemInv
  OBVIOUS
<1>1. Idle \in Reads /\ Idle.left = 0 /\ Idle.count = 0 /\ ~Idle.wrong
  BY DEF Idle, Reads
<1>2. Inside(Idle)
  BY <1>1, Rounding DEF Inside
<1> QED
  BY <1>1, <1>2 DEF MemInit, MemInv, MemTypeOK, LatencySet, PlatPlaced, Insides,
                    PlatformReadsRight, HalReadsRight

LEMMA ApplyStep ==
  ASSUME MemInv, NEW b \in Blocks, Apply(b)
  PROVE  /\ lastBlock' = b /\ latency' = rpu_7002_memmap[b].latency
         /\ latency' \in 0 .. 2 /\ LatencySet'
  BY BlockTypes, PacketRam DEF Apply, LatencySet

LEMMA PlatformAccess ==
  ASSUME MemInv, NEW a \in PlatAddrs, NEW n \in PlatLens, RpuRead(a, n) \/ RpuWrite(a, n)
  PROVE  MemInv'
<1>1. a \in Nat /\ n \in Nat /\ n % 4 = 0
  BY MemoryAssumption DEF MemoryAssumption
<1>2. PICK b \in BlockOf(a, n) : Apply(b)
  BY DEF RpuRead, RpuWrite
<1>3. b \in Blocks /\ In(a, b) /\ In(a + n - 1, b)
  BY <1>2 DEF BlockOf
<1>4. /\ lastBlock' = b /\ latency' \in 0 .. 2 /\ LatencySet'
  BY <1>2, <1>3, ApplyStep
<1>5. hal' = hal
  BY DEF RpuRead, RpuWrite
<1>6. HalReadsRight' /\ Inside(hal)'
  BY <1>5 DEF MemInv, Insides, Inside, HalReadsRight, Fitting, HlReads
<1>7. CASE RpuRead(a, n)
  <2>1. plat' = Reading(a, n)
    BY <1>7 DEF RpuRead
  <2>2. /\ plat' \in Reads /\ plat'.from = a /\ plat'.left = Copied(n) \div 4
        /\ plat'.count = n /\ plat'.wrong = FALSE
    BY <2>1, <1>1, ReadingIs
  <2>3. Copied(n) = n /\ 4 * plat'.left = Copied(n)
    BY <1>1, <2>2, RoundingWords, Rounding
  <2>4. PlatPlaced'
    BY <1>1, <1>3, <1>4, <2>2, <2>3 DEF PlatPlaced, In
  <2>5. Inside(plat)'
    BY <1>1, <2>2, <2>3 DEF Inside
  <2> QED
    BY <1>3, <1>4, <1>5, <1>6, <2>2, <2>4, <2>5
       DEF MemInv, MemTypeOK, PlatformReadsRight, Insides
<1>8. CASE RpuWrite(a, n)
  <2>1. plat' = plat /\ plat.left = 0
    BY <1>8 DEF RpuWrite
  <2>2. Inside(plat)'
    BY <2>1 DEF MemInv, Insides, Inside
  <2> QED
    BY <1>3, <1>4, <1>5, <1>6, <2>1, <2>2
       DEF MemInv, MemTypeOK, PlatPlaced, PlatformReadsRight, Insides
<1> QED
  BY <1>7, <1>8

LEMMA PlatformWord ==
  ASSUME MemInv, RpuWord
  PROVE  MemInv'
<1>1. /\ plat.left > 0 /\ latency' = latency /\ lastBlock' = lastBlock /\ hal' = hal
      /\ plat \in Reads /\ Inside(plat) /\ ~plat.wrong
  BY DEF RpuWord, MemInv, MemTypeOK, Insides, PlatformReadsRight
<1>2. LatencySet' /\ HalReadsRight' /\ Inside(hal)'
  BY <1>1 DEF MemInv, LatencySet, Insides, Inside, HalReadsRight, Fitting, HlReads
<1>3. /\ lastBlock \in Blocks /\ lastBlock # "none" /\ In(plat.from, lastBlock)
      /\ plat.from + Copied(plat.count) - 1 <= rpu_7002_memmap[lastBlock].last
      /\ rpu_7002_memmap[lastBlock].first \in Nat /\ rpu_7002_memmap[lastBlock].last \in Nat
  BY <1>1, BlockTypes, PacketRam DEF MemInv, PlatPlaced
<1>4. /\ plat.from \in Nat /\ plat.left \in Nat /\ plat.left >= 1
      /\ At(plat) \in Nat /\ plat.from <= At(plat) /\ Copied(plat.count) \in Nat
      /\ At(plat) + 4 * plat.left = plat.from + Copied(plat.count)
  BY <1>1, AtIs
<1>5. ASSUME NEW m \in Nat, m <= 4 * plat.left
      PROVE  Needed(At(plat), m) \subseteq {rpu_7002_memmap[lastBlock].latency}
  <2>1. In(At(plat), lastBlock) /\ At(plat) + m - 1 <= rpu_7002_memmap[lastBlock].last
    BY <1>3, <1>4, <1>5 DEF In
  <2> QED
    BY <1>3, <1>4, <2>1, NeededInside
<1>6. CASE lastBlock = "PKTRAM"
  <2>1. plat' \in Plain(plat)
    BY <1>6 DEF RpuWord
  <2>2. Needed(At(plat), 4 * plat.left) \subseteq {0}
    BY <1>4, <1>5, <1>6, PacketRam
  <2>3. plat' \in Reads /\ plat'.left = 0 /\ ~plat'.wrong /\ plat'.count = plat.count
    BY <1>1, <2>1, <2>2, PlainIs
  <2>4. Inside(plat)'
    BY <1>4, <2>3 DEF Inside
  <2> QED
    BY <1>1, <1>2, <2>3, <2>4 DEF MemInv, MemTypeOK, PlatPlaced, PlatformReadsRight, Insides
<1>7. CASE lastBlock # "PKTRAM"
  <2>1. plat' \in HlWord(plat)
    BY <1>7 DEF RpuWord
  <2>2. Needed(At(plat), 4) \subseteq {latency}
    BY <1>3, <1>4, <1>5 DEF MemInv, LatencySet
  <2>3. /\ plat' \in Reads /\ plat'.from = plat.from /\ plat'.count = plat.count
        /\ ~plat'.wrong /\ Inside(plat')
    BY <1>1, <2>1, <2>2, HlWordIs
  <2>4. PlatPlaced' /\ Inside(plat)'
    BY <1>1, <1>3, <2>3 DEF PlatPlaced, In, Inside
  <2> QED
    BY <1>1, <1>2, <2>3, <2>4 DEF MemInv, MemTypeOK, PlatformReadsRight, Insides
<1> QED
  BY <1>6, <1>7

LEMMA HalAccess ==
  ASSUME MemInv, NEW a \in HalAddrs, NEW n \in HalCounts, HalRead(a, n)
  PROVE  MemInv'
<1>1. a \in Nat /\ n \in Nat
  BY MemoryAssumption DEF MemoryAssumption
<1>2. /\ hal' = Reading(a, n) /\ latency' = latency /\ lastBlock' = lastBlock /\ plat' = plat
  BY DEF HalRead
<1>3. /\ hal' \in Reads /\ hal'.from = a /\ hal'.count = n
      /\ hal'.left = Copied(n) \div 4 /\ hal'.wrong = FALSE
  BY <1>1, <1>2, ReadingIs
<1>4. Inside(hal)' /\ HalReadsRight'
  BY <1>1, <1>3, Rounding DEF Inside, HalReadsRight
<1>5. LatencySet' /\ PlatPlaced' /\ PlatformReadsRight' /\ Inside(plat)'
  BY <1>2 DEF MemInv, LatencySet, PlatPlaced, PlatformReadsRight, Insides, Inside
<1> QED
  BY <1>2, <1>3, <1>4, <1>5 DEF MemInv, MemTypeOK, Insides

LEMMA HalTransfer ==
  ASSUME MemInv, HalWord
  PROVE  MemInv'
<1>1. /\ hal.left > 0 /\ latency' = latency /\ lastBlock' = lastBlock /\ plat' = plat
      /\ hal \in Reads /\ Inside(hal)
  BY DEF HalWord, MemInv, MemTypeOK, Insides
<1>2. LatencySet' /\ PlatPlaced' /\ PlatformReadsRight' /\ Inside(plat)'
  BY <1>1 DEF MemInv, LatencySet, PlatPlaced, PlatformReadsRight, Insides, Inside
<1>3. /\ hal.from \in Nat /\ hal.left \in Nat /\ hal.left >= 1
      /\ At(hal) \in Nat /\ hal.from <= At(hal) /\ Copied(hal.count) \in Nat
      /\ At(hal) + 4 * hal.left = hal.from + Copied(hal.count)
  BY <1>1, AtIs
<1>4. ASSUME NEW m \in Nat, m <= 4 * hal.left, Fitting(hal)
      PROVE  Needed(At(hal), m) \subseteq {IF HlReads(hal) THEN 1 ELSE 0}
  BY <1>3, <1>4, NeededPart DEF Fitting
<1>5. ASSUME hal'.from = hal.from, hal'.count = hal.count
      PROVE  Fitting(hal)' <=> Fitting(hal)
  BY <1>5 DEF Fitting, HlReads
<1>6. CASE HlReads(hal)
  <2>1. hal' \in HlWord(hal)
    BY <1>6 DEF HalWord
  <2>2. /\ hal' \in Reads /\ hal'.from = hal.from /\ hal'.count = hal.count /\ Inside(hal')
        /\ hal'.wrong => hal.wrong \/ ~(Needed(At(hal), 4) \subseteq {latency})
        /\ hal.switched => hal'.switched
        /\ lastBlock # "none" /\ rpu_7002_memmap[lastBlock].latency # 1 => hal'.switched
    BY <1>1, <2>1, HlWordIs
  <2>3. Fitting(hal) => Needed(At(hal), 4) \subseteq {1}
    BY <1>3, <1>4, <1>6
  <2>4. latency = 1 \/ hal'.switched
    BY <2>2 DEF MemInv, LatencySet
  <2>5. hal'.wrong => hal'.switched \/ ~Fitting(hal)
    BY <2>2, <2>3, <2>4 DEF MemInv, HalReadsRight
  <2>6. HalReadsRight'
    BY <1>5, <2>2, <2>5 DEF HalReadsRight
  <2>7. Inside(hal)'
    BY <2>2 DEF Inside
  <2> QED
    BY <1>1, <1>2, <2>2, <2>6, <2>7 DEF MemInv, MemTypeOK, Insides
<1>7. CASE ~HlReads(hal)
  <2>1. hal' \in Plain(hal)
    BY <1>7 DEF HalWord
  <2>2. /\ hal' \in Reads /\ hal'.left = 0 /\ hal'.from = hal.from /\ hal'.count = hal.count
        /\ hal'.wrong => ~(Needed(At(hal), 4 * hal.left) \subseteq {0})
    BY <1>1, <2>1, PlainIs
  <2>3. Fitting(hal) => Needed(At(hal), 4 * hal.left) \subseteq {0}
    BY <1>3, <1>4, <1>7
  <2>4. HalReadsRight'
    BY <1>5, <2>2, <2>3 DEF HalReadsRight
  <2>5. Inside(hal)'
    BY <1>3, <2>2 DEF Inside
  <2> QED
    BY <1>1, <1>2, <2>2, <2>4, <2>5 DEF MemInv, MemTypeOK, Insides
<1> QED
  BY <1>6, <1>7

LEMMA InvNext == MemInv /\ [MemNext]_memVars => MemInv'
<1> SUFFICES ASSUME MemInv, [MemNext]_memVars PROVE MemInv'
  OBVIOUS
<1>1. CASE BusInit
  <2>1. /\ latency' = 1 /\ lastBlock' = "none" /\ plat' = plat /\ hal' = hal
        /\ plat.left = 0 /\ hal.left = 0
    BY <1>1 DEF BusInit
  <2> QED
    BY <2>1 DEF MemInv, MemTypeOK, LatencySet, PlatPlaced, Insides, Inside,
                PlatformReadsRight, HalReadsRight, Fitting, HlReads
<1>2. CASE \E a \in PlatAddrs, n \in PlatLens : RpuRead(a, n) \/ RpuWrite(a, n)
  BY <1>2, PlatformAccess
<1>3. CASE \E a \in HalAddrs, n \in HalCounts : HalRead(a, n)
  BY <1>3, HalAccess
<1>4. CASE RpuWord
  BY <1>4, PlatformWord
<1>5. CASE HalWord
  BY <1>5, HalTransfer
<1>6. CASE UNCHANGED memVars
  BY <1>6 DEF memVars, MemInv, MemTypeOK, LatencySet, PlatPlaced, Insides, Inside,
              PlatformReadsRight, HalReadsRight, Fitting, HlReads
<1> QED
  BY <1>1, <1>2, <1>3, <1>4, <1>5, <1>6 DEF MemNext

LEMMA Invariance == MemSpec => []MemInv
  BY InvInit, InvNext, PTL DEF MemSpec

(* The variables keep their types, for every address and length.           *)
THEOREM MemoryTypes == MemSpec => []MemTypeOK
<1>1. MemInv => MemTypeOK
  BY DEF MemInv
<1> QED
  BY Invariance, <1>1, PTL

(* rpu_read of the platform layer takes every word of its host-latency     *)
(* transfer at its place, for every address and every number of words,     *)
(* whatever the HAL reads in between.                                      *)
THEOREM PlatformLatency == MemSpec => []PlatformReadsRight
<1>1. MemInv => PlatformReadsRight
  BY DEF MemInv
<1> QED
  BY Invariance, <1>1, PTL

(* A read of the HAL, of any count of bytes at any address, goes wrong     *)
(* only if it touches a block that the shim's choice does not fit, or      *)
(* after a platform access to a block of another latency than that         *)
(* qspi_init has set.                                                      *)
THEOREM HalLatency == MemSpec => []HalReadsRight
<1>1. MemInv => HalReadsRight
  BY DEF MemInv
<1> QED
  BY Invariance, <1>1, PTL

(* The copy of zep_shim_qspi_cpy_from, rounded up to words, fits into a    *)
(* buffer that zep_shim_mem_alloc was asked for with the same length, for  *)
(* every length that an int of the bus can hold.                           *)
THEOREM CopiesFit == MemSpec => []CopyFits
<1>1. MemInv => CopyFits
  <2> SUFFICES ASSUME MemInv PROVE CopyFits
    OBVIOUS
  <2>1. hal.left \in Nat /\ hal.count \in Nat /\ 4 * hal.left <= Copied(hal.count)
    BY DEF MemInv, MemTypeOK, Reads, Insides, Inside
  <2>2. Copied(hal.count) <= Alloc(hal.count) /\ Copied(hal.count) \in Nat
    BY <2>1, Rounding
  <2> QED
    BY <2>1, <2>2, AllocNat DEF CopyFits
<1> QED
  BY Invariance, <1>1, PTL
=============================================================================
