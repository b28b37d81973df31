----------------------------- MODULE ChipMemory -----------------------------
(***************************************************************************)
(* Reading the memory of the chip: the accesses of the platform layer,     *)
(* rpu_hw_if.c, which check the address against the memory map, those of   *)
(* the HAL over shim.c, which do not, and the host-latency reads of the    *)
(* bus.  The number of dummy words of such a read, qspi_slave_latency, is  *)
(* a field of the one bus configuration: set by the platform layer for its *)
(* own access, read word by word by whoever reads next.                    *)
(***************************************************************************)
EXTENDS Integers

CONSTANTS
  PlatAddrs, PlatLens,   \* addresses and lengths the platform layer is called with
  HalAddrs, HalCounts    \* and the HAL

Block(first, last, latency) == [first |-> first, last |-> last, latency |-> latency]

(* The first and last address of each block and its latency in words.      *)
rpu_7002_memmap ==
  [SysBus       |-> Block(0,       36863,   1), ExtSysBus    |-> Block(36864,   262143,  2),
   PBus         |-> Block(262144,  524287,  1), PKTRAM       |-> Block(786432,  987135,  0),
   GRAM         |-> Block(524288,  598016,  1), LMAC_ROM     |-> Block(1048576, 1261568, 1),
   LMAC_RET_RAM |-> Block(1310720, 1359872, 1), LMAC_SRC_RAM |-> Block(1572864, 1638400, 1),
   UMAC_ROM     |-> Block(2097152, 2496512, 1), UMAC_RET_RAM |-> Block(2621440, 2768896, 1),
   UMAC_SRC_RAM |-> Block(3145728, 3375104, 1)]

Blocks == DOMAIN rpu_7002_memmap
In(a, b) == rpu_7002_memmap[b].first <= a /\ a <= rpu_7002_memmap[b].last

(* rpu_validate_addr: the block, unless it is a ROM or there is none.      *)
BlockOf(a, len) ==
  {b \in Blocks \ {"LMAC_ROM", "UMAC_ROM"} : In(a, b) /\ In(a + len - 1, b)}

(* The chip needs the latency of the map: those of the blocks that the n   *)
(* bytes from a lie in, none where there is no block.                      *)
Needed(a, n) ==
  {rpu_7002_memmap[b].latency :
     b \in {c \in Blocks : rpu_7002_memmap[c].first < a + n /\ a <= rpu_7002_memmap[c].last}}

(* The longest whole words of the int lengths of the bus.                  *)
MaxLen == 2147483644

(* The platform layer is called for whole words, the HAL asks for any      *)
(* count of bytes at any address.                                          *)
ASSUME MemoryAssumption ==
  /\ PlatAddrs \subseteq Nat /\ HalAddrs \subseteq Nat
  /\ PlatLens \subseteq Nat \ {0} /\ \A n \in PlatLens : n % 4 = 0 /\ n <= MaxLen
  /\ HalCounts \subseteq Nat /\ \A n \in HalCounts : n <= MaxLen

VARIABLES
  latency,      \* config.qspi_slave_latency
  lastBlock,    \* history: block of the last platform access since qspi_init
  plat, hal     \* the read in progress, or the last one, of either caller

memVars == <<latency, lastBlock, plat, hal>>

(* A read: its address, the bytes asked for, the words left, and whether a *)
(* word was taken at a wrong place, whether one failed, and whether the    *)
(* last platform access was to a block of another latency than that of the *)
(* bus.                                                                    *)
Idle == [from |-> 0, count |-> 0, left |-> 0, wrong |-> FALSE, failed |-> FALSE,
         switched |-> FALSE]

(* Mutant: rounded down.                                                   *)
AllocDown(n) == n - (n % 4)

(* zep_shim_mem_alloc, and the length of a copy.                           *)
Alloc(n)  == (n + 4) - ((n + 4) % 4)
Copied(n) == IF n % 4 # 0 THEN (n + 4) - ((n + 4) % 4) ELSE n

MemInit == latency = 1 /\ lastBlock = "none" /\ plat = Idle /\ hal = Idle

(* Mutant: the latency of qspi_defconfig stays.                            *)
BusInitSlow ==
  /\ plat.left = 0 /\ hal.left = 0
  /\ latency' = 0 /\ lastBlock' = "none"
  /\ UNCHANGED <<plat, hal>>

(* qspi_defconfig and qspi_init on a bus of at least 16 MHz.               *)
BusInit ==
  /\ plat.left = 0 /\ hal.left = 0
  /\ latency' = 1 /\ lastBlock' = "none"
  /\ UNCHANGED <<plat, hal>>

---------------------------------------------------------------------------
(* The bus.                                                                *)

(* Mutant: the address is checked but its block not applied.               *)
ApplyOnly(b) == lastBlock' = b /\ UNCHANGED latency

(* The end of rpu_validate_addr.                                           *)
Apply(b) == lastBlock' = b /\ latency' = rpu_7002_memmap[b].latency

(* The address of the next word of read r.                                 *)
At(r) == r.from + Copied(r.count) - 4 * r.left

(* qspi_hl_readw takes the last of 1 + latency words; qspi_hl_read drops   *)
(* its status and goes on.                                                 *)
HlWord(r) ==
  {[r EXCEPT !.left = @ - 1,
             !.wrong = @ \/ (~fails /\ ~(Needed(At(r), 4) \subseteq {latency})),
             !.failed = @ \/ fails,
             !.switched = @ \/ (lastBlock # "none" /\ rpu_7002_memmap[lastBlock].latency # 1)] :
   fails \in BOOLEAN}

(* qspi_read transfers all words at once, without dummy words.             *)
Plain(r) ==
  {[r EXCEPT !.left = 0, !.failed = fails,
             !.wrong = ~fails /\ ~(Needed(At(r), 4 * r.left) \subseteq {0})] :
   fails \in BOOLEAN}

Reading(a, n) == [Idle EXCEPT !.from = a, !.left = Copied(n) \div 4, !.count = n]

---------------------------------------------------------------------------
(* The platform layer.                                                     *)

(* rpu_read up to the transfer, refused outside the blocks.                *)
RpuRead(a, n) ==
  /\ plat.left = 0
  /\ \E b \in BlockOf(a, n) : Apply(b)
  /\ plat' = Reading(a, n)
  /\ UNCHANGED hal

(* Its transfer: the next word, or all of the packet memory.               *)
RpuWord ==
  /\ plat.left > 0
  /\ plat' \in IF lastBlock = "PKTRAM" THEN Plain(plat) ELSE HlWord(plat)
  /\ UNCHANGED <<latency, lastBlock, hal>>

RpuWrite(a, n) ==
  /\ plat.left = 0
  /\ \E b \in BlockOf(a, n) : Apply(b)
  /\ UNCHANGED <<plat, hal>>

---------------------------------------------------------------------------
(* The shim, called by the HAL.                                            *)

(* zep_shim_qspi_read_reg32 (four bytes) and zep_shim_qspi_cpy_from: the   *)
(* first address alone decides how all words are read.                     *)
HalRead(a, n) ==
  /\ hal.left = 0 /\ hal' = Reading(a, n)
  /\ UNCHANGED <<latency, lastBlock, plat>>

HlReads(r) == r.from < 786432

HalWord ==
  /\ hal.left > 0
  /\ hal' \in IF HlReads(hal) THEN HlWord(hal) ELSE Plain(hal)
  /\ UNCHANGED <<latency, lastBlock, plat>>

MemNext ==
  \/ BusInit
  \/ \E a \in PlatAddrs, n \in PlatLens : RpuRead(a, n) \/ RpuWrite(a, n)
  \/ \E a \in HalAddrs, n \in HalCounts : HalRead(a, n)
  \/ RpuWord \/ HalWord

MemSpec == MemInit /\ [][MemNext]_memVars

---------------------------------------------------------------------------
Reads ==
  [from : Nat, count : Nat, left : Nat, wrong : BOOLEAN, failed : BOOLEAN, switched : BOOLEAN]

MemTypeOK ==
  /\ latency \in 0 .. 2 /\ lastBlock \in Blocks \cup {"none"}
  /\ plat \in Reads /\ hal \in Reads

(* rpu_read delivers the words that are there, whatever the HAL reads in   *)
(* between: qspi_slave_latency stays what rpu_validate_addr made it, for   *)
(* only the one platform thread sets it.                                   *)
PlatformReadsRight == ~plat.wrong

(* The shim's choice fits every block that a read of the HAL touches: one  *)
(* dummy word below the packet memory, none from there on.  The map has    *)
(* three kinds of reads it does not fit: in ExtSysBus (two dummy words),   *)
(* in the memories above PKTRAM (one), and from below PKTRAM into it.      *)
Fitting(r) ==
  Needed(r.from, Copied(r.count)) \subseteq {IF HlReads(r) THEN 1 ELSE 0}

(* A read of the HAL, of any count at any address, takes a word at a wrong *)
(* place only if it touches a block that the choice does not fit, or if    *)
(* the last platform access was to a block of another latency.  Nothing    *)
(* but the next platform access, or the next qspi_init, restores it.       *)
HalReadsRight == hal.wrong => hal.switched \/ ~Fitting(hal)

(* The rounded copy fits into a buffer of zep_shim_mem_alloc.              *)
CopyFits == 4 * hal.left <= Alloc(hal.count)
=============================================================================
