------------------------------ MODULE ReadAlign -----------------------------
(***************************************************************************)
(* read_non_aligned of qspi_if.c: the QSPI peripheral reads whole words    *)
(* from word addresses into word-aligned memory.  A read is put together   *)
(* from a middle part read in place and moved, and a prefix and a suffix   *)
(* read into a buffer of two words.                                        *)
(***************************************************************************)
EXTENDS Integers

WORD_SIZE == 4

CONSTANT MaxSize   \* bound: bytes asked for

ASSUME AlignAssumption == MaxSize \in Nat \ {0}

VARIABLE ask   \* the arguments: the address, the address of dest, the size

Asks == [addr : 0 .. 2 * WORD_SIZE - 1, dptr : 0 .. WORD_SIZE - 1, size : 1 .. MaxSize]

AlignInit == ask \in Asks
AlignNext == ask' \in Asks

---------------------------------------------------------------------------
ToWord(a) == (WORD_SIZE - (a % WORD_SIZE)) % WORD_SIZE
Least(a, b) == IF a < b THEN a ELSE b

flash_prefix(q) == Least(ToWord(q.addr), q.size)
dest_prefix(q)  == Least(ToWord(q.dptr), q.size)

(* The words of the middle part: those of the flash, and those that fit    *)
(* into the aligned part of dest.                                          *)
Whole(n) == n - (n % WORD_SIZE)

(* Mutant: the room in dest is not looked at.                              *)
FlashMiddleOnly(q) == Whole(q.size - flash_prefix(q))

flash_middle(q) == Least(Whole(q.size - flash_prefix(q)), Whole(q.size - dest_prefix(q)))
flash_suffix(q) == q.size - flash_prefix(q) - flash_middle(q)

Aligned(a) == a % WORD_SIZE = 0

(* A read that ends before the next word of the flash.                     *)
Short(q) == q.size < ToWord(q.addr)

(* It is one transfer, of the prefix, and the word that is asked for does  *)
(* not begin at a word of the flash.                                       *)
OffWord(q) ==
  /\ flash_prefix(q) = q.size /\ flash_middle(q) = 0 /\ flash_suffix(q) = 0
  /\ ~Aligned(q.addr - (WORD_SIZE - flash_prefix(q)))

(* Any other comes by up to three transfers, each of whole words from a    *)
(* word address: the prefix begins at the word before, the middle one is   *)
(* read to a word of dest and stays inside dest, and the suffix fits into  *)
(* the buffer of two words.                                                *)
Tiled(q) ==
  /\ flash_middle(q) >= 0 /\ flash_suffix(q) \in 0 .. 2 * WORD_SIZE
  /\ flash_prefix(q) = ToWord(q.addr)
  /\ flash_prefix(q) > 0 => Aligned(q.addr - (WORD_SIZE - flash_prefix(q)))
  /\ flash_middle(q) > 0 =>
       /\ Aligned(flash_middle(q))
       /\ Aligned(q.addr + flash_prefix(q)) /\ Aligned(q.dptr + dest_prefix(q))
       /\ dest_prefix(q) + flash_middle(q) <= q.size
  /\ flash_suffix(q) > 0 => Aligned(q.addr + flash_prefix(q) + flash_middle(q))

(* Exactly the reads that end before the next word go wrong: they are off  *)
(* the words, all others are made of transfers of words.                   *)
Cut(q) == IF Short(q) THEN OffWord(q) ELSE Tiled(q)

(* The above for the read asked for.                                       *)
WordTransfers == Cut(ask)
=============================================================================
