------------------------------ MODULE Bitset ------------------------------
(***************************************************************************)
(* The bit set of src/src/bitset.c.  bitset_t is the record variable       *)
(* `bset': bits, the CALLOCed array of uint32_t words (a word is the set   *)
(* of its bit positions 0..31), and num_bits.  The three macros are        *)
(* operators on w-bit size_t values.  `alive' says whether the bitset_t is *)
(* allocated (bset_new .. bset_delete); `ref' is the set of bits a caller  *)
(* has set and not cleared, the reference the words are checked against.  *)
(***************************************************************************)
EXTENDS Integers, FiniteSets

CONSTANTS
  NumBitsChoices, \* num_bits values passed to bset_new / bset_initialize
  Bits,           \* bit numbers passed to set / clear / test
  SizeMod         \* 2^w for the w-bit size_t

ASSUME NumBitsChoices \subseteq 1 .. SizeMod - 1 /\ Bits \subseteq 0 .. SizeMod - 1

WordBits == 0 .. 31
AllOnes == WordBits   \* 0xFFFFFFFF

(* Fault variants of the macros: a word count of (x + 0x1f) >> 5 while    *)
(* DWORD_INDEX stays x & ~0x1f, and a BIT without the & 0x1f mask.         *)
DWORDS_NEEDED_shifted(x) == ((x + 31) % SizeMod) \div 32

BIT_unmasked(x) == {x}

(* #define DWORDS_NEEDED(x) ((x + 0x1f) & ~0x1f), in size_t arithmetic.   *)
DWORDS_NEEDED(x) == LET y == (x + 31) % SizeMod IN y - (y % 32)

(* #define DWORD_INDEX(x) (x & ~0x1f)                                      *)
DWORD_INDEX(x) == x - (x % 32)

(* #define BIT(x) ((uint32_t)(1 << (x & 0x1f))): the one bit x & 0x1f.     *)
BIT(x) == {x % 32}

VARIABLES bset, alive, ref

vars == <<bset, alive, ref>>

NoBits == [bits |-> <<>>, num_bits |-> 0]

(***************************************************************************)
(* bset_initialize: CALLOC DWORDS_NEEDED(num_bits) zeroed words.  A        *)
(* CALLOC of 0 words may give NULL (CHECK_PTR returns, num_bits is left    *)
(* as it was) or a pointer to no words.                                    *)
(***************************************************************************)
Zeroed(n) == [i \in 0 .. n - 1 |-> {}]

bset_initialize(n) ==
  \/ /\ DWORDS_NEEDED(n) > 0 \/ n = 0
     /\ bset' = [bits |-> Zeroed(DWORDS_NEEDED(n)), num_bits |-> n]
  \/ /\ DWORDS_NEEDED(n) = 0 /\ n > 0
     /\ bset' \in {[bset EXCEPT !.bits = <<>>],
                   [bits |-> <<>>, num_bits |-> n]}

Init == bset = NoBits /\ alive = FALSE /\ ref = {}

(* bset_new(num_bits): refuse 0, CALLOC the struct, initialize it.        *)
bset_new(n) ==
  /\ ~alive /\ n > 0
  /\ bset = NoBits
  /\ bset_initialize(n)
  /\ alive' = TRUE /\ ref' = {}

(* bset_deinitialize: only a set with bits and storage is released.       *)
bset_deinitialize ==
  /\ alive /\ bset.num_bits > 0
  /\ bset' = NoBits
  /\ ref' = {}
  /\ UNCHANGED alive

(* bset_initialize again, on a set that bset_deinitialize released.       *)
Reinitialize(n) ==
  /\ alive /\ bset = NoBits
  /\ bset_initialize(n)
  /\ ref' = {}
  /\ UNCHANGED alive

(* bset_delete: deinitialize, then FREE the struct.                       *)
bset_delete ==
  /\ alive
  /\ bset' = NoBits
  /\ alive' = FALSE /\ ref' = {}

(* bits[DWORD_INDEX(bit)] |= BIT(bit), for bit < num_bits.                 *)
bset_set(bit) ==
  /\ alive /\ bit < bset.num_bits
  /\ bset' = [bset EXCEPT !.bits[DWORD_INDEX(bit)] = @ \cup BIT(bit)]
  /\ ref' = ref \cup {bit}
  /\ UNCHANGED alive

(* Fault variant of bset_clear: &= BIT(bit), the ~ forgotten.             *)
bset_clear_no_complement(bit) ==
  /\ alive /\ bit < bset.num_bits
  /\ bset' = [bset EXCEPT !.bits[DWORD_INDEX(bit)] = @ \cap BIT(bit)]
  /\ ref' = ref \ {bit}
  /\ UNCHANGED alive

(* bits[DWORD_INDEX(bit)] &= ~BIT(bit), for bit < num_bits.                *)
bset_clear(bit) ==
  /\ alive /\ bit < bset.num_bits
  /\ bset' = [bset EXCEPT !.bits[DWORD_INDEX(bit)] = @ \ BIT(bit)]
  /\ ref' = ref \ {bit}
  /\ UNCHANGED alive

(* bset_test: read-only, so an operator.                                  *)
bset_test(B, bit) ==
  bit < B.num_bits /\ BIT(bit) \subseteq B.bits[DWORD_INDEX(bit)]

(* bset_clear_all / bset_set_all: every one of the DWORDS_NEEDED words.    *)
bset_clear_all ==
  /\ alive /\ bset.num_bits > 0
  /\ bset' = [bset EXCEPT !.bits = [i \in DOMAIN @ |-> {}]]
  /\ ref' = {}
  /\ UNCHANGED alive

bset_set_all ==
  /\ alive /\ bset.num_bits > 0
  /\ bset' = [bset EXCEPT !.bits = [i \in DOMAIN @ |-> AllOnes]]
  /\ ref' = 0 .. bset.num_bits - 1
  /\ UNCHANGED alive

Next ==
  \/ \E n \in NumBitsChoices : bset_new(n) \/ Reinitialize(n)
  \/ bset_deinitialize
  \/ bset_delete
  \/ \E b \in Bits : bset_set(b) \/ bset_clear(b)
  \/ bset_clear_all
  \/ bset_set_all

Spec == Init /\ [][Next]_vars

-----------------------------------------------------------------------------
TypeOK ==
  /\ alive \in BOOLEAN
  /\ bset.num_bits \in 0 .. SizeMod - 1
  /\ \E n \in 0 .. SizeMod : bset.bits \in [0 .. n - 1 -> SUBSET WordBits]
  /\ ref \subseteq 0 .. SizeMod - 1

(* Every word bset_set, bset_clear and bset_test touch for a bit below     *)
(* num_bits lies inside the array bset_initialize allocated: DWORD_INDEX   *)
(* (x & ~0x1f, not x >> 5) is only safe because DWORDS_NEEDED allocates    *)
(* 32 times as many words as it needs.                                     *)
InBounds ==
  \A b \in 0 .. bset.num_bits - 1 : DWORD_INDEX(b) \in DOMAIN bset.bits

(* bset_test answers, for every bit below num_bits, whether it was set     *)
(* since it was last cleared: no two bits share a position in the words,  *)
(* whatever sequence of set, clear, set_all and clear_all came before.     *)
BitsAgree ==
  alive => \A b \in Bits \cap (0 .. bset.num_bits - 1) : bset_test(bset, b) <=> b \in ref

=============================================================================
