---------------------------- MODULE BloomFilter ----------------------------
(***************************************************************************)
(* The Bloom filter of bloom_filter.c, as operators on a filter record.    *)
(*                                                                         *)
(* A bitmap is the set of the positions of its 1 bits, so that byte h >> 3 *)
(* and mask 1 << (h & 7) of the code are the one position h.  The two hash *)
(* functions of hash.c (hash_crapwow and hash_crc under the filter's seed) *)
(* are fields of the record: everything below holds for whatever functions *)
(* they are.  uint32_t arithmetic wraps at Word, which is 2^32 in the C    *)
(* program and a small power of two when model checking.                   *)
(***************************************************************************)
EXTENDS Integers

CONSTANTS
    Keys,   \* the keys that occur in the two relations (intkey_t)
    Word    \* the number of values of a uint32_t

ASSUME WordAssumption == Word \in Nat \ {0}
ASSUME KeysAssumption == Keys \subseteq Nat

Variants == {"BASIC", "BLOCKED"}

LongWord == Word * Word  \* the number of values of a uint64_t

(***************************************************************************)
(* (v & (v - 1)) == 0: a power of two, which has no odd divisor but 1, or  *)
(* 0.  pow(2, (int) log2(v)) == v is the same up to 2^53, lets 0 through   *)
(* as well, and beyond 2^53 what a double cannot tell from a power of two: *)
(* no such v divides a power of two, so that the test of m % B refuses it  *)
(* for every m but 0.                                                      *)
(***************************************************************************)
PowerOfTwoOrZero(v) == \A d \in 1 .. v : v % d = 0 => d = 1 \/ d % 2 = 0

(***************************************************************************)
(* assert_args: what the program demands of the command-line parameters.   *)
(* m = 0 passes; B = 0 passes the test of B, but the remainder m % B then  *)
(* stops the program.                                                      *)
(***************************************************************************)
assert_args(args) ==
    /\ PowerOfTwoOrZero(args.m)
    /\ args.variant # "BASIC" =>
           /\ PowerOfTwoOrZero(args.B)
           /\ args.B # 0
           /\ args.m % args.B = 0

(***************************************************************************)
(* val & (m - 1) for m = 2^x.  A size of 0, or one that was truncated to 0 *)
(* (m = 2^32), makes the mask all ones, and leaves val as it is.           *)
(***************************************************************************)
mod_m_inclusive(val, m) == IF m = 0 THEN val ELSE val % (m + 1) \* slip: mask m

mod_m(val, m) == IF m = 0 THEN val ELSE val % m

bloom_filter_create(args, seed, crapwow, crc) ==
    [variant |-> args.variant, m |-> args.m, k |-> args.k, B |-> args.B,
     nblocks |-> args.m \div args.B, seed |-> seed,
     bytes |-> args.m \div 8, crapwow |-> crapwow, crc |-> crc]

(***************************************************************************)
(* Enhanced double hashing: the k positions add_generic sets, and          *)
(* contains_generic tests, in this order.  After round i of the loop       *)
(* h = h + y and y = y + i + 1, modulo the size and in 32 bits.            *)
(***************************************************************************)
ProbeGeneric(filter, key, size) ==
    LET hy[i \in 0 .. filter.k] ==
          IF i = 0
          THEN [h |-> mod_m(filter.crapwow[key], size),
                y |-> mod_m((key + filter.seed) % Word, size)]
          ELSE [h |-> mod_m((hy[i-1].h + hy[i-1].y) % Word, size),
                y |-> mod_m((hy[i-1].y + i) % Word, size)]
    IN  [i \in 0 .. filter.k - 1 |-> hy[i].h]

(***************************************************************************)
(* The first bit of the block a key belongs to.  Blocks are addressed in   *)
(* bytes, bitmap + block_idx * (B / 8), in 64 bits.                        *)
(***************************************************************************)
BlockStartInBits(filter, key) == \* slip: B is counted in bytes
    8 * (mod_m(filter.crc[key], filter.nblocks) * filter.B)

BlockStart(filter, key) ==
    8 * ((mod_m(filter.crc[key], filter.nblocks) * (filter.B \div 8)) % LongWord)

(* add_basic/contains_basic and add_blocked/contains_blocked; the size     *)
(* parameter is a uint32_t, m and B are uint64_t.                          *)
ProbeBasic(filter, key) == ProbeGeneric(filter, key, filter.m % Word)

ProbeBlocked(filter, key) ==
    LET probe == ProbeGeneric(filter, key, filter.B % Word)
    IN  [i \in DOMAIN probe |-> BlockStart(filter, key) + probe[i]]

Probe(filter, key) ==
    IF filter.variant = "BASIC" THEN ProbeBasic(filter, key)
                                ELSE ProbeBlocked(filter, key)

Bits(filter, key) == {Probe(filter, key)[i] : i \in 0 .. filter.k - 1}

(* contains_generic: the first position that is not set ends the loop.     *)
contains(filter, bitmap, key) == Bits(filter, key) \subseteq bitmap
=============================================================================
