--------------------------- MODULE BloomFilterUse ---------------------------
(***************************************************************************)
(* One Bloom filter in use: bloom_filter_create, then any number of adders *)
(* that insert keys concurrently, one atomic_fetch_or per bit, the way the *)
(* threads of a join do while they scan relation R.                        *)
(***************************************************************************)
EXTENDS BloomFilter

CONSTANTS
    ArgSet,     \* the bloom_filter_args_t records tried
    Seeds,      \* the seeds tried
    Hashes,     \* the functions tried for hash_crapwow and hash_crc
    Adders,     \* the threads that insert keys
    NoKey       \* "this adder is between two calls"

(***************************************************************************)
(* The fields of bloom_filter_args_t are uint64_t (with k at most the      *)
(* largest int, which counts the rounds of add_generic), the seed and the  *)
(* hash functions' results uint32_t.                                       *)
(***************************************************************************)
ASSUME ArgsAssumption ==
    \A args \in ArgSet :
        /\ args.variant \in Variants
        /\ args.m \in 0 .. LongWord - 1 /\ args.B \in 0 .. LongWord - 1
        /\ args.k \in Nat /\ 2 * args.k < Word
ASSUME HashAssumption ==
    Seeds \subseteq 0 .. Word - 1 /\ Hashes \subseteq [Keys -> 0 .. Word - 1]

VARIABLES
    filter,     \* the record bloom_filter_create made
    bitmap,     \* the positions set in filter->bitmap
    adding,     \* adding[a]: the key of a's call in progress, or NoKey
    i,          \* i[a]: the loop counter of add_generic in that call
    added       \* the keys whose add call has returned

filterVars == <<filter, bitmap, adding, i, added>>

(* Creation divides by B, whatever the variant: B = 0 stops the program.   *)
Filters ==
    {bloom_filter_create(args, s, crapwow, crc) :
        args \in {a \in ArgSet : assert_args(a) /\ a.B # 0},
        s \in Seeds, crapwow \in Hashes, crc \in Hashes}

FilterInit ==
    /\ filter \in Filters
    /\ bitmap = {}
    /\ adding = [a \in Adders |-> NoKey]
    /\ i = [a \in Adders |-> 0]
    /\ added = {}

CallAddKey(a) ==
    /\ adding[a] = NoKey
    /\ \E key \in Keys \ added : adding' = [adding EXCEPT ![a] = key]
    /\ i' = [i EXCEPT ![a] = 0]
    /\ UNCHANGED <<filter, bitmap, added>>

(* add_generic under a plausible slip: the last hash function is left out. *)
AddBitShort(a) ==
    /\ adding[a] # NoKey
    /\ i[a] < filter.k
    /\ bitmap' = IF i[a] + 1 = filter.k /\ filter.k > 1 THEN bitmap
                 ELSE bitmap \cup {Probe(filter, adding[a])[i[a]]}
    /\ i' = [i EXCEPT ![a] = @ + 1]
    /\ UNCHANGED <<filter, adding, added>>

(* One round of add_generic: the relaxed atomic or of one bit. *)
AddBit(a) ==
    /\ adding[a] # NoKey
    /\ i[a] < filter.k
    /\ bitmap' = bitmap \cup {Probe(filter, adding[a])[i[a]]}
    /\ i' = [i EXCEPT ![a] = @ + 1]
    /\ UNCHANGED <<filter, adding, added>>

AddReturns(a) ==
    /\ adding[a] # NoKey
    /\ i[a] = filter.k
    /\ added' = added \cup {adding[a]}
    /\ adding' = [adding EXCEPT ![a] = NoKey]
    /\ UNCHANGED <<filter, bitmap, i>>

FilterNext == \E a \in Adders : CallAddKey(a) \/ AddBit(a) \/ AddReturns(a)

FilterSpec == FilterInit /\ [][FilterNext]_filterVars

-----------------------------------------------------------------------------
(* The keys some adder has started on. *)
InUse == (added \cup {adding[a] : a \in Adders}) \ {NoKey}

(* Every bit that was set lies in the filter->m / 8 bytes that             *)
(* calloc_aligned obtained for the bitmap (bloom_filter_create, line 155): *)
(* what bloom_filter.h:52 and :16 ask sizes to be multiples of 8 for.      *)
BitsInBitmap == bitmap \subseteq 0 .. 8 * filter.bytes - 1

(* The sizes that assert_args lets through and that leave the bitmap a     *)
(* byte at all: not 0, 1, 2 and 4, after which add_generic writes to what  *)
(* was not allocated and the program's behaviour is undefined.             *)
HasBytes == filter.bytes > 0

(* Every size assert_args lets through keeps the bits in the bitmap, if it *)
(* has a byte: also the sizes that add_generic's uint32_t truncates.       *)
WithinBitmap == HasBytes => BitsInBitmap

(* A key whose add call has returned is found from then on, whatever the   *)
(* other adders are doing ("false if the element is definitely not         *)
(* present", bloom_filter.h:38).                                           *)
NoFalseNegative == HasBytes => \A key \in added : contains(filter, bitmap, key)

(* All the bits a blocked filter reads or writes for one key lie in one    *)
(* aligned block of B bits, the one hash_crc selects: that is what makes a *)
(* lookup touch a single cache line (add_blocked, contains_blocked).       *)
(* Blocks of less than a byte all begin at the first.                      *)
OneBlockPerKey ==
    HasBytes /\ filter.variant = "BLOCKED" /\ filter.B >= 8 =>
        \A p \in bitmap : \E key \in InUse :
            p \div filter.B = mod_m(filter.crc[key], filter.nblocks)
=============================================================================
