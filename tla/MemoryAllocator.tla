---------------------------- MODULE MemoryAllocator ----------------------------
(***************************************************************************)
(* MA, the allocator of local memory, ma/ma.c.  One segment holds a heap,  *)
(* which grows upwards, and a stack, which grows downwards:                *)
(*                                                                         *)
(*   ma_segment   ..  ma_hp   ..  ma_sp  ..  ma_eos                        *)
(*   used and free          gap        stack blocks                        *)
(*   heap blocks                                                           *)
(*                                                                         *)
(* A block is                                                              *)
(*                                                                         *)
(*   descriptor  gap  guard  client space  guard  gap                      *)
(*                                                                         *)
(* where the first gap aligns the client space and the second makes the    *)
(* length a multiple of ALIGNMENT.  The boundary between heap and stack    *)
(* that was asked for at the start is not enforced.                        *)
(*                                                                         *)
(* A block is named by the address of its descriptor, and so is its        *)
(* handle: calls with other handles fail and change nothing.  The lists    *)
(* are sets: the free list is kept in the order of addresses, and the      *)
(* order of the others has no effect.                                      *)
(***************************************************************************)
EXTENDS Integers

CONSTANTS
    DescLen,    \* sizeof(AD)
    GuardLen,   \* sizeof(Guard)
    ALIGNMENT,  \* of descriptors
    Word,       \* 2^w, w the bits of an unsigned long
    Layouts     \* what a process has: ma_sizeof and ma_base of the types it
                \* uses; ma_segment; the arguments of MA_init; the alignment
                \* it starts with and those it changes to later (2^ma_numalign
                \* bytes); its largest request

ASSUME AllocatorAssumption ==
    /\ DescLen \in Nat /\ GuardLen \in Nat \ {0}
    /\ ALIGNMENT \in Nat \ {0}
    /\ Word \in Nat \ {0}
    /\ \A l \in Layouts :
          /\ \A t \in DOMAIN l.sizeof : l.sizeof[t] \in Nat \ {0} /\ l.base[t] \in Nat
          /\ l.segment \in Nat /\ l.segment % ALIGNMENT = 0  \* malloc
          /\ l.datatype \in DOMAIN l.sizeof
          /\ l.nominal_heap \in Nat /\ l.nominal_stack \in Nat
          /\ l.numalign \in Nat \ {0} /\ l.later \subseteq Nat \ {0}
          /\ l.most \in Nat

VARIABLES
    layout,      \* what this process has
    ma_numalign, \* client spaces are aligned to this (2^ma_numalign bytes)
    ma_hp, ma_sp,
    ma_hused, ma_hfree, ma_sused,
    nbytes,      \* the length of each block
    ad           \* the datatype, nelem and client_space of a used block

mavars == <<layout, ma_numalign, ma_hp, ma_sp, ma_hused, ma_hfree, ma_sused, nbytes, ad>>

Type         == DOMAIN layout.sizeof
Count        == 0 .. layout.most
ma_segment   == layout.segment
sizeof(t)    == layout.sizeof[t]
base(t)      == layout.base[t]

Least(S)    == CHOOSE a \in S : \A b \in S : a <= b
Greatest(S) == CHOOSE a \in S : \A b \in S : b <= a
Smaller(a, b) == IF b < a THEN b ELSE a
Larger(a, b)  == IF b > a THEN b ELSE a

-----------------------------------------------------------------------------
(* Where the parts of a block are, and the regions *)

\* Least multiple of unit which is not below value
Rounded(value, unit) == value + ((-value) % unit)

BLOCK_OVERHEAD_FIXED == DescLen + 2 * GuardLen
MINBLOCKSIZE == Rounded(ALIGNMENT + BLOCK_OVERHEAD_FIXED, ALIGNMENT)
MaxOverhead(size) == BLOCK_OVERHEAD_FIXED + (size - 1) + (ALIGNMENT - 1)

\* MA_init: so many elements in one block
RegionLen(nominal) ==
    Rounded(nominal * sizeof(layout.datatype) + MaxOverhead(sizeof(layout.datatype)), ALIGNMENT)
ma_partition == ma_segment + RegionLen(layout.nominal_heap)
ma_eos       == ma_partition + RegionLen(layout.nominal_stack)

\* The client space moves up to the alignment that was asked for, if that
\* leaves it aligned for its type.
Up(c, size) ==
    LET diff == (-c) % ma_numalign
    IN  IF diff % size = 0 THEN c + diff ELSE c

\* ... or down
Down(c, size) ==
    LET diff == c % ma_numalign
    IN  IF diff % size = 0 THEN c - diff ELSE c

\* balloc_after: the client space of a block that begins at a, and the length
\* of the block if there are n elements
ClientAfter(t, a) ==
    Up(a + DescLen + ((base(t) - a - DescLen - GuardLen) % sizeof(t)) + GuardLen, sizeof(t))
\* Mutant: the second guard has no room.
BytesAfterUnguarded(t, n, a) == Rounded(ClientAfter(t, a) + n * sizeof(t) - a, ALIGNMENT)

BytesAfter(t, n, a) ==
    Rounded(ClientAfter(t, a) + n * sizeof(t) + GuardLen - a, ALIGNMENT)

\* balloc_before: the same of a block that ends at e.  The gap is computed
\* without sign.
ClientBefore(t, n, e) ==
    LET end == e - GuardLen - n * sizeof(t)
    IN  Down(end - (((end - base(t)) % Word) % sizeof(t)), sizeof(t))
BytesBefore(t, n, e) ==
    LET c == ClientBefore(t, n, e)
    IN  e - c + GuardLen + ((c - GuardLen - DescLen) % ALIGNMENT) + DescLen

-----------------------------------------------------------------------------
(* Free blocks of the heap *)

\* list_coalesce: runs of free blocks become one block each.
End(a, len) == a + len[a]
RunEnd(a, free, len) ==
    Least({End(b, len) : b \in {c \in free : c >= a /\ End(c, len) \notin free}})
Heads(free, len) == {a \in free : \A b \in free : End(b, len) # a}
Merged(free, len) ==
    [a \in DOMAIN len |-> IF a \in Heads(free, len) THEN RunEnd(a, free, len) - a
                          ELSE len[a]]

\* What is known of blocks that are gone does not matter.
Only(f, S) == [x \in S |-> f[x]]

\* Mutant: the free list keeps what is behind the heap.
ReclaimKeepsAll(a, used, len) ==
    IF used = {}
    THEN /\ ma_hp' = ma_segment /\ ma_hfree' = {}
         /\ nbytes' = Only(len, ma_sused)
    ELSE /\ ma_hp' = End(Greatest(used), len)
         /\ ma_hfree' = Heads(ma_hfree \cup {a}, len)
         /\ nbytes' = Only(Merged(ma_hfree \cup {a}, len), used \cup ma_hfree' \cup ma_sused)

\* block_free_heap: a is no longer used.  The heap ends with its last used
\* block, and nothing behind it is in the free list.
Reclaim(a, used, len) ==
    LET last == Greatest(used)
        kept == {f \in ma_hfree : f <= last}
        free == IF a < last THEN kept \cup {a} ELSE kept
    IN  IF used = {}
        THEN /\ ma_hp' = ma_segment /\ ma_hfree' = {}
             /\ nbytes' = Only(len, ma_sused)
        ELSE /\ ma_hp' = End(last, len)
             /\ ma_hfree' = IF a < last THEN Heads(free, len) ELSE free
             /\ nbytes' = Only(IF a < last THEN Merged(free, len) ELSE len,
                               used \cup ma_hfree' \cup ma_sused)

\* The lengths after bytes of block a, of length len, have been set to need
With(len, a, need) ==
    [x \in DOMAIN len \cup {a} |-> IF x = a THEN need ELSE len[x]]

\* block_split: is there enough beyond need for a block of its own; the
\* lengths after that
Splits(a, need) == nbytes[a] - need >= MINBLOCKSIZE
Split(a, need) == With(With(nbytes, a + need, nbytes[a] - need), a, need)

-----------------------------------------------------------------------------
(* The calls *)

\* MA_init
MaInit ==
    /\ layout \in Layouts
    /\ ma_numalign = layout.numalign
    /\ ma_eos <= Word  \* malloc found so much memory
    /\ ma_hp = ma_segment /\ ma_sp = ma_eos
    /\ ma_hused = {} /\ ma_hfree = {} /\ ma_sused = {}
    /\ nbytes = <<>> /\ ad = <<>>

\* The descriptor of a new block
Describe(a, t, n, c) ==
    ad' = With(ad, a, [datatype |-> t, nelem |-> n, client_space |-> c])

\* Free blocks that are big enough
BigEnough(t, n) == {f \in ma_hfree : BytesAfter(t, n, f) <= nbytes[f]}

\* MA_allocate_heap takes the first of them, ...
AllocateFree(t, n) ==
    /\ BigEnough(t, n) # {}
    /\ LET a    == Least(BigEnough(t, n))
           need == BytesAfter(t, n, a)
       IN  /\ ma_hfree' = (ma_hfree \ {a})
                          \cup (IF Splits(a, need) THEN {a + need} ELSE {})
           /\ nbytes' = IF Splits(a, need) THEN Split(a, need) ELSE nbytes
           /\ ma_hused' = ma_hused \cup {a}
           /\ ma_hp' = Larger(ma_hp, a + nbytes'[a])
           /\ Describe(a, t, n, ClientAfter(t, a))
    /\ UNCHANGED <<layout, ma_numalign, ma_sp, ma_sused>>

\* ... or makes the heap longer.
AllocateEnd(t, n) ==
    /\ BigEnough(t, n) = {}
    /\ ma_hp + BytesAfter(t, n, ma_hp) <= ma_sp
    /\ ma_hused' = ma_hused \cup {ma_hp}
    /\ nbytes' = With(nbytes, ma_hp, BytesAfter(t, n, ma_hp))
    /\ Describe(ma_hp, t, n, ClientAfter(t, ma_hp))
    /\ ma_hp' = ma_hp + BytesAfter(t, n, ma_hp)
    /\ UNCHANGED <<layout, ma_numalign, ma_sp, ma_hfree, ma_sused>>

\* MA_free_heap
FreeHeap(a) ==
    /\ a \in ma_hused
    /\ ma_hused' = ma_hused \ {a}
    /\ Reclaim(a, ma_hused \ {a}, nbytes)
    /\ ad' = Only(ad, DOMAIN ad \ {a})
    /\ UNCHANGED <<layout, ma_numalign, ma_sp, ma_sused>>

\* MA_free_heap_piece: the last n elements, if that is not all of them.  The
\* client space stays where it is.
FreeHeapPiece(a, n) ==
    /\ a \in ma_hused /\ n < ad[a].nelem
    /\ LET keep == ad[a].nelem - n
           need == BytesAfter(ad[a].datatype, keep, a)
       IN  /\ IF need < nbytes[a] /\ Splits(a, need)
              THEN Reclaim(a + need, ma_hused, Split(a, need))
              ELSE UNCHANGED <<ma_hp, ma_hfree, nbytes>>
           /\ ad' = [ad EXCEPT ![a].nelem = keep]
    /\ UNCHANGED <<layout, ma_numalign, ma_sp, ma_hused, ma_sused>>

\* MA_push_stack
PushStack(t, n) ==
    /\ BytesBefore(t, n, ma_sp) <= ma_sp - ma_hp
    /\ LET a == ma_sp - BytesBefore(t, n, ma_sp)
       IN  /\ ma_sused' = ma_sused \cup {a}
           /\ nbytes' = With(nbytes, a, ma_sp - a)
           /\ Describe(a, t, n, ClientBefore(t, n, ma_sp))
           /\ ma_sp' = a
    /\ UNCHANGED <<layout, ma_numalign, ma_hp, ma_hused, ma_hfree>>

\* Blocks of the stack are popped.
Drop(S) ==
    /\ nbytes' = Only(nbytes, DOMAIN nbytes \ S)
    /\ ad' = Only(ad, DOMAIN ad \ S)

\* MA_pop_stack: the top of the stack
PopStack(a) ==
    /\ a \in ma_sused /\ a = ma_sp
    /\ ma_sused' = ma_sused \ {a}
    /\ ma_sp' = ma_sp + nbytes[a]
    /\ Drop({a})
    /\ UNCHANGED <<layout, ma_numalign, ma_hp, ma_hused, ma_hfree>>

\* MA_chop_stack: a block and all that were pushed after it
ChopStack(a) ==
    /\ a \in ma_sused
    /\ ma_sused' = {s \in ma_sused : s > a}
    /\ ma_sp' = a + nbytes[a]
    /\ Drop({s \in ma_sused : s <= a})
    /\ UNCHANGED <<layout, ma_numalign, ma_hp, ma_hused, ma_hfree>>

\* MA_set_numalign, in the middle of the program
SetNumalign(v) ==
    /\ ma_numalign' = v
    /\ UNCHANGED <<layout, ma_hp, ma_sp, ma_hused, ma_hfree, ma_sused, nbytes, ad>>

MaNext ==
    \/ \E t \in Type, n \in Count : AllocateFree(t, n) \/ AllocateEnd(t, n) \/ PushStack(t, n)
    \/ \E a \in ma_hused : FreeHeap(a) \/ \E n \in Count : FreeHeapPiece(a, n)
    \/ \E a \in ma_sused : PopStack(a) \/ ChopStack(a)
    \/ \E v \in layout.later : SetNumalign(v)

MaSpec == MaInit /\ [][MaNext]_mavars

-----------------------------------------------------------------------------
(* The inquiries *)

\* ma_nelem: how many elements fit into a block at a of length len
Elements(t, a, len) ==
    IF len > BLOCK_OVERHEAD_FIXED
    THEN Greatest({0} \cup {n \in 0 .. len : BytesAfter(t, n, a) <= len})
    ELSE 0

\* ma_max_heap_frag_nelem: the same of the free blocks before the partition
Fragment(t) ==
    Greatest({0} \cup {Elements(t, f, Smaller(nbytes[f], ma_partition - f)) :
                         f \in {g \in ma_hfree : g < ma_partition}})

\* ... and of the gap
Gap(t, a, len) == IF len > 0 THEN Elements(t, a, len) ELSE 0

\* Mutant: the stack is left out of account, as in MA_inquire_heap.
InquireHeap(t) == Larger(Gap(t, ma_hp, ma_partition - ma_hp), Fragment(t))

InquireHeapCheckStack(t) ==
    Larger(Gap(t, ma_hp, Smaller(ma_partition - ma_hp, ma_sp - ma_hp)), Fragment(t))
InquireHeapNoPartition(t) ==
    Larger(Gap(t, ma_hp, ma_sp - ma_hp), Fragment(t))

-----------------------------------------------------------------------------
(* Properties *)

Used == ma_hused \cup ma_sused
Heap == ma_hused \cup ma_hfree

\* The blocks of S follow one another from lo to hi.
Tiles(S, len, lo, hi) ==
    /\ lo \in S \cup {hi}
    /\ \A a \in S : lo <= a /\ a < End(a, len) /\ End(a, len) <= hi
                    /\ End(a, len) \in S \cup {hi}
    /\ \A a, b \in S : a < b => End(a, len) <= b

\* Heap and stack do not meet, each is made up of blocks without overlap or
\* loss, no two free blocks lie side by side and none at the end of the heap:
\* splitting, coalescing and cutting the heap agree ("block block block ...",
\* ma.c:36; block_split, list_coalesce, block_free_heap).
BlocksSound ==
    /\ ma_hp <= ma_sp
    /\ ma_hused \cap ma_hfree = {}
    /\ Tiles(Heap, nbytes, ma_segment, ma_hp)
    /\ Tiles(ma_sused, nbytes, ma_sp, ma_eos)
    /\ \A f \in ma_hfree : End(f, nbytes) \in ma_hused

\* The program does not change the alignment while it has blocks.
Still == layout.later = {}

\* What a used block was asked for is in it, with both guards, so that nothing
\* the allocator or another client writes is in it ("block = AD gap1 guard1
\* client_space guard2 gap2", ma.c:37; balloc_after, MA_free_heap_piece).
ClientsInside ==
    Still => \A a \in Used :
        LET b == ad[a]
        IN  /\ a + DescLen + GuardLen <= b.client_space
            /\ b.client_space + b.nelem * sizeof(b.datatype) + GuardLen <= End(a, nbytes)

\* Descriptors and client spaces are aligned, the latter where the length of
\* the type divides the number of words or its base is below the segment.
ClientsAligned ==
    \A a \in Used :
        LET t == ad[a].datatype
        IN  /\ (a - ma_segment) % ALIGNMENT = 0
            /\ Word % sizeof(t) = 0 \/ base(t) <= ma_segment =>
                  (ad[a].client_space - base(t)) % sizeof(t) = 0

ClientsSound == ClientsInside /\ ClientsAligned

\* Would a request be granted
HeapGrants(t, n) ==
    BigEnough(t, n) # {} \/ ma_hp + BytesAfter(t, n, ma_hp) <= ma_sp

\* "there will be at least the memory available that this routine indicates"
\* (ma.c:2727, 2798), "this will be the largest piece of memory available"
\* (2801) unless a free block reaches beyond the partition, and a process that
\* has nothing can have both what it asked MA_init for at once.
InquiriesHold ==
    /\ \A t \in Type :
        LET sure == InquireHeapCheckStack(t)
            most == InquireHeapNoPartition(t)
        IN  /\ sure > 0 => HeapGrants(t, sure)
            /\ most > 0 => HeapGrants(t, most)
            /\ (\A f \in ma_hfree : End(f, nbytes) <= ma_partition) =>
                  ~HeapGrants(t, most + 1)
    /\ Used = {} /\ ma_numalign = 1 =>
          BytesAfter(layout.datatype, layout.nominal_heap, ma_hp)
            + BytesBefore(layout.datatype, layout.nominal_stack, ma_sp) <= ma_sp - ma_hp
=============================================================================
