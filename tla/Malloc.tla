------------------------------- MODULE Malloc -------------------------------
(***************************************************************************)
(* The allocator of the programs that run on the tablet (malloc.c): a      *)
(* memory area cut into chunks whose sizes are powers of two, each with    *)
(* its size in its first word, plus one when it is allocated.              *)
(*                                                                         *)
(* The area is an array of words.  The words of a block belong to the      *)
(* program, which may leave any value there, a plausible header included.  *)
(***************************************************************************)
EXTENDS Integers, FiniteSets

CONSTANTS AREA_BYTES,   \* size given to malloc_init
          SIZES,        \* sizes the program asks for, in bytes
          FILL          \* values the program writes

VARIABLES mem,      \* the words of mem_area
          blocks,   \* the blocks the program holds: its pointer and size
          denied    \* size of the request that was just refused, or 0

allocVars == <<mem, blocks, denied>>

Even(n) == n - (n % 2)
Odd(n) == n % 2 = 1

\* mem_area_size: the area in words, an even number.
AreaSize == Even(AREA_BYTES \div 4)
Offsets == 0 .. AreaSize - 1

Powers == {2 ^ k : k \in 0 .. 12}

\* The loops that clear the lowest bits: the largest power of two in n.
RoundDown(n) == CHOOSE p \in Powers : p <= n /\ n < 2 * p

\* malloc_init: chunks of falling sizes from the start of the area.
InitHeader[o \in Nat] ==
    IF o >= AreaSize THEN {}
    ELSE LET size == RoundDown(AreaSize - o) IN {<<o, size>>} \cup InitHeader[o + size]

InitialMem ==
    [o \in Offsets |-> IF \E s \in Powers : <<o, s>> \in InitHeader[0]
                       THEN CHOOSE s \in Powers : <<o, s>> \in InitHeader[0] ELSE 0]

-----------------------------------------------------------------------------
\* The chunk for a request: header and words, rounded to a power of two.
ChunkSize(size) == 2 * RoundDown((size + 7) \div 4)

Bigger(a, b) == IF a < b THEN b ELSE a

\* The distance the search skips from a chunk that does not serve.
Jump(m, o, size) == Bigger(Even(m[o]), size)

\* The search of malloc: offset of the first chunk that is free and large
\* enough, or -1.
Search(m, size) ==
    LET find[o \in Nat] ==
            IF ~Odd(m[o]) /\ m[o] >= size THEN o
            ELSE IF o + Jump(m, o, size) >= AreaSize THEN -1
            ELSE find[o + Jump(m, o, size)]
    IN find[0]

\* The chunk at o is halved until it has the size asked for, then marked.
Isolate(m, o, size) ==
    LET halves == {p \in Powers : size <= p /\ p < m[o]}
    IN [w \in Offsets |-> IF w = o THEN size + 1
                          ELSE IF w - o \in halves THEN w - o ELSE m[w]]

\* Mutant of TwinOffset, for buddies that are numbered from the second one.
NextOffset(o, size) == o + size

\* The neighbour a chunk was split from: the offset with one bit flipped.
TwinOffset(o, size) == IF (o \div size) % 2 = 0 THEN o + size ELSE o - size

\* free: the chunk is marked and merged with its twin as long as that is a
\* free chunk of the same size.
Merge(m, o) ==
    LET merge[p \in Nat, size \in Powers] ==
            LET twin == TwinOffset(p, size)
            IN IF twin >= AreaSize \/ m[twin] # size THEN <<p, size>>
               ELSE merge[IF twin < p THEN twin ELSE p, 2 * size]
        chunk == merge[o, Even(m[o])]
        \* the headers along the way keep the sizes they had when merged
        passed == {s \in Powers : Even(m[o]) <= s /\ s <= chunk[2]}
    IN [w \in Offsets |->
            IF \E s \in passed : w = o - (o % s)
            THEN CHOOSE s \in passed : w = o - (o % s) /\ \A t \in passed : w = o - (o % t) => t <= s
            ELSE m[w]]

-----------------------------------------------------------------------------
AllocInit == mem = InitialMem /\ blocks = {} /\ denied = 0

Allocate(size) ==
    LET chunk == ChunkSize(size)
        o == Search(mem, chunk)
    IN IF o = -1 THEN denied' = size /\ UNCHANGED <<mem, blocks>>
       ELSE /\ mem' = Isolate(mem, o, chunk)
            /\ blocks' = blocks \cup {[at |-> o + 1, size |-> size]}
            /\ denied' = 0

\* The words of a block that belong to the program.
Words(b) == b.at .. b.at + (b.size + 3) \div 4 - 1

Fill(b, v) ==
    /\ mem' = [w \in Offsets |-> IF w \in Words(b) THEN v ELSE mem[w]]
    /\ denied' = 0
    /\ UNCHANGED blocks

Release(b) ==
    /\ mem' = Merge(mem, b.at - 1)
    /\ blocks' = blocks \ {b}
    /\ denied' = 0

AllocNext ==
    \/ \E size \in SIZES : Allocate(size)
    \/ \E b \in blocks : (\E v \in FILL : Fill(b, v)) \/ Release(b)

-----------------------------------------------------------------------------
\* The chunks as the headers chain them.
Chunks ==
    LET chain[o \in Nat] ==
            IF o >= AreaSize \/ Even(mem[o]) = 0 THEN {} ELSE {o} \cup chain[o + Even(mem[o])]
    IN chain[0]

(* Properties.                                                             *)

\* Whatever the program writes into its blocks, the headers chain chunks that
\* fill the area, each at a multiple of its size (malloc.c: "Offset in mem_area
\* of a memory chunk of size 2^k is a multiple of 2^k").
ChunksTile ==
    \A o \in Chunks :
        /\ o % Even(mem[o]) = 0
        /\ o + Even(mem[o]) = AreaSize \/ o + Even(mem[o]) \in Chunks

\* Each block of the program lies in an allocated chunk of its own, and no
\* other chunk is marked.
BlocksApart ==
    /\ \A b \in blocks : b.at - 1 \in Chunks /\ Odd(mem[b.at - 1])
                         /\ \A w \in Words(b) : w < b.at - 1 + Even(mem[b.at - 1])
    /\ Cardinality({o \in Chunks : Odd(mem[o])}) = Cardinality(blocks)

\* A request is refused only when no free chunk could serve it: the search
\* does not jump over one.
DeniedWhenFull ==
    denied # 0 => ~\E o \in Chunks : ~Odd(mem[o]) /\ mem[o] >= ChunkSize(denied)

\* Blocks freed in any order leave the area as malloc_init left it.
FreedIsWhole == blocks = {} => {<<o, mem[o]>> : o \in Chunks} = InitHeader[0]

\* The four together: the area after any sequence of requests and releases.
AreaSound == ChunksTile /\ BlocksApart /\ DeniedWhenFull /\ FreedIsWhole
=============================================================================
