------------------------------ MODULE Segments ------------------------------
(***************************************************************************)
(* BIG_MEMORY of Assignment 6 (goodmalloc.cpp): the words of a memory that  *)
(* its own headers divide into segments, and what the functions of the      *)
(* allocator do to it under memMutex.                                       *)
(*                                                                         *)
(* A header word is 2 * size + used, where size counts the words up to the  *)
(* next header.  The words past the end of BIG_MEMORY are in the model,     *)
(* since the code reads and writes them.                                    *)
(***************************************************************************)
EXTENDS Integers, FiniteSetsExt

CONSTANTS
  M,             \* big_memory_sz, in words
  PastEnd        \* what a word past the end may hold: 0, or a word of the C heap

ASSUME SizeAssumption ==
  /\ M \in Nat \ {0}
  /\ PastEnd \subseteq Nat /\ PastEnd # {}

Addresses == 0..(3 * M)
Inside == 0..(M - 1)

VARIABLE mem     \* [Addresses -> Nat]: BIG_MEMORY

Used(word) == word % 2 = 1
SizeOf(word) == word \div 2

\* createMem: one free segment, all else zero.
CreateMem ==
  \E w \in PastEnd : mem = [a \in Addresses |->
    IF a = 0 THEN 2 * M ELSE IF a \in Inside THEN 0 ELSE w]

-----------------------------------------------------------------------------
(* CreatePartitionMainMemory *)

\* The headers a walk from address 0 meets, and where it leaves BIG_MEMORY.
Chain ==
  LET met[k \in 0..M] ==
        IF k = 0 THEN {0}
        ELSE {0} \cup {IF i < M THEN i + SizeOf(mem[i]) ELSE i : i \in met[k - 1]}
  IN met[M]

\* The condition of the first-fit loop, for a segment of n words.
Searching(i, n) == i < M /\ (Used(mem[i]) \/ n > SizeOf(mem[i]))

\* Where the loop ends; when it meets a segment of size 0 it stays there.
FirstFit(n) == Min({i \in Chain : ~Searching(i, n)} \cup {Max(Chain)})

\* Mutant: the rest is counted from the whole segment.
SplitWhole(i, n) ==
  [mem EXCEPT ![i] = 2 * n + 1,
              ![i + n] = IF i + n < M THEN 2 * SizeOf(mem[i]) ELSE @]

\* The header of the rest is written whenever it is inside, even if nothing is
\* left; then the header of the segment.
Split(i, n) ==
  [mem EXCEPT ![i] = 2 * n + 1,
              ![i + n] = IF i + n < M THEN 2 * (SizeOf(mem[i]) - n) ELSE @]

\* Mutant: the next segment is never taken over.
ReleasedAlone(words, start, size) == [words EXCEPT ![start] = 2 * size]

\* freeElem and endScope: the memory with the segment at start free; it takes over
\* the next one, if that is free.
Released(words, start, size) ==
  LET next == words[start + size]
  IN [words EXCEPT ![start] = 2 * (IF Used(next) THEN size ELSE size + SizeOf(next))]

-----------------------------------------------------------------------------
(* What the headers say *)

\* The chain of headers ends exactly at the end of BIG_MEMORY, and its used
\* segments are those at the keys of sizes, each of its size.
TiledBy(sizes) ==
  /\ LET headers == Chain
     IN /\ M \in headers /\ headers \subseteq 0..M
        /\ {a \in headers \ {M} : Used(mem[a])} = DOMAIN sizes
  /\ \A a \in DOMAIN sizes : SizeOf(mem[a]) = sizes[a]

\* No free segment follows a free one.
NoFreePair ==
  \A a \in Chain \ {M} : ~Used(mem[a]) =>
    LET b == a + SizeOf(mem[a]) IN b = M \/ Used(mem[b])
=============================================================================
