----------------------------- MODULE GoodMalloc -----------------------------
(***************************************************************************)
(* The allocator of Assignment 6 (goodmalloc.cpp) used by threads that each *)
(* create, fill and free one list of the current scope, in any order.       *)
(*                                                                         *)
(* A step is a section of memMutex: createList has two, with the new        *)
(* segment not yet in the page table in between.                            *)
(***************************************************************************)
EXTENDS Segments

CONSTANTS
  Threads,
  Size           \* [Threads -> Nat \ {0}], the words a thread asks for

ASSUME ClientAssumption ==
  /\ IsFiniteSet(Threads)
  /\ Size \in [Threads -> 1..(M - 1)]

\* What a client writes into a list, seen as a header: used, and past any end.
DataWord == 2 * M + 1

VARIABLES
  pc,      \* per thread: "idle", "partitioned", "live", "spin", "exited", "undefined"
  start, size,  \* per thread: the my_struct of its list
  \* What the properties look back on:
  filled,  \* a hole in front of another segment was filled to its last word
  lifo     \* so far, what was asked for did fit, and the last list was freed first

vars == <<mem, pc, start, size, filled, lifo>>

Init ==
  /\ CreateMem
  /\ pc = [t \in Threads |-> "idle"]
  /\ start = [t \in Threads |-> 0] /\ size = [t \in Threads |-> 0]
  /\ filled = FALSE /\ lifo = TRUE

Live == {t \in Threads : pc[t] = "live"}
Allocated == {t \in Threads : pc[t] \in {"partitioned", "live"}}

\* A thread that searches for ever keeps memMutex, and one that exits ends the others;
\* after a write past the end nothing is known of the program.
Running == \A t \in Threads : pc[t] \in {"idle", "partitioned", "live"}

\* The words of the lists with their headers, and the last list in memory.
Taken == Cardinality(UNION {{t} \X (0..Size[t]) : t \in Allocated})
Fits(t) == Taken + Size[t] + 1 <= M
LastInMemory(t) == \A u \in Allocated : start[u] <= start[t]

-----------------------------------------------------------------------------
(* The threads *)

\* The search for n words ends inside, at i, and the segment of t is made there.
Take(t, i, n) ==
  /\ mem' = Split(i, n) /\ start' = [start EXCEPT ![t] = i]
  /\ pc' = [pc EXCEPT ![t] = "partitioned"]
  /\ filled' = (filled \/ (i + n < M /\ SizeOf(mem[i]) = n))
  /\ UNCHANGED size

\* Mutant: no word for the header.
PartitionNoHeader(t) ==
  /\ pc[t] = "idle" /\ Running
  /\ LET i == FirstFit(Size[t])
     IN i < M /\ ~Searching(i, Size[t]) /\ Take(t, i, Size[t])
  /\ lifo' = (lifo /\ Fits(t))

\* First section of createList.  A search that runs past the end makes it exit.  One
\* that ends at the end does not: it writes a header there, which is undefined.
Partition(t) ==
  /\ pc[t] = "idle" /\ Running
  /\ LET n == Size[t] + 1
         i == FirstFit(n)
     IN \/ i < M /\ ~Searching(i, n) /\ Take(t, i, n)
        \/ /\ i >= M \/ Searching(i, n)
           /\ pc' = [pc EXCEPT ![t] = CASE i > M -> "exited"
                                        [] i = M -> "undefined"
                                        [] OTHER -> "spin"]
           /\ UNCHANGED <<mem, start, size, filled>>
  /\ lifo' = (lifo /\ Fits(t))

\* Mutant: the header is not shifted.
EnterListUnshifted(t) ==
  /\ pc[t] = "partitioned" /\ Running
  /\ size' = [size EXCEPT ![t] = mem[start[t]]]
  /\ pc' = [pc EXCEPT ![t] = "live"]
  /\ UNCHANGED <<mem, start, filled, lifo>>

\* Second section, and the entry of the page table: the size is read back from
\* the header.
EnterList(t) ==
  /\ pc[t] = "partitioned" /\ Running
  /\ size' = [size EXCEPT ![t] = SizeOf(mem[start[t]])]
  /\ pc' = [pc EXCEPT ![t] = "live"]
  /\ UNCHANGED <<mem, start, filled, lifo>>

\* assignVal on some element: a word of the list that is not its header.
AssignVal(t) ==
  /\ pc[t] = "live" /\ Running
  /\ \E a \in (start[t] + 1)..(start[t] + Size[t]) :
       mem' = [mem EXCEPT ![a] = DataWord]
  /\ UNCHANGED <<pc, start, size, filled, lifo>>

FreeElem(t) ==
  /\ pc[t] = "live" /\ Running
  /\ mem' = Released(mem, start[t], size[t])
  /\ pc' = [pc EXCEPT ![t] = "idle"]
  /\ start' = [start EXCEPT ![t] = 0] /\ size' = [size EXCEPT ![t] = 0]
  /\ lifo' = (lifo /\ LastInMemory(t))
  /\ UNCHANGED filled

Next == \E t \in Threads : Partition(t) \/ EnterList(t) \/ AssignVal(t) \/ FreeElem(t)

Spec == Init /\ [][Next]_vars

-----------------------------------------------------------------------------
(* Properties *)

\* The values every variable ranges over.
TypeOK ==
  /\ mem \in [Addresses -> Nat]
  /\ pc \in [Threads -> {"idle", "partitioned", "live", "spin", "exited", "undefined"}]
  /\ start \in [Threads -> 0..M] /\ size \in [Threads -> 0..M]
  /\ filled \in BOOLEAN /\ lifo \in BOOLEAN

\* Until a hole is filled to its last word, the headers tile the memory, and the
\* segments in use are those of the lists, each with the size its creator asked for,
\* in whatever order lists come and go: no word of a list is taken for a header, and
\* no search stays at one of size 0 (goodmalloc.cpp:64-70) for ever.
Tiled ==
  ~filled =>
    /\ TiledBy([a \in {start[t] : t \in Allocated} |->
                 Size[CHOOSE t \in Allocated : start[t] = a] + 1])
    /\ \A t, v \in Allocated : start[t] = start[v] => t = v
    /\ \A t \in Threads : pc[t] # "spin"

\* No two lists share a word, not even after a header was lost.
ListsDisjoint ==
  \A t, u \in Allocated :
    t # u => start[t] + Size[t] < start[u] \/ start[u] + Size[u] < start[t]

\* Clients that ask for what fits beside the lists they have and free the last list
\* first, as those of Assignment 6 do, never meet a search that fails or does not end;
\* when they have freed everything, the memory is one segment again.
LifoClientsServed ==
  lifo => /\ Running /\ ~filled
          /\ Allocated = {} => mem[0] = 2 * M
=============================================================================
