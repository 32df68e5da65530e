------------------------------ MODULE MergeSort ------------------------------
(***************************************************************************)
(* The merge sort of Assignment 6 (mergesort.cpp) on a list of the          *)
(* allocator, with the scopes and the page table of goodmalloc.cpp.         *)
(*                                                                         *)
(* The stack of calls is explicit.  table is mapList, one page table per    *)
(* scope: its length is CURRENT_SCOPE, since endScope erases what is above. *)
(* A page table maps a name to a my_struct, an address of the C heap, to    *)
(* Null, or to Absent; struct holds the ones that are allocated.  A call    *)
(* that would follow any other pointer is not enabled: the program crashes. *)
(***************************************************************************)
EXTENDS Segments, Sequences, SequencesExt

CONSTANTS
  N,              \* the length of MyList
  Values,         \* what its elements may be
  Pointers,       \* addresses malloc may return
  Absent, Null

ASSUME SortAssumption ==
  /\ N \in Nat \ {0} /\ 6 * N + 2 <= M
  /\ Values \subseteq Nat \ {0}
  /\ Absent # Null /\ {Absent, Null} \cap Pointers = {}

VARIABLES
  input,          \* the list at first
  table, struct,  \* the page tables of the scopes; pointer -> [start, size]
  calls           \* the stack of calls, main first

vars == <<mem, input, table, struct, calls>>

Names == {"MyList", "tempList"}
Entries == Pointers \cup {Absent, Null}
Live == DOMAIN struct

Scope == Len(table)
Entry(name) == table[Scope][name]

\* What follows from main's getList on: the calls of a list by a name.
Resolves(name) == Entry(name) \in Live

\* sizeof(element) is three words, of which the first is the value.
Words(len) == 3 * len
Address(name, idx) == struct[Entry(name)].start + 1 + 3 * idx
Value(name, idx) == mem[Address(name, idx)]

-----------------------------------------------------------------------------
(* The functions of goodmalloc.cpp, on the page tables *)

NoNames == [name \in Names |-> Absent]

\* startScope, then getList: the pointer of the scope below, or a null pointer.
WithScope ==
  LET p == IF Entry("MyList") = Absent THEN Null ELSE Entry("MyList")
  IN Append([table EXCEPT ![Scope]["MyList"] = p], [NoNames EXCEPT !["MyList"] = p])

\* createList under a pointer p that malloc returns.
CreateList(pages, name, len, p) ==
  LET i == FirstFit(Words(len) + 1)
  IN /\ mem' = Split(i, Words(len) + 1)
     /\ struct' = [q \in Live \cup {p} |->
                     IF q = p THEN [start |-> i, size |-> Words(len) + 1] ELSE struct[q]]
     /\ table' = [pages EXCEPT ![Len(pages)][name] = p]

FreeIn(words, p) == Released(words, struct[p].start, struct[p].size)
Without(ps) == [q \in Live \ ps |-> struct[q]]
Erased(pages, name) == [pages EXCEPT ![Len(pages)][name] = Absent]

\* What a name leads to is freed, if the page has the name.
FreeNamed(words, p) == IF p = Absent THEN words ELSE FreeIn(words, p)

\* Mutant: setList does nothing.
LeaveScopeKeeps(pages, words, freed) ==
  LET page == pages[Len(pages)]
      owned == {page[name] : name \in Names} \ {Absent}
  IN /\ owned \subseteq Live \ freed
     /\ mem' = FreeNamed(FreeNamed(words, page["MyList"]), page["tempList"])
     /\ struct' = Without(freed \cup owned)
     /\ table' = Front(pages)

\* setList forgets the name; endScope frees what the scope has left, in the order of
\* the names.  words and freed are the memory and the my_structs freed before.
LeaveScope(pages, words, freed) ==
  LET page == [pages[Len(pages)] EXCEPT !["MyList"] = Absent]
      owned == {page[name] : name \in Names} \ {Absent}
  IN /\ owned \subseteq Live \ freed
     /\ mem' = FreeNamed(FreeNamed(words, page["MyList"]), page["tempList"])
     /\ struct' = Without(freed \cup owned)
     /\ table' = Front(pages)

-----------------------------------------------------------------------------
(* The calls *)

Top == calls[Len(calls)]
Return == calls' = Front(calls)
Goto(step) == calls' = [calls EXCEPT ![Len(calls)].step = step]
Call(step, frame) ==
  calls' = Append([calls EXCEPT ![Len(calls)].step = step], frame)
At(proc, step) == calls # <<>> /\ Top.proc = proc /\ Top.step = step

Frame(proc, lo, hi) ==
  [proc |-> proc, lo |-> lo, hi |-> hi, step |-> "enter", i |-> 0, j |-> 0, k |-> 0]

Mid == (Top.lo + Top.hi) \div 2
MyStructs == [start : Addresses, size : 1..M]

\* main: createMem, startScope, createList, and the elements.
Init ==
  /\ input \in [0..(N - 1) -> Values]
  /\ \E p \in Pointers :
       /\ struct = [q \in {p} |-> [start |-> 0, size |-> Words(N) + 1]]
       /\ table = <<[NoNames EXCEPT !["MyList"] = p]>>
  /\ \E w \in PastEnd : mem = [a \in Addresses |->
       IF a = 0 THEN 2 * (Words(N) + 1) + 1
       ELSE IF a = Words(N) + 1 THEN 2 * (M - Words(N) - 1)
       ELSE IF a \in Inside
            THEN IF a <= Words(N) /\ a % 3 = 1 THEN input[a \div 3] ELSE 0
            ELSE w]
  /\ calls = <<Frame("main", 0, N - 1)>>

MainSort ==
  /\ At("main", "enter")
  /\ Call("sorted", Frame("mergesort", 0, N - 1))
  /\ UNCHANGED <<mem, input, table, struct>>

\* freeElem(name), then freeMem, which forgets all page tables.
MainFree ==
  /\ At("main", "sorted") /\ Resolves("MyList")
  /\ mem' = FreeIn(mem, Entry("MyList"))
  /\ struct' = Without({Entry("MyList")}) /\ table' = <<>>
  /\ Return
  /\ UNCHANGED input

-----------------------------------------------------------------------------
(* mergesort *)

\* A list of one element returns here, without endScope.
SortEnter ==
  /\ At("mergesort", "enter")
  /\ table' = WithScope
  /\ IF Top.lo >= Top.hi THEN Return ELSE Goto("left")
  /\ UNCHANGED <<mem, input, struct>>

SortLeft ==
  /\ At("mergesort", "left")
  /\ Call("right", Frame("mergesort", Top.lo, Mid))
  /\ UNCHANGED <<mem, input, table, struct>>

SortRight ==
  /\ At("mergesort", "right")
  /\ Call("merge", Frame("mergesort", Mid + 1, Top.hi))
  /\ UNCHANGED <<mem, input, table, struct>>

SortMerge ==
  /\ At("mergesort", "merge")
  /\ Call("leave", Frame("merge", Top.lo, Top.hi))
  /\ UNCHANGED <<mem, input, table, struct>>

SortLeave ==
  /\ At("mergesort", "leave")
  /\ LeaveScope(table, mem, {})
  /\ Return
  /\ UNCHANGED input

-----------------------------------------------------------------------------
(* merge *)

\* Mutant: off by one.
LengthPast == Top.hi - Top.lo + 2

Length == Top.hi - Top.lo + 1

\* A scope, the list, and a temporary list of the same length as the part.
MergeEnter ==
  /\ At("merge", "enter")
  /\ \E p \in Pointers \ Live : CreateList(WithScope, "tempList", Length, p)
  /\ calls' = [calls EXCEPT ![Len(calls)] =
                 [@ EXCEPT !.step = "loop", !.i = Top.lo, !.j = Mid + 1]]
  /\ UNCHANGED input

\* Mutant: the second half may run past its end.
TakesRightUnbounded ==
  Top.i > Mid \/ Value("MyList", Top.j) < Value("MyList", Top.i)

\* Whether the next element comes from the second half.
TakesRight ==
  \/ Top.i > Mid
  \/ Top.j <= Top.hi /\ Value("MyList", Top.j) < Value("MyList", Top.i)

\* One turn of the loop: the smaller head goes to the temporary list.
MergeTurn ==
  /\ At("merge", "loop") /\ Top.k < Length
  /\ Resolves("MyList") /\ Resolves("tempList")
  /\ LET from == IF TakesRight THEN Top.j ELSE Top.i
     IN mem' = [mem EXCEPT ![Address("tempList", Top.k)] = Value("MyList", from)]
  /\ calls' = [calls EXCEPT ![Len(calls)] =
                 IF TakesRight THEN [Top EXCEPT !.j = Top.j + 1, !.k = Top.k + 1]
                               ELSE [Top EXCEPT !.i = Top.i + 1, !.k = Top.k + 1]]
  /\ UNCHANGED <<input, table, struct>>

\* The loop that copies the temporary list back over the part.
MergeCopyBack ==
  /\ At("merge", "loop") /\ Top.k = Length
  /\ Resolves("MyList") /\ Resolves("tempList")
  /\ LET part == {Address("MyList", Top.lo + k) : k \in 0..(Length - 1)}
         first == Address("MyList", Top.lo)
     IN mem' = [a \in Addresses |-> IF a \in part
                  THEN mem[Address("tempList", 0) + (a - first)] ELSE mem[a]]
  /\ Goto("leave")
  /\ UNCHANGED <<input, table, struct>>

\* freeElem of the temporary list, setList, endScope.
MergeLeave ==
  /\ At("merge", "leave") /\ Resolves("tempList")
  /\ LET p == Entry("tempList")
     IN LeaveScope(Erased(table, "tempList"), FreeIn(mem, p), {p})
  /\ Return
  /\ UNCHANGED input

Next ==
  \/ MainSort \/ MainFree
  \/ SortEnter \/ SortLeft \/ SortRight \/ SortMerge \/ SortLeave
  \/ MergeEnter \/ MergeTurn \/ MergeCopyBack \/ MergeLeave

Spec == Init /\ [][Next]_vars

\* The program runs as long as it does not crash.
FairSpec == Spec /\ WF_vars(Next)

-----------------------------------------------------------------------------
(* Properties *)

Frames == [proc : {"main", "mergesort", "merge"}, lo : 0..N, hi : 0..N,
           step : {"enter", "sorted", "left", "right", "merge", "leave", "loop"},
           i : 0..N, j : 0..N, k : 0..N]

\* The values the variables range over.
TypeOK ==
  /\ mem \in [Addresses -> Nat]
  /\ table \in Seq([Names -> Entries])
  /\ Live \subseteq Pointers /\ \A p \in Live : struct[p] \in MyStructs
  /\ calls \in Seq(Frames)

Merging == calls # <<>> /\ Top.proc = "merge" /\ Top.step \in {"loop", "leave"}

\* mergesort leaves a scope behind for every list of one element, and setList and
\* endScope then work on a scope that is not the one their function opened.  Even
\* so, the list can be reached under its name in every scope there is, the
\* temporary list in the scope of its merge only, and neither is freed early.
ListReachable ==
  /\ \A s \in 1..Scope :
       /\ table[s]["MyList"] \in Live /\ table[s]["MyList"] = table[1]["MyList"]
       /\ table[s]["tempList"] # Absent <=> Merging /\ s = Scope
  /\ Merging => /\ Scope > 1 /\ Entry("tempList") \in Live
                /\ Entry("tempList") # Entry("MyList")

\* The two lists tile BIG_MEMORY with what is free, which is never in two pieces.
MemoryTiled ==
  /\ TiledBy([a \in {struct[p].start : p \in Live} |->
               struct[CHOOSE p \in Live : struct[p].start = a].size])
  /\ NoFreePair
  /\ calls = <<>> => mem[0] = 2 * M

Element(idx) == Value("MyList", idx)
Sorted(lo, hi) == \A a, b \in lo..hi : a <= b => Element(a) <= Element(b)

\* Each call keeps its word: what it was called for is sorted when it is over, and
\* no element of the list is ever lost or made up.
CallsSort ==
  /\ \A c \in DOMAIN calls :
       LET f == calls[c]
           mid == (f.lo + f.hi) \div 2
           over == c = Len(calls)
       IN /\ f.proc = "main" /\ f.step = "sorted" /\ over => Sorted(0, N - 1)
          /\ f.proc = "mergesort" =>
               /\ f.step = "merge" => Sorted(f.lo, mid)
               /\ f.step = "merge" /\ over => Sorted(mid + 1, f.hi)
               /\ f.step = "leave" /\ over => Sorted(f.lo, f.hi)
  /\ calls # <<>> => \A v \in Values :
       Cardinality({k \in 0..(N - 1) : Element(k) = v})
         = Cardinality({k \in 0..(N - 1) : input[k] = v})

\* The program gets to its end: no call of it follows a null or a freed pointer.
Finishes == <>(calls = <<>>)
=============================================================================
