-------------------------- MODULE MergeSortProofs ---------------------------
(***************************************************************************)
(* The merge sort for lists of every length: the list can be reached in     *)
(* every scope, although the scopes are not balanced (what the memory holds *)
(* does not matter there), the two lists tile the memory, no call leaves    *)
(* its part of the list, and what it returns is sorted.                     *)
(***************************************************************************)
EXTENDS MergeSort, SequenceTheorems, FiniteSetTheorems, TLAPS

\* Front drops the last element.
LEMMA FrontDrops ==
  ASSUME NEW S, NEW s \in Seq(S), s # <<>>
  PROVE  /\ Front(s) \in Seq(S) /\ Len(Front(s)) = Len(s) - 1
         /\ \A k \in 1..(Len(s) - 1) : Front(s)[k] = s[k]
<1>1. \A k \in 1..(Len(s) - 1) : s[k] \in S
  OBVIOUS
<1>2. Len(s) \in Nat \ {0}
  OBVIOUS
<1> DEFINE last == Len(s) - 1
<1>3. /\ SubSeq(s, 1, last) \in Seq(S)
      /\ Len(SubSeq(s, 1, last)) = IF 1 <= last THEN last - 1 + 1 ELSE 0
      /\ \A k \in 1..(last - 1 + 1) : SubSeq(s, 1, last)[k] = s[1 + k - 1]
  BY <1>1, <1>2, SubSeqProperties
<1>4. Front(s) = SubSeq(s, 1, last) /\ last \in Nat
  BY <1>2 DEF Front
<1>5. \A k \in 1..last : k \in 1..(last - 1 + 1) /\ 1 + k - 1 = k
  BY <1>4
<1> HIDE DEF last
<1>6. (IF 1 <= last THEN last - 1 + 1 ELSE 0) = last
  BY <1>4
<1> QED BY <1>3, <1>4, <1>5, <1>6 DEF last

-----------------------------------------------------------------------------
(* The stack of calls *)

FrameType == [proc : {"main", "mergesort", "merge"}, lo : Int, hi : Int,
              step : {"enter", "sorted", "left", "right", "merge", "leave", "loop"},
              i : Int, j : Int, k : Int]

\* main is at the bottom, and only there; a call that waits for another one is past
\* its start, and is not a merge.
CallsInv ==
  /\ calls \in Seq(FrameType)
  /\ \A k \in 1..Len(calls) :
       /\ calls[k].proc = "main" <=> k = 1
       /\ k < Len(calls) => /\ calls[k].proc # "merge"
                            /\ calls[k].step \in {"sorted", "right", "merge", "leave"}

\* A call puts its frame on top of the stack.
LEMMA CallPushes ==
  ASSUME CallsInv, calls # <<>>, Top.proc # "merge",
         NEW step \in {"sorted", "right", "merge", "leave"},
         NEW f \in FrameType, f.proc # "main", Call(step, f)
  PROVE  /\ CallsInv' /\ Len(calls') = Len(calls) + 1
         /\ calls' # <<>> /\ Top' = f
<1> DEFINE top == [calls[Len(calls)] EXCEPT !.step = step]
           below == [calls EXCEPT ![Len(calls)] = top]
<1>1. Len(calls) \in Nat \ {0} /\ calls[Len(calls)] \in FrameType
  BY DEF CallsInv
<1>2. /\ top \in FrameType /\ top.proc = calls[Len(calls)].proc /\ top.step = step
  BY <1>1 DEF FrameType
<1>3. /\ below \in Seq(FrameType) /\ Len(below) = Len(calls)
      /\ below[Len(calls)] = top
      /\ \A k \in 1..(Len(calls) - 1) : below[k] = calls[k]
  BY <1>1, <1>2 DEF CallsInv
<1>4. calls' = Append(below, f)
  BY DEF Call
<1> HIDE DEF top, below
<1>5. /\ calls' \in Seq(FrameType) /\ Len(calls') = Len(calls) + 1
      /\ calls'[Len(calls) + 1] = f /\ calls'[Len(calls)] = top
      /\ \A k \in 1..(Len(calls) - 1) : calls'[k] = calls[k]
  BY <1>1, <1>3, <1>4
<1>6. CallsInv'
  <2> SUFFICES ASSUME NEW k \in 1..(Len(calls) + 1)
               PROVE  /\ calls'[k].proc = "main" <=> k = 1
                      /\ k < Len(calls) + 1 =>
                           /\ calls'[k].proc # "merge"
                           /\ calls'[k].step \in {"sorted", "right", "merge", "leave"}
    BY <1>5 DEF CallsInv
  <2>1. CASE k = Len(calls) + 1
    BY <2>1, <1>1, <1>5
  <2>2. CASE k = Len(calls)
    BY <2>2, <1>1, <1>2, <1>5 DEF CallsInv, Top
  <2>3. CASE k \in 1..(Len(calls) - 1)
    BY <2>3, <1>1, <1>5 DEF CallsInv
  <2> QED BY <2>1, <2>2, <2>3, <1>1
<1> QED BY <1>1, <1>5, <1>6 DEF Top

\* A step inside a call changes the top of the stack only.
LEMMA TopReplaced ==
  ASSUME CallsInv, calls # <<>>,
         NEW f \in FrameType, f.proc = Top.proc,
         calls' = [calls EXCEPT ![Len(calls)] = f]
  PROVE  CallsInv' /\ Len(calls') = Len(calls) /\ calls' # <<>> /\ Top' = f
<1>1. Len(calls) \in Nat \ {0}
  BY DEF CallsInv
<1>2. /\ calls' \in Seq(FrameType) /\ Len(calls') = Len(calls)
      /\ calls'[Len(calls)] = f
      /\ \A k \in 1..(Len(calls) - 1) : calls'[k] = calls[k]
  BY <1>1 DEF CallsInv
<1>3. CallsInv'
  <2> SUFFICES ASSUME NEW k \in 1..Len(calls)
               PROVE  /\ calls'[k].proc = "main" <=> k = 1
                      /\ k < Len(calls) =>
                           /\ calls'[k].proc # "merge"
                           /\ calls'[k].step \in {"sorted", "right", "merge", "leave"}
    BY <1>2 DEF CallsInv
  <2>1. CASE k = Len(calls)
    BY <2>1, <1>1, <1>2 DEF CallsInv, Top
  <2>2. CASE k \in 1..(Len(calls) - 1)
    BY <2>2, <1>1, <1>2 DEF CallsInv
  <2> QED BY <2>1, <2>2, <1>1
<1> QED BY <1>1, <1>2, <1>3 DEF Top

\* A return leaves the frame of the caller on top.
LEMMA ReturnPops ==
  ASSUME CallsInv, calls # <<>>, Return
  PROVE  /\ CallsInv' /\ Len(calls') = Len(calls) - 1
         /\ calls' # <<>> => Top'.proc # "merge" /\ Top'.step # "enter"
         /\ Top.proc # "main" => calls' # <<>>
         /\ Top.proc = "main" => calls' = <<>>
<1>1. Len(calls) \in Nat \ {0}
  BY DEF CallsInv
<1>2. /\ calls' \in Seq(FrameType) /\ Len(calls') = Len(calls) - 1
      /\ \A k \in 1..(Len(calls) - 1) : calls'[k] = calls[k]
  BY FrontDrops DEF CallsInv, Return
<1>3. CallsInv'
  BY <1>1, <1>2 DEF CallsInv
<1>4. calls' # <<>> => Top'.proc # "merge" /\ Top'.step # "enter"
  <2> SUFFICES ASSUME calls' # <<>>  PROVE Top'.proc # "merge" /\ Top'.step # "enter"
    OBVIOUS
  <2>1. Len(calls) - 1 \in 1..(Len(calls) - 1)
    BY <1>1, <1>2
  <2>2. Top' = calls[Len(calls) - 1]
    BY <1>2, <2>1 DEF Top
  <2> QED BY <2>1, <2>2, <1>1 DEF CallsInv
<1>5. Top.proc = "main" <=> Len(calls) = 1
  BY <1>1, Len(calls) \in 1..Len(calls) DEF CallsInv, Top
<1> QED BY <1>1, <1>2, <1>3, <1>4, <1>5

-----------------------------------------------------------------------------
(* The scopes *)

\* Every call past its start stands on a scope of its own, or on more.
ScopesInv ==
  /\ calls # <<>> => Scope >= 1 /\
       Scope >= IF Top.step = "enter" THEN Len(calls) - 1 ELSE Len(calls)
  /\ calls = <<>> => Scope = 0

\* What ListReachable says of the page tables, for a scope count.
PagesInv ==
  /\ table \in Seq([Names -> Entries])
  /\ Live \subseteq Pointers
  /\ ListReachable

IInv == CallsInv /\ ScopesInv /\ PagesInv

\* main has one scope, which knows its list.
LEMMA InitInv == Init => IInv
<1> SUFFICES ASSUME Init  PROVE IInv
  OBVIOUS
<1>1. PICK p \in Pointers :
        /\ struct = [q \in {p} |-> [start |-> 0, size |-> Words(N) + 1]]
        /\ table = <<[NoNames EXCEPT !["MyList"] = p]>>
  BY DEF Init
<1>2. /\ p # Absent /\ [NoNames EXCEPT !["MyList"] = p] \in [Names -> Entries]
      /\ [NoNames EXCEPT !["MyList"] = p]["MyList"] = p
      /\ [NoNames EXCEPT !["MyList"] = p]["tempList"] = Absent
  BY SortAssumption DEF NoNames, Names, Entries
<1>3. /\ table \in Seq([Names -> Entries]) /\ Len(table) = 1
      /\ table[1]["MyList"] = p /\ table[1]["tempList"] = Absent
  BY <1>1, <1>2
<1>4. Live = {p}
  BY <1>1 DEF Live
<1>5. /\ calls = <<Frame("main", 0, N - 1)>> /\ Len(calls) = 1
      /\ Frame("main", 0, N - 1) \in FrameType /\ Top = Frame("main", 0, N - 1)
      /\ Top.proc = "main" /\ Top.step = "enter"
  BY SortAssumption DEF Init, Frame, FrameType, Top
<1>6. CallsInv
  BY <1>5 DEF CallsInv, Top
<1>7. ScopesInv
  BY <1>3, <1>5 DEF ScopesInv, Scope
<1>8. PagesInv
  BY <1>3, <1>4, <1>5 DEF PagesInv, ListReachable, Merging, Scope
<1> QED BY <1>6, <1>7, <1>8 DEF IInv
\* A step that leaves the page tables alone, inside or outside of a merge.
LEMMA PagesKept ==
  ASSUME PagesInv, UNCHANGED <<table, struct>>, Merging' <=> Merging
  PROVE  PagesInv' /\ Scope' = Scope
BY DEF PagesInv, ListReachable, Scope, Entry, Live

\* What the page tables are while no merge is going on.
LEMMA PagesOutside ==
  ASSUME PagesInv, Scope >= 1, ~Merging
  PROVE  /\ table[1]["MyList"] \in Live /\ table[1]["MyList"] # Absent
         /\ \A s \in 1..Scope : /\ table[s]["MyList"] = table[1]["MyList"]
                                 /\ table[s]["tempList"] = Absent
<1>1. 1 \in 1..Scope
  BY DEF PagesInv, Scope
<1> QED BY <1>1, SortAssumption DEF PagesInv, ListReachable, Live

\* startScope and getList give the list its name in one scope more.
LEMMA WithScopeAdds ==
  ASSUME PagesInv, Scope >= 1, ~Merging
  PROVE  /\ WithScope \in Seq([Names -> Entries]) /\ Len(WithScope) = Scope + 1
         /\ \A s \in 1..(Scope + 1) :
              /\ WithScope[s]["MyList"] = table[1]["MyList"]
              /\ WithScope[s]["tempList"] = Absent
<1> DEFINE root == table[1]["MyList"]
           named == [NoNames EXCEPT !["MyList"] = root]
           below == [table EXCEPT ![Scope]["MyList"] = root]
<1>1. /\ root \in Live /\ root # Absent /\ root \in Entries
      /\ \A s \in 1..Scope : table[s]["MyList"] = root /\ table[s]["tempList"] = Absent
  BY PagesOutside DEF PagesInv, Entries
<1>2. /\ Scope \in Nat \ {0} /\ Scope = Len(table)
      /\ table \in Seq([Names -> Entries])
  BY DEF PagesInv, Scope
<1>3. /\ named \in [Names -> Entries]
      /\ named["MyList"] = root /\ named["tempList"] = Absent
  BY <1>1 DEF NoNames, Names, Entries
<1>4. WithScope = Append(below, named)
  <2>1. Entry("MyList") = root
    BY <1>1, <1>2 DEF Entry
  <2>2. (IF Entry("MyList") = Absent THEN Null ELSE Entry("MyList")) = root
    BY <2>1, <1>1
  <2> QED BY <2>2 DEF WithScope
<1>5. table[Scope] \in [Names -> Entries]
  BY <1>2
<1>6. /\ [table[Scope] EXCEPT !["MyList"] = root] \in [Names -> Entries]
      /\ [table[Scope] EXCEPT !["MyList"] = root]["MyList"] = root
      /\ [table[Scope] EXCEPT !["MyList"] = root]["tempList"] = table[Scope]["tempList"]
  BY <1>1, <1>5 DEF Names
<1>7. /\ below \in Seq([Names -> Entries]) /\ Len(below) = Scope
      /\ below[Scope] = [table[Scope] EXCEPT !["MyList"] = root]
      /\ \A s \in 1..(Scope - 1) : below[s] = table[s]
  BY <1>2, <1>6
<1> HIDE DEF named, below
<1>8. /\ WithScope \in Seq([Names -> Entries]) /\ Len(WithScope) = Scope + 1
      /\ WithScope[Scope + 1] = named
      /\ \A s \in 1..Scope : WithScope[s] = below[s]
  BY <1>2, <1>3, <1>4, <1>7
<1>9. ASSUME NEW s \in 1..(Scope + 1)
      PROVE  WithScope[s]["MyList"] = root /\ WithScope[s]["tempList"] = Absent
  <2>1. CASE s = Scope + 1
    BY <2>1, <1>3, <1>8
  <2>2. CASE s = Scope
    <3>1. WithScope[s] = [table[Scope] EXCEPT !["MyList"] = root]
      BY <2>2, <1>2, <1>7, <1>8
    <3>2. table[Scope]["tempList"] = Absent
      BY <1>1, <1>2
    <3> QED BY <3>1, <3>2, <1>6
  <2>3. CASE s \in 1..(Scope - 1)
    <3>1. s \in 1..Scope /\ WithScope[s] = table[s]
      BY <2>3, <1>2, <1>7, <1>8
    <3> QED BY <3>1, <1>1
  <2> QED BY <2>1, <2>2, <2>3, <1>2
<1> QED BY <1>8, <1>9

\* setList and endScope remove the last scope and free nothing in it.
LEMMA LeaveScopeRemoves ==
  ASSUME PagesInv, Scope >= 2, ~Merging',
         NEW freed, table[1]["MyList"] \notin freed,
         NEW pages \in Seq([Names -> Entries]), Len(pages) = Scope,
         \A s \in 1..Scope : /\ pages[s]["MyList"] = table[1]["MyList"]
                              /\ pages[s]["tempList"] = Absent,
         NEW words, LeaveScope(pages, words, freed)
  PROVE  PagesInv' /\ Scope' = Scope - 1
<1> DEFINE root == table[1]["MyList"]
           page == [pages[Len(pages)] EXCEPT !["MyList"] = Absent]
           owned == {page[name] : name \in Names} \ {Absent}
<1>1. Scope \in Nat /\ 1 \in 1..Scope /\ root \in Live
  BY DEF PagesInv, ListReachable, Scope
<1>2. pages[Len(pages)] \in [Names -> Entries] /\ pages[Len(pages)]["tempList"] = Absent
  BY <1>1
<1>3. owned = {}
  BY <1>2 DEF Names
<1>4. struct' = Without(freed \cup owned) /\ table' = Front(pages)
  BY DEF LeaveScope
<1>5. Live' = Live \ freed
  BY <1>3, <1>4 DEF Live, Without
<1>6. /\ table' \in Seq([Names -> Entries]) /\ Len(table') = Scope - 1
      /\ \A s \in 1..(Scope - 1) : table'[s] = pages[s]
  <2>1. pages # <<>>
    BY <1>1
  <2> QED BY <2>1, <1>4, FrontDrops
<1>7. \A s \in 1..(Scope - 1) :
        table'[s]["MyList"] = root /\ table'[s]["tempList"] = Absent
  BY <1>1, <1>6
<1>8. Scope' = Scope - 1 /\ 1 \in 1..(Scope - 1)
  BY <1>1, <1>6 DEF Scope
<1>9. Live' \subseteq Pointers /\ root \in Live'
  BY <1>1, <1>5 DEF PagesInv
<1>10. ListReachable'
  BY <1>7, <1>8, <1>9 DEF ListReachable
<1> QED BY <1>6, <1>8, <1>9, <1>10 DEF PagesInv

-----------------------------------------------------------------------------
(* The steps *)

\* The frame on top, and a new one.
LEMMA TopFrame ==
  ASSUME CallsInv, calls # <<>>
  PROVE  Len(calls) \in Nat \ {0} /\ Top \in FrameType
BY DEF CallsInv, Top

\* The frame of a call has the type of the stack.
LEMMA NewFrame ==
  ASSUME NEW proc \in {"mergesort", "merge"}, NEW lo \in Int, NEW hi \in Int
  PROVE  /\ Frame(proc, lo, hi) \in FrameType
         /\ Frame(proc, lo, hi).proc = proc /\ Frame(proc, lo, hi).step = "enter"
BY DEF Frame, FrameType

\* A call that only starts another one.
LEMMA CallKeeps ==
  ASSUME IInv, calls # <<>>, Top.proc # "merge",
         Top.step # "enter" \/ Len(calls) = 1,
         NEW step \in {"sorted", "right", "merge", "leave"},
         NEW proc \in {"mergesort", "merge"}, NEW lo \in Int, NEW hi \in Int,
         Call(step, Frame(proc, lo, hi)), UNCHANGED <<table, struct>>
  PROVE  IInv'
<1> DEFINE f == Frame(proc, lo, hi)
<1>1. f \in FrameType /\ f.proc = proc /\ f.step = "enter"
  BY NewFrame
<1> HIDE DEF f
<1>2. /\ CallsInv' /\ Len(calls') = Len(calls) + 1
      /\ calls' # <<>> /\ Top' = f
  BY <1>1, CallPushes DEF IInv, f
<1>3. ~Merging /\ ~Merging'
  BY <1>1, <1>2 DEF Merging
<1>4. PagesInv' /\ Scope' = Scope
  BY <1>3, PagesKept DEF IInv
<1>5. ScopesInv'
  <2>1. Len(calls) \in Nat /\ Scope \in Nat
    BY TopFrame DEF IInv, PagesInv, Scope
  <2>2. Scope >= 1 /\ Scope >= Len(calls)
    BY <2>1 DEF IInv, ScopesInv
  <2>3. Scope' >= 1 /\ Scope' >= Len(calls') - 1 /\ Top'.step = "enter"
    BY <1>1, <1>2, <1>4, <2>1, <2>2
  <2> QED BY <1>2, <2>3 DEF ScopesInv
<1> QED BY <1>2, <1>4, <1>5 DEF IInv

\* The base case returns with its scope open; the other case calls.
LEMMA SortEnterKeeps == IInv /\ SortEnter => IInv'
<1> SUFFICES ASSUME IInv, SortEnter  PROVE IInv'
  OBVIOUS
<1>1. /\ calls # <<>> /\ Top.proc = "mergesort" /\ Top.step = "enter"
      /\ table' = WithScope /\ UNCHANGED struct
  BY DEF SortEnter, At
<1>2. Len(calls) \in Nat \ {0} /\ Top \in FrameType
  BY <1>1, TopFrame DEF IInv
<1>3. ~Merging /\ Scope >= 1 /\ Scope \in Nat
  BY <1>1 DEF Merging, IInv, ScopesInv, PagesInv, Scope
<1>4. Len(calls) >= 2
  BY <1>1, <1>2 DEF IInv, CallsInv, Top
<1>5. /\ WithScope \in Seq([Names -> Entries]) /\ Len(WithScope) = Scope + 1
      /\ \A s \in 1..(Scope + 1) :
           /\ WithScope[s]["MyList"] = table[1]["MyList"]
           /\ WithScope[s]["tempList"] = Absent
  BY <1>3, WithScopeAdds DEF IInv
<1>6. Scope' = Scope + 1
  BY <1>1, <1>5 DEF Scope
<1>7. ASSUME ~Merging'  PROVE PagesInv'
  <2>1. table[1]["MyList"] \in Live' /\ Live' = Live
    BY <1>1, <1>3, PagesOutside DEF IInv, Live
  <2>2. table'[1]["MyList"] = table[1]["MyList"]
    BY <1>1, <1>3, <1>5
  <2>3. ListReachable'
    BY <1>1, <1>5, <1>6, <1>7, <2>1, <2>2 DEF ListReachable
  <2> QED BY <1>1, <1>5, <2>1, <2>3 DEF PagesInv, IInv
<1>8. CASE Top.lo >= Top.hi
  <2>1. Return
    BY <1>8 DEF SortEnter
  <2>2. /\ CallsInv' /\ Len(calls') = Len(calls) - 1
        /\ calls' # <<>> /\ Top'.proc # "merge" /\ Top'.step # "enter"
    BY <1>1, <2>1, ReturnPops DEF IInv
  <2>3. PagesInv'
    BY <1>7, <2>2 DEF Merging
  <2>4. ScopesInv'
    BY <1>1, <1>2, <1>3, <1>6, <2>2 DEF IInv, ScopesInv
  <2> QED BY <2>2, <2>3, <2>4 DEF IInv
<1>9. CASE ~(Top.lo >= Top.hi)
  <2> DEFINE f == [Top EXCEPT !.step = "left"]
  <2>1. /\ f \in FrameType /\ f.proc = Top.proc /\ f.step = "left"
    BY <1>2 DEF FrameType
  <2>2. calls' = [calls EXCEPT ![Len(calls)] = f]
    BY <1>9 DEF SortEnter, Goto, Top
  <2> HIDE DEF f
  <2>3. CallsInv' /\ Len(calls') = Len(calls) /\ calls' # <<>> /\ Top' = f
    BY <1>1, <2>1, <2>2, TopReplaced DEF IInv
  <2>4. PagesInv'
    BY <1>1, <1>7, <2>1, <2>3 DEF Merging
  <2>5. ScopesInv'
    BY <1>1, <1>2, <1>3, <1>6, <2>1, <2>3 DEF IInv, ScopesInv
  <2> QED BY <2>3, <2>4, <2>5 DEF IInv
<1> QED BY <1>8, <1>9

\* merge opens a scope and makes its temporary list there.
LEMMA MergeEntered ==
  ASSUME IInv, MergeEnter
  PROVE  /\ IInv' /\ Merging'
         /\ Top'.lo = Top.lo /\ Top'.hi = Top.hi
         /\ table'[1]["MyList"] = table[1]["MyList"]
         /\ \E p \in Pointers \ Live :
              CreateList(WithScope, "tempList", Length, p) /\ Entry("tempList")' = p
<1>1. calls # <<>> /\ Top.proc = "merge" /\ Top.step = "enter"
  BY DEF MergeEnter, At
<1>2. Len(calls) \in Nat \ {0} /\ Top \in FrameType
  BY <1>1, TopFrame DEF IInv
<1>3. ~Merging /\ Scope >= 1 /\ Scope \in Nat
  BY <1>1 DEF Merging, IInv, ScopesInv, PagesInv, Scope
<1> DEFINE f == [[Top EXCEPT !.step = "loop"] EXCEPT !.i = Top.lo, !.j = Mid + 1]
           root == table[1]["MyList"]
<1>4. f \in FrameType /\ f.proc = "merge" /\ f.step = "loop"
      /\ f.lo = Top.lo /\ f.hi = Top.hi
  <2> DEFINE entered == [Top EXCEPT !.step = "loop"]
  <2>1. /\ entered \in FrameType /\ entered.step = "loop" /\ entered.proc = "merge"
        /\ entered.lo = Top.lo /\ entered.hi = Top.hi
    BY <1>1, <1>2 DEF FrameType
  <2>2. Top.lo \in Int /\ Mid + 1 \in Int
    BY <1>2 DEF FrameType, Mid
  <2> HIDE DEF entered
  <2>3. f = [entered EXCEPT !.i = Top.lo, !.j = Mid + 1]
    BY DEF entered
  <2> HIDE DEF f
  <2> QED BY <2>1, <2>2, <2>3 DEF FrameType
<1>5. calls' = [calls EXCEPT ![Len(calls)] = f]
  BY DEF MergeEnter, Top
<1> HIDE DEF f
<1>6. CallsInv' /\ Len(calls') = Len(calls) /\ calls' # <<>> /\ Top' = f
  BY <1>1, <1>4, <1>5, TopReplaced DEF IInv
<1>7. PICK p \in Pointers \ Live : CreateList(WithScope, "tempList", Length, p)
  BY DEF MergeEnter
<1>8. /\ WithScope \in Seq([Names -> Entries]) /\ Len(WithScope) = Scope + 1
      /\ \A s \in 1..(Scope + 1) :
           WithScope[s]["MyList"] = root /\ WithScope[s]["tempList"] = Absent
  BY <1>3, WithScopeAdds DEF IInv
<1>9. Live' = Live \cup {p} /\ root \in Live /\ p # Absent /\ p \in Entries
  BY <1>3, <1>7, PagesOutside, SortAssumption DEF CreateList, Live, IInv, Entries
<1> DEFINE last == [WithScope[Scope + 1] EXCEPT !["tempList"] = p]
<1>10. /\ last \in [Names -> Entries]
       /\ last["MyList"] = root /\ last["tempList"] = p
  BY <1>3, <1>8, <1>9 DEF Names
<1>11. table' = [WithScope EXCEPT ![Scope + 1] = last]
  BY <1>7, <1>8 DEF CreateList
<1> HIDE DEF last
<1>12. /\ table' \in Seq([Names -> Entries]) /\ Len(table') = Scope + 1
       /\ table'[Scope + 1] = last
       /\ \A s \in 1..Scope : table'[s] = WithScope[s]
  BY <1>3, <1>8, <1>10, <1>11
<1>13. Merging' /\ Scope' = Scope + 1
  BY <1>4, <1>6, <1>12 DEF Merging, Scope
<1>14. ASSUME NEW s \in 1..(Scope + 1)
       PROVE  /\ table'[s]["MyList"] = root
              /\ table'[s]["tempList"] = IF s = Scope + 1 THEN p ELSE Absent
  <2>1. CASE s = Scope + 1
    BY <2>1, <1>10, <1>12
  <2>2. CASE s # Scope + 1
    <3>1. s \in 1..Scope
      BY <2>2, <1>3
    <3> QED BY <2>2, <3>1, <1>8, <1>12
  <2> QED BY <2>1, <2>2
<1>15. /\ 1 \in 1..(Scope + 1) /\ Scope + 1 \in 1..(Scope + 1)
       /\ p \in Live' /\ root \in Live' /\ p # root
  BY <1>3, <1>7, <1>9
<1>16. Entry("tempList")' = p /\ Entry("MyList")' = root /\ table'[1]["MyList"] = root
  BY <1>13, <1>14, <1>15 DEF Entry
<1>17. ListReachable'
  <2>1. ASSUME NEW s \in 1..Scope'
        PROVE  /\ table'[s]["MyList"] \in Live'
               /\ table'[s]["MyList"] = table'[1]["MyList"]
               /\ table'[s]["tempList"] # Absent <=> Merging' /\ s = Scope'
    BY <1>9, <1>13, <1>14, <1>15
  <2>2. Scope' > 1
    BY <1>3, <1>13
  <2> QED BY <2>1, <2>2, <1>15, <1>16 DEF ListReachable
<1>18. PagesInv'
  BY <1>7, <1>9, <1>12, <1>17 DEF PagesInv, IInv
<1>19. ScopesInv'
  BY <1>1, <1>2, <1>3, <1>4, <1>6, <1>13 DEF IInv, ScopesInv
<1>20. IInv'
  BY <1>6, <1>18, <1>19 DEF IInv
<1>21. Top'.lo = Top.lo /\ Top'.hi = Top.hi
  BY <1>4, <1>6
<1> QED BY <1>7, <1>13, <1>16, <1>20, <1>21

\* A step of merge that calls nobody keeps the stack and the scopes.
LEMMA MergeStays ==
  ASSUME IInv, calls # <<>>, Top.proc = "merge", Top.step = "loop",
         NEW f \in FrameType, f.proc = "merge", f.step \in {"loop", "leave"},
         calls' = [calls EXCEPT ![Len(calls)] = f], UNCHANGED <<table, struct>>
  PROVE  IInv'
<1>1. CallsInv' /\ Len(calls') = Len(calls) /\ calls' # <<>> /\ Top' = f
  BY TopReplaced DEF IInv
<1>2. Merging /\ Merging'
  BY <1>1 DEF Merging
<1>3. PagesInv' /\ Scope' = Scope
  BY <1>2, PagesKept DEF IInv
<1>4. ScopesInv'
  BY <1>1, <1>3 DEF IInv, ScopesInv
<1> QED BY <1>1, <1>3, <1>4 DEF IInv

\* One turn of the loop of merge keeps the invariant.
LEMMA MergeTurnKeeps == IInv /\ MergeTurn => IInv'
<1> SUFFICES ASSUME IInv, MergeTurn  PROVE IInv'
  OBVIOUS
<1>1. /\ calls # <<>> /\ Top.proc = "merge" /\ Top.step = "loop"
      /\ UNCHANGED <<table, struct>>
  BY DEF MergeTurn, At
<1>2. Top \in FrameType
  BY <1>1, TopFrame DEF IInv
<1> DEFINE fromRight == [Top EXCEPT !.j = Top.j + 1, !.k = Top.k + 1]
           fromLeft == [Top EXCEPT !.i = Top.i + 1, !.k = Top.k + 1]
           f == IF TakesRight THEN fromRight ELSE fromLeft
<1>0. Top.i + 1 \in Int /\ Top.j + 1 \in Int /\ Top.k + 1 \in Int
  BY <1>2 DEF FrameType
<1>3. /\ fromRight \in FrameType /\ fromRight.proc = "merge" /\ fromRight.step = "loop"
  BY <1>0, <1>1, <1>2 DEF FrameType
<1>4. /\ fromLeft \in FrameType /\ fromLeft.proc = "merge" /\ fromLeft.step = "loop"
  BY <1>0, <1>1, <1>2 DEF FrameType
<1>5. calls' = [calls EXCEPT ![Len(calls)] = f]
  <2>1. CASE TakesRight
    BY <2>1 DEF MergeTurn, Top
  <2>2. CASE ~TakesRight
    BY <2>2 DEF MergeTurn, Top
  <2> QED BY <2>1, <2>2
<1> HIDE DEF fromRight, fromLeft
<1>6. f \in FrameType /\ f.proc = "merge" /\ f.step = "loop"
  BY <1>3, <1>4
<1> HIDE DEF f
<1> QED BY <1>1, <1>5, <1>6, MergeStays

\* The copy back to the list keeps the invariant.
LEMMA MergeCopyBackKeeps == IInv /\ MergeCopyBack => IInv'
<1> SUFFICES ASSUME IInv, MergeCopyBack  PROVE IInv'
  OBVIOUS
<1>1. /\ calls # <<>> /\ Top.proc = "merge" /\ Top.step = "loop"
      /\ UNCHANGED <<table, struct>>
  BY DEF MergeCopyBack, At
<1>2. Top \in FrameType
  BY <1>1, TopFrame DEF IInv
<1> DEFINE f == [Top EXCEPT !.step = "leave"]
<1>3. f \in FrameType /\ f.proc = "merge" /\ f.step = "leave"
  BY <1>1, <1>2 DEF FrameType
<1>4. calls' = [calls EXCEPT ![Len(calls)] = f]
  BY DEF MergeCopyBack, Goto, Top
<1> HIDE DEF f
<1> QED BY <1>1, <1>3, <1>4, MergeStays

\* The end of a call that has opened a scope, and perhaps frees the temporary list.
LEMMA LeaveKeeps ==
  ASSUME IInv, calls # <<>>, Top.proc # "main", Top.step # "enter", Return,
         NEW freed, table[1]["MyList"] \notin freed,
         NEW pages \in Seq([Names -> Entries]), Len(pages) = Scope,
         \A s \in 1..Scope : /\ pages[s]["MyList"] = table[1]["MyList"]
                              /\ pages[s]["tempList"] = Absent,
         NEW words, LeaveScope(pages, words, freed)
  PROVE  IInv'
<1>1. Len(calls) \in Nat \ {0} /\ Len(calls) \in 1..Len(calls) /\ Scope \in Nat
  BY TopFrame DEF IInv, PagesInv, Scope
<1>2. Len(calls) >= 2
  BY <1>1 DEF IInv, CallsInv, Top
<1>3. Scope >= Len(calls)
  BY <1>1 DEF IInv, ScopesInv
<1>4. /\ CallsInv' /\ Len(calls') = Len(calls) - 1
      /\ calls' # <<>> /\ Top'.proc # "merge" /\ Top'.step # "enter"
  BY ReturnPops DEF IInv
<1>5. ~Merging'
  BY <1>4 DEF Merging
<1>6. PagesInv' /\ Scope' = Scope - 1
  BY <1>1, <1>2, <1>3, <1>5, LeaveScopeRemoves DEF IInv
<1>7. ScopesInv'
  BY <1>1, <1>2, <1>3, <1>4, <1>6 DEF ScopesInv
<1> QED BY <1>4, <1>6, <1>7 DEF IInv

\* The end of mergesort ends a scope, a leaf's perhaps: one is left for each call.
LEMMA SortLeaveKeeps == IInv /\ SortLeave => IInv'
<1> SUFFICES ASSUME IInv, SortLeave  PROVE IInv'
  OBVIOUS
<1>1. /\ calls # <<>> /\ Top.proc = "mergesort" /\ Top.step = "leave"
      /\ LeaveScope(table, mem, {}) /\ Return
  BY DEF SortLeave, At
<1>2. ~Merging /\ Scope >= 1 /\ table \in Seq([Names -> Entries]) /\ Len(table) = Scope
  BY <1>1 DEF Merging, IInv, ScopesInv, PagesInv, Scope
<1>3. \A s \in 1..Scope : /\ table[s]["MyList"] = table[1]["MyList"]
                           /\ table[s]["tempList"] = Absent
  BY <1>2, PagesOutside DEF IInv
<1> QED BY <1>1, <1>2, <1>3, LeaveKeeps

\* The end of merge forgets its temporary list with the scope.
LEMMA MergeLeaveKeeps == IInv /\ MergeLeave => IInv'
<1> SUFFICES ASSUME IInv, MergeLeave  PROVE IInv'
  OBVIOUS
<1> DEFINE p == Entry("tempList")
           page == [table[Scope] EXCEPT !["tempList"] = Absent]
           pages == Erased(table, "tempList")
<1>1. /\ calls # <<>> /\ Top.proc = "merge" /\ Top.step = "leave"
      /\ LeaveScope(pages, FreeIn(mem, p), {p}) /\ Return
  BY DEF MergeLeave, At
<1>2. /\ Merging /\ Scope > 1 /\ Scope \in Nat /\ Scope = Len(table)
      /\ table \in Seq([Names -> Entries])
  BY <1>1 DEF Merging, IInv, PagesInv, ListReachable, Scope
<1>3. \A s \in 1..Scope : table[s]["MyList"] = table[1]["MyList"]
  BY <1>2 DEF IInv, PagesInv, ListReachable
<1>10. \A s \in 1..Scope : s < Scope => table[s]["tempList"] = Absent
  BY <1>2 DEF IInv, PagesInv, ListReachable
<1>11. Scope \in 1..Scope
  BY <1>2
<1>4. p # table[1]["MyList"]
  BY <1>2, <1>3 DEF IInv, PagesInv, ListReachable, Entry
<1>5. table[Scope] \in [Names -> Entries]
  BY <1>2
<1>6. /\ page \in [Names -> Entries] /\ page["MyList"] = table[Scope]["MyList"]
      /\ page["tempList"] = Absent
  BY <1>5 DEF Names, Entries
<1>7. pages = [table EXCEPT ![Scope] = page]
  BY <1>2 DEF Erased
<1> HIDE DEF page, p, pages
<1>8. /\ pages \in Seq([Names -> Entries]) /\ Len(pages) = Scope
      /\ pages[Scope] = page
      /\ \A s \in 1..(Scope - 1) : pages[s] = table[s]
  BY <1>2, <1>6, <1>7
<1>9. ASSUME NEW s \in 1..Scope
      PROVE  /\ pages[s]["MyList"] = table[1]["MyList"]
             /\ pages[s]["tempList"] = Absent
  <2>1. CASE s = Scope
    <3>1. table[Scope]["MyList"] = table[1]["MyList"]
      BY <1>11, <1>3
    <3> QED BY <2>1, <3>1, <1>6, <1>8
  <2>2. CASE s # Scope
    <3>1. s \in 1..(Scope - 1) /\ s < Scope
      BY <2>2, <1>2
    <3>2. table[s]["MyList"] = table[1]["MyList"] /\ table[s]["tempList"] = Absent
      BY <3>1, <1>3, <1>10
    <3>3. pages[s] = table[s]
      BY <3>1, <1>8
    <3> QED BY <3>2, <3>3
  <2> QED BY <2>1, <2>2
<1> QED BY <1>1, <1>4, <1>8, <1>9, LeaveKeeps

\* The end of main forgets all scopes.
LEMMA MainFreeKeeps == IInv /\ MainFree => IInv'
<1> SUFFICES ASSUME IInv, MainFree  PROVE IInv'
  OBVIOUS
<1>1. /\ calls # <<>> /\ Top.proc = "main" /\ Return /\ table' = <<>>
      /\ Live' \subseteq Live
  BY DEF MainFree, At, Without, Live
<1>2. CallsInv' /\ calls' = <<>>
  BY <1>1, ReturnPops DEF IInv
<1>3. Scope' = 0 /\ ~Merging'
  BY <1>1, <1>2 DEF Scope, Merging
<1>4. ListReachable'
  BY <1>3 DEF ListReachable
<1>5. PagesInv'
  BY <1>1, <1>4 DEF PagesInv, IInv
<1> QED BY <1>2, <1>3, <1>5 DEF IInv, ScopesInv

\* Every step keeps the invariant.
LEMMA NextKeeps == IInv /\ [Next]_vars => IInv'
<1> SUFFICES ASSUME IInv, [Next]_vars  PROVE IInv'
  OBVIOUS
<1>1. CASE MainSort
  <2>1. /\ calls # <<>> /\ Top.proc = "main" /\ UNCHANGED <<table, struct>>
        /\ Call("sorted", Frame("mergesort", 0, N - 1))
    BY <1>1 DEF MainSort, At
  <2>2. Len(calls) = 1
    <3>1. Len(calls) \in 1..Len(calls)
      BY <2>1, TopFrame DEF IInv
    <3> QED BY <2>1, <3>1 DEF IInv, CallsInv, Top
  <2> QED BY <2>1, <2>2, CallKeeps, SortAssumption
<1>2. ASSUME SortLeft \/ SortRight \/ SortMerge  PROVE IInv'
  <2>1. calls # <<>> /\ Top.proc = "mergesort" /\ Top.step # "enter"
        /\ UNCHANGED <<table, struct>>
    BY <1>2 DEF SortLeft, SortRight, SortMerge, At
  <2>2. Top.lo \in Int /\ Top.hi \in Int /\ Mid \in Int /\ Mid + 1 \in Int
    <3>1. Top.lo \in Int /\ Top.hi \in Int
      BY <2>1, TopFrame DEF IInv, FrameType
    <3> QED BY <3>1 DEF Mid
  <2>3. CASE SortLeft
    BY <2>1, <2>2, <2>3, CallKeeps DEF SortLeft
  <2>4. CASE SortRight
    BY <2>1, <2>2, <2>4, CallKeeps DEF SortRight
  <2>5. CASE SortMerge
    BY <2>1, <2>2, <2>5, CallKeeps DEF SortMerge
  <2> QED BY <1>2, <2>3, <2>4, <2>5
<1>3. CASE UNCHANGED vars
  BY <1>3 DEF vars, IInv, CallsInv, ScopesInv, PagesInv, ListReachable, Merging,
              Scope, Entry, Live, Top
<1> QED BY <1>1, <1>2, <1>3, SortEnterKeeps, MergeEntered, MergeTurnKeeps,
           MergeCopyBackKeeps, SortLeaveKeeps, MergeLeaveKeeps, MainFreeKeeps DEF Next

\* The property of the run: the scopes that mergesort never ends do no harm, for any
\* list and any outcome of the comparisons.
THEOREM ReachableCorrect == Spec => []ListReachable
<1>1. IInv => ListReachable
  BY DEF IInv, PagesInv
<1> QED BY <1>1, InitInv, NextKeeps, PTL DEF Spec

-----------------------------------------------------------------------------
(* The memory *)

\* The walk over the headers is that of the allocator, whatever its threads are.
Heap == INSTANCE GoodMallocProofs
          WITH Threads <- {}, Size <- <<>>, pc <- <<>>, start <- <<>>, size <- <<>>,
               filled <- FALSE, lifo <- TRUE

\* No thread, no list.
LEMMA NoThread == Heap!ClientAssumption
<1>1. IsFiniteSet({})
  BY FS_EmptySet
<1>2. <<>> \in [{} -> 1..(M - 1)]
  OBVIOUS
<1>3. Heap!IsFiniteSet({})
  BY <1>1 DEF IsFiniteSet, Heap!IsFiniteSet
<1> QED
  BY <1>2, <1>3 DEF Heap!ClientAssumption

\* The headers are a set from which the walk never leads out, and where every member
\* but 0 is led to.
LEMMA HeadersMet ==
  ASSUME mem \in [Addresses -> Nat], NEW S \in SUBSET Nat, 0 \in S,
         \A i \in S : i < M => i + SizeOf(mem[i]) \in S /\ i + SizeOf(mem[i]) > i,
         \A i \in S : i = 0 \/ \E j \in S : j < i /\ j < M /\ j + SizeOf(mem[j]) = i
  PROVE  Chain = S
<1>1. Heap!Chain = Chain
  BY DEF Heap!Chain, Chain, Heap!SizeOf, SizeOf
<1>2. \A i : i < M => Heap!NextHeader(i) = i + SizeOf(mem[i])
  BY DEF Heap!NextHeader, Heap!SizeOf, SizeOf
<1>3. \A i \in S : i < M => Heap!NextHeader(i) \in S /\ Heap!NextHeader(i) > i
  BY <1>2
<1>4. \A i \in S : i = 0 \/ \E j \in S : j < i /\ Heap!NextHeader(j) = i
  BY <1>2
<1>5. Heap!Chain = S
  BY <1>3, <1>4, SizeAssumption, NoThread, Heap!ChainIs DEF Heap!Addresses, Addresses
<1> QED
  BY <1>1, <1>5

\* What a header says.
LEMMA HeaderSays ==
  \A n \in Nat : /\ 2 * n \in Nat /\ SizeOf(2 * n) = n /\ ~Used(2 * n)
                 /\ 2 * n + 1 \in Nat /\ SizeOf(2 * n + 1) = n /\ Used(2 * n + 1)
BY DEF SizeOf, Used

-----------------------------------------------------------------------------
(* The list lies at 0, the temporary list after it, and one free segment holds *)
(* the rest *)

Base == Words(N) + 1
Home == table[1]["MyList"]
Temp == Words(Length) + 1

\* The words past the end: 0, or a word of the C heap whose lowest bit is set.
NothingPastEnd == \A w \in PastEnd : Used(w) \/ SizeOf(w) = 0

\* A part of the list, and how far its merge is.
Fits(f) ==
  /\ f \in Frames /\ f.lo <= f.hi /\ f.hi < N
  /\ f.proc = "mergesort" /\ f.step # "enter" => f.lo < f.hi
  /\ f.proc = "merge" /\ f.step = "enter" => f.k = 0
  /\ f.proc = "merge" /\ f.step = "loop" =>
       LET mid == (f.lo + f.hi) \div 2
       IN /\ f.i \in f.lo..(mid + 1) /\ f.j \in (mid + 1)..(f.hi + 1)
          /\ f.k = (f.i - f.lo) + (f.j - mid - 1)

FramesInv == calls \in Seq(Frames) /\ \A k \in 1..Len(calls) : Fits(calls[k])

MemInv ==
  /\ mem \in [Addresses -> Nat] /\ mem[M] \in PastEnd
  /\ calls = <<>> => Live = {} /\ mem[0] = 2 * M
  /\ calls # <<>> => /\ Home \in Live /\ struct[Home] = [start |-> 0, size |-> Base]
                     /\ mem[0] = 2 * Base + 1
  /\ calls # <<>> /\ ~Merging => Live = {Home} /\ mem[Base] = 2 * (M - Base)
  /\ Merging => /\ Live = {Home, Entry("tempList")}
                /\ struct[Entry("tempList")] = [start |-> Base, size |-> Temp]
                /\ mem[Base] = 2 * Temp + 1
                /\ Base + Temp < M => mem[Base + Temp] = 2 * (M - (Base + Temp))

Sound == IInv /\ FramesInv /\ MemInv

\* A step leaves the words of the list as they are.
ListKept == \A a \in 0..(Base - 1) : mem'[a] = mem[a]

\* Sizes and addresses.
LEMMA Places ==
  /\ M \in Nat /\ N \in Nat /\ N # 0 /\ Base = 3 * N + 1 /\ Base \in Nat /\ Base # 0
  /\ 2 * Base <= M /\ Base < M
  /\ 0..(2 * M) \subseteq Addresses /\ 0 \in Addresses /\ Base \in Addresses /\ M \in Addresses
BY SizeAssumption, SortAssumption DEF Base, Words, Addresses

\* The part of the call that runs, and the temporary list of its length.
LEMMA PartOf ==
  ASSUME FramesInv, calls # <<>>
  PROVE  /\ Len(calls) \in Nat /\ Len(calls) \in 1..Len(calls)
         /\ Top \in Frames /\ Fits(Top)
         /\ Top.lo \in Nat /\ Top.hi \in Nat /\ Top.lo <= Top.hi /\ Top.hi < N
         /\ Mid \in Nat /\ Top.lo <= Mid /\ Mid <= Top.hi
         /\ Top.lo < Top.hi => Mid < Top.hi
         /\ Length \in Nat /\ Length # 0 /\ Length <= N
         /\ Temp = 3 * Length + 1 /\ Temp \in Nat /\ Base + Temp <= M
<1>1. Len(calls) \in Nat /\ Len(calls) \in 1..Len(calls)
  BY DEF FramesInv
<1>2. Top \in Frames /\ Fits(Top)
  BY <1>1 DEF FramesInv, Top
<1>3. Top.lo \in Nat /\ Top.hi \in Nat /\ Top.lo <= Top.hi /\ Top.hi < N
  BY <1>2, Places DEF Frames, Fits
<1>4. Mid \in Nat /\ Top.lo <= Mid /\ Mid <= Top.hi /\ (Top.lo < Top.hi => Mid < Top.hi)
  BY <1>3 DEF Mid
<1>5. Length \in Nat /\ Length # 0 /\ Length <= N
  BY <1>3, Places DEF Length
<1>6. Temp = 3 * Length + 1 /\ Temp \in Nat /\ Temp <= Base
  BY <1>5, Places DEF Temp, Words
<1> QED
  BY <1>1, <1>2, <1>3, <1>4, <1>5, <1>6, Places

\* The headers after the end, before a merge and during one.
LEMMA HeadersOutside ==
  ASSUME MemInv, calls # <<>>, ~Merging
  PROVE  /\ Chain = {0, Base, M}
         /\ Used(mem[0]) /\ SizeOf(mem[0]) = Base
         /\ ~Used(mem[Base]) /\ SizeOf(mem[Base]) = M - Base
<1>1. M - Base \in Nat
  BY Places
<1>2. /\ Used(mem[0]) /\ SizeOf(mem[0]) = Base
      /\ ~Used(mem[Base]) /\ SizeOf(mem[Base]) = M - Base
  BY <1>1, Places, HeaderSays DEF MemInv
<1> DEFINE S == {0, Base, M}
<1>3. S \in SUBSET Nat /\ 0 \in S
  BY Places
<1>4. \A i \in S : i < M => i + SizeOf(mem[i]) \in S /\ i + SizeOf(mem[i]) > i
  BY <1>2, Places
<1>5. \A i \in S : i = 0 \/ \E j \in S : j < i /\ j < M /\ j + SizeOf(mem[j]) = i
  BY <1>2, Places
<1> HIDE DEF S
<1>6. Chain = S
  BY <1>3, <1>4, <1>5, HeadersMet DEF MemInv
<1> QED
  BY <1>2, <1>6 DEF S

LEMMA HeadersInside ==
  ASSUME MemInv, FramesInv, calls # <<>>, Merging
  PROVE  /\ Chain = {0, Base, Base + Temp, M}
         /\ Used(mem[0]) /\ SizeOf(mem[0]) = Base
         /\ Used(mem[Base]) /\ SizeOf(mem[Base]) = Temp
         /\ Base + Temp < M => /\ ~Used(mem[Base + Temp])
                               /\ SizeOf(mem[Base + Temp]) = M - (Base + Temp)
<1>1. Temp \in Nat /\ Temp # 0 /\ Base + Temp <= M /\ Base + Temp \in Nat
  BY PartOf, Places
<1>2. /\ Used(mem[0]) /\ SizeOf(mem[0]) = Base
      /\ Used(mem[Base]) /\ SizeOf(mem[Base]) = Temp
  BY <1>1, Places, HeaderSays DEF MemInv
<1>3. Base + Temp < M => ~Used(mem[Base + Temp])
                         /\ SizeOf(mem[Base + Temp]) = M - (Base + Temp)
  <2>1. Base + Temp < M => M - (Base + Temp) \in Nat
    BY <1>1, Places
  <2> QED
    BY <2>1, HeaderSays DEF MemInv
<1> DEFINE S == {0, Base, Base + Temp, M}
<1>4. S \in SUBSET Nat /\ 0 \in S
  BY <1>1, Places
<1>5. \A i \in S : i < M => i + SizeOf(mem[i]) \in S /\ i + SizeOf(mem[i]) > i
  BY <1>1, <1>2, <1>3, Places
<1>6. \A i \in S : i = 0 \/ \E j \in S : j < i /\ j < M /\ j + SizeOf(mem[j]) = i
  BY <1>1, <1>2, <1>3, Places
<1> HIDE DEF S
<1>7. Chain = S
  BY <1>4, <1>5, <1>6, HeadersMet DEF MemInv
<1> QED
  BY <1>2, <1>3, <1>7 DEF S

LEMMA HeadersAfter ==
  ASSUME MemInv, calls = <<>>
  PROVE  Chain = {0, M} /\ ~Used(mem[0]) /\ SizeOf(mem[0]) = M
<1>1. ~Used(mem[0]) /\ SizeOf(mem[0]) = M
  BY Places, HeaderSays DEF MemInv
<1> DEFINE S == {0, M}
<1>2. S \in SUBSET Nat /\ 0 \in S
  BY Places
<1>3. \A i \in S : i < M => i + SizeOf(mem[i]) \in S /\ i + SizeOf(mem[i]) > i
  BY <1>1, Places
<1>4. \A i \in S : i = 0 \/ \E j \in S : j < i /\ j < M /\ j + SizeOf(mem[j]) = i
  BY <1>1, Places
<1> HIDE DEF S
<1>5. Chain = S
  BY <1>2, <1>3, <1>4, HeadersMet DEF MemInv
<1> QED
  BY <1>1, <1>5 DEF S

\* The temporary list is made right after the list.
LEMMA FitIsBase ==
  ASSUME MemInv, calls # <<>>, ~Merging, NEW n \in Nat, n # 0, n <= Base
  PROVE  FirstFit(n) = Base
<1>1. /\ Chain = {0, Base, M}
      /\ Used(mem[0]) /\ ~Used(mem[Base]) /\ SizeOf(mem[Base]) = M - Base
  BY HeadersOutside
<1>2. Searching(0, n) /\ ~Searching(Base, n) /\ ~Searching(M, n)
  BY <1>1, Places DEF Searching
<1> DEFINE S == {0, Base, M}
           F == {Base, M}
<1>3. Max(Chain) = M
  <2>1. M \in S /\ \A k \in S : (\A x \in S : k >= x) => k = M
    BY Places
  <2>2. \A x \in S : M >= x
    BY Places
  <2> HIDE DEF S
  <2>3. Max(S) = M
    BY <2>1, <2>2 DEF Max
  <2> QED
    BY <1>1, <2>3 DEF S
<1>4. {i \in Chain : ~Searching(i, n)} \cup {Max(Chain)} = F
  BY <1>1, <1>2, <1>3
<1>5. Min(F) = Base
  <2>1. Base \in F /\ \A k \in F : (\A x \in F : k <= x) => k = Base
    BY Places
  <2>2. \A x \in F : Base <= x
    BY Places
  <2> HIDE DEF F
  <2> QED
    BY <2>1, <2>2 DEF Min
<1> QED
  BY <1>4, <1>5 DEF FirstFit

-----------------------------------------------------------------------------
(* The parts of the calls *)

\* A call on top of the others.
LEMMA FramesCall ==
  ASSUME FramesInv, calls # <<>>, NEW step, NEW f, Fits([Top EXCEPT !.step = step]), Fits(f),
         Call(step, f)
  PROVE  FramesInv'
<1> DEFINE top == [Top EXCEPT !.step = step]
           below == [calls EXCEPT ![Len(calls)] = top]
<1>1. Len(calls) \in Nat \ {0} /\ top \in Frames /\ f \in Frames
  BY PartOf DEF Fits, FramesInv
<1>2. /\ below \in Seq(Frames) /\ Len(below) = Len(calls) /\ below[Len(calls)] = top
      /\ \A k \in 1..(Len(calls) - 1) : below[k] = calls[k]
  BY <1>1 DEF FramesInv
<1>3. calls' = Append(below, f)
  BY DEF Call, Top
<1> HIDE DEF below
<1>4. /\ calls' \in Seq(Frames) /\ Len(calls') = Len(calls) + 1
      /\ calls'[Len(calls) + 1] = f /\ calls'[Len(calls)] = top
      /\ \A k \in 1..(Len(calls) - 1) : calls'[k] = calls[k]
  BY <1>1, <1>2, <1>3
<1>5. Fits(top) /\ Fits(f)
  OBVIOUS
<1> HIDE DEF top
<1>6. ASSUME NEW k \in 1..(Len(calls) + 1)
      PROVE  Fits(calls'[k])
  <2>1. k = Len(calls) + 1 \/ k = Len(calls) \/ k \in 1..(Len(calls) - 1)
    BY <1>1
  <2>2. \A j \in 1..(Len(calls) - 1) : Fits(calls[j])
    BY <1>1 DEF FramesInv
  <2> QED
    BY <1>4, <1>5, <2>1, <2>2
<1> QED
  BY <1>4, <1>6 DEF FramesInv

\* A step inside the call on top.
LEMMA FramesTop ==
  ASSUME FramesInv, calls # <<>>, NEW f, Fits(f), calls' = [calls EXCEPT ![Len(calls)] = f]
  PROVE  FramesInv'
<1>1. Len(calls) \in Nat \ {0} /\ f \in Frames
  BY PartOf DEF Fits, FramesInv
<1>2. /\ calls' \in Seq(Frames) /\ Len(calls') = Len(calls) /\ calls'[Len(calls)] = f
      /\ \A k \in 1..(Len(calls) - 1) : calls'[k] = calls[k]
  BY <1>1 DEF FramesInv
<1>3. ASSUME NEW k \in 1..Len(calls)
      PROVE  Fits(calls'[k])
  <2>1. k = Len(calls) \/ k \in 1..(Len(calls) - 1)
    BY <1>1
  <2>2. \A j \in 1..(Len(calls) - 1) : Fits(calls[j])
    BY <1>1 DEF FramesInv
  <2> QED
    BY <1>2, <2>1, <2>2
<1> QED
  BY <1>2, <1>3 DEF FramesInv

\* A return.
LEMMA FramesReturn ==
  ASSUME FramesInv, calls # <<>>, Return
  PROVE  FramesInv'
<1>1. Len(calls) \in Nat \ {0}
  BY PartOf
<1>2. /\ calls' \in Seq(Frames) /\ Len(calls') = Len(calls) - 1
      /\ \A k \in 1..(Len(calls) - 1) : calls'[k] = calls[k]
  BY FrontDrops DEF FramesInv, Return
<1> QED
  BY <1>1, <1>2 DEF FramesInv

\* A new call of a part that is not empty.
LEMMA NewPart ==
  ASSUME NEW proc \in {"main", "mergesort", "merge"}, NEW lo \in Nat, NEW hi \in Nat,
         lo <= hi, hi < N
  PROVE  Fits(Frame(proc, lo, hi))
<1>1. lo \in 0..N /\ hi \in 0..N /\ 0 \in 0..N
  BY Places
<1> QED
  BY <1>1 DEF Fits, Frame, Frames

\* A call at another of its steps, outside the loop of merge.
LEMMA StepFits ==
  ASSUME NEW f, Fits(f),
         NEW step \in {"sorted", "left", "right", "merge", "leave"},
         f.proc = "mergesort" => f.lo < f.hi
  PROVE  Fits([f EXCEPT !.step = step])
<1> DEFINE g == [f EXCEPT !.step = step]
<1>1. f \in Frames
  BY DEF Fits
<1>2. /\ g \in Frames /\ g.lo = f.lo /\ g.hi = f.hi /\ g.proc = f.proc /\ g.step = step
  BY <1>1 DEF Frames
<1> HIDE DEF g
<1>3. Fits(g)
  BY <1>2 DEF Fits
<1> QED
  BY <1>3 DEF g

\* Every call keeps to its part.
LEMMA FramesStep ==
  ASSUME FramesInv, Next
  PROVE  FramesInv'
<1>1. CASE MainSort
  <2>1. calls # <<>> /\ Top.proc = "main" /\ Call("sorted", Frame("mergesort", 0, N - 1))
    BY <1>1 DEF MainSort, At
  <2>2. Fits([Top EXCEPT !.step = "sorted"])
    BY <2>1, PartOf, StepFits
  <2>3. Fits(Frame("mergesort", 0, N - 1))
    <3>1. 0 \in Nat /\ N - 1 \in Nat /\ 0 <= N - 1 /\ N - 1 < N
      BY Places
    <3> QED
      BY <3>1, NewPart
  <2> QED
    BY <2>1, <2>2, <2>3, FramesCall
<1>2. CASE MainFree
  BY <1>2, FramesReturn DEF MainFree, At
<1>3. CASE SortEnter
  <2>1. calls # <<>> /\ Top.proc = "mergesort"
        /\ IF Top.lo >= Top.hi THEN Return ELSE Goto("left")
    BY <1>3 DEF SortEnter, At
  <2>2. CASE Return
    BY <2>1, <2>2, FramesReturn
  <2>3. CASE ~(Top.lo >= Top.hi) /\ Goto("left")
    <3>1. Fits([Top EXCEPT !.step = "left"])
      <4>1. Top.lo < Top.hi /\ Fits(Top)
        BY <2>1, <2>3, PartOf
      <4> QED
        BY <4>1, StepFits
    <3>2. calls' = [calls EXCEPT ![Len(calls)] = [Top EXCEPT !.step = "left"]]
      BY <2>3 DEF Goto, Top
    <3> QED
      BY <2>1, <3>1, <3>2, FramesTop
  <2> QED
    BY <2>1, <2>2, <2>3
<1>4. ASSUME SortLeft \/ SortRight \/ SortMerge
      PROVE  FramesInv'
  <2>1. calls # <<>> /\ Top.proc = "mergesort" /\ Top.step # "enter"
    BY <1>4 DEF SortLeft, SortRight, SortMerge, At
  <2>2. Fits(Top) /\ Top.lo < Top.hi
    BY <2>1, PartOf DEF Fits
  <2>3. /\ Fits([Top EXCEPT !.step = "right"]) /\ Fits([Top EXCEPT !.step = "merge"])
        /\ Fits([Top EXCEPT !.step = "leave"])
    BY <2>2, StepFits
  <2>4. /\ Top.lo \in Nat /\ Top.hi \in Nat /\ Mid \in Nat /\ Mid + 1 \in Nat
        /\ Top.lo <= Mid /\ Mid < N /\ Mid + 1 <= Top.hi /\ Top.hi < N
    BY <2>1, <2>2, PartOf, Places
  <2>5. CASE SortLeft
    <3>1. Fits(Frame("mergesort", Top.lo, Mid))
      BY <2>4, NewPart
    <3> QED
      BY <2>1, <2>3, <2>5, <3>1, FramesCall DEF SortLeft
  <2>6. CASE SortRight
    <3>1. Fits(Frame("mergesort", Mid + 1, Top.hi))
      BY <2>4, NewPart
    <3> QED
      BY <2>1, <2>3, <2>6, <3>1, FramesCall DEF SortRight
  <2>7. CASE SortMerge
    <3>1. Fits(Frame("merge", Top.lo, Top.hi))
      BY <2>2, <2>4, NewPart
    <3> QED
      BY <2>1, <2>3, <2>7, <3>1, FramesCall DEF SortMerge
  <2> QED
    BY <1>4, <2>5, <2>6, <2>7
<1>5. CASE SortLeave
  BY <1>5, FramesReturn DEF SortLeave, At
<1>6. CASE MergeEnter
  <2> DEFINE entered == [Top EXCEPT !.step = "loop"]
             f == [entered EXCEPT !.i = Top.lo, !.j = Mid + 1]
  <2>1. /\ calls # <<>> /\ Top.proc = "merge" /\ Top.step = "enter"
        /\ calls' = [calls EXCEPT ![Len(calls)] = f]
    BY <1>6 DEF MergeEnter, At, Top
  <2>2. /\ Top \in Frames /\ Fits(Top) /\ Top.lo \in Nat /\ Top.hi \in Nat /\ Mid \in Nat
        /\ Top.lo <= Mid /\ Mid <= Top.hi /\ Top.hi < N
    BY <2>1, PartOf
  <2>3. Top.lo \in 0..N /\ Mid + 1 \in 0..N
    BY <2>2, Places
  <2>4. entered \in Frames /\ entered.lo = Top.lo /\ entered.hi = Top.hi
        /\ entered.proc = Top.proc /\ entered.step = "loop" /\ entered.k = Top.k
    BY <2>2 DEF Frames
  <2> HIDE DEF entered
  <2>5. /\ f \in Frames /\ f.lo = Top.lo /\ f.hi = Top.hi /\ f.proc = "merge" /\ f.step = "loop"
        /\ f.k = Top.k /\ f.i = Top.lo /\ f.j = Mid + 1
    BY <2>1, <2>3, <2>4 DEF Frames
  <2>6. f.k = 0
    BY <2>1, <2>2, <2>5 DEF Fits
  <2> HIDE DEF f
  <2>7. /\ f.i \in f.lo..(Mid + 1) /\ f.j \in (Mid + 1)..(f.hi + 1)
        /\ f.k = (f.i - f.lo) + (f.j - Mid - 1)
    BY <2>2, <2>5, <2>6
  <2>8. Fits(f)
    BY <2>2, <2>5, <2>7 DEF Fits, Mid
  <2> QED
    BY <2>1, <2>8, FramesTop
<1>7. CASE MergeTurn
  <2> DEFINE fromRight == [Top EXCEPT !.j = Top.j + 1, !.k = Top.k + 1]
             fromLeft == [Top EXCEPT !.i = Top.i + 1, !.k = Top.k + 1]
  <2>1. /\ calls # <<>> /\ Top.proc = "merge" /\ Top.step = "loop" /\ Top.k < Length
        /\ calls' = [calls EXCEPT ![Len(calls)] = IF TakesRight THEN fromRight ELSE fromLeft]
    BY <1>7 DEF MergeTurn, At
  <2>2. /\ Top \in Frames /\ Fits(Top) /\ Top.lo \in Nat /\ Top.hi \in Nat /\ Mid \in Nat
        /\ Top.lo <= Mid /\ Mid <= Top.hi /\ Top.hi < N /\ Length = Top.hi - Top.lo + 1
    BY <2>1, PartOf DEF Length
  <2>3. /\ Top.i \in Top.lo..(Mid + 1) /\ Top.j \in (Mid + 1)..(Top.hi + 1)
        /\ Top.k = (Top.i - Top.lo) + (Top.j - Mid - 1)
    BY <2>1, <2>2 DEF Fits, Mid
  <2>4. Top.i \in Nat /\ Top.j \in Nat /\ Top.k \in Nat
    BY <2>2, <2>3
  <2>5. Top.k < Top.hi - Top.lo + 1
    BY <2>1, <2>2
  <2>6. Top.k + 1 \in 0..N
    BY <2>2, <2>4, <2>5, Places
  <2>7. CASE TakesRight
    <3>1. Top.j <= Top.hi
      BY <2>1, <2>2, <2>3, <2>7 DEF TakesRight
    <3>2. Top.j + 1 \in 0..N /\ Top.k + 1 \in 0..N
      <4>1. Top.j + 1 \in 0..N
        BY <2>2, <2>4, <3>1, Places
      <4> QED
        BY <2>6, <4>1
    <3>3. /\ fromRight \in Frames /\ fromRight.lo = Top.lo /\ fromRight.hi = Top.hi
          /\ fromRight.proc = "merge" /\ fromRight.step = "loop"
          /\ fromRight.i = Top.i /\ fromRight.j = Top.j + 1 /\ fromRight.k = Top.k + 1
      BY <2>1, <2>2, <3>2 DEF Frames
    <3> HIDE DEF fromRight
    <3>4. /\ fromRight.i \in fromRight.lo..(Mid + 1)
          /\ fromRight.j \in (Mid + 1)..(fromRight.hi + 1)
          /\ fromRight.k = (fromRight.i - fromRight.lo) + (fromRight.j - Mid - 1)
      BY <2>2, <2>3, <3>1, <3>3
    <3>5. Fits(fromRight)
      BY <2>2, <3>3, <3>4 DEF Fits, Mid
    <3> QED
      BY <2>1, <2>7, <3>5, FramesTop
  <2>8. CASE ~TakesRight
    <3>1. Top.i <= Mid
      BY <2>2, <2>3, <2>8 DEF TakesRight
    <3>2. Top.i + 1 \in 0..N /\ Top.k + 1 \in 0..N
      <4>1. Top.i + 1 \in 0..N
        BY <2>2, <2>4, <3>1, Places
      <4> QED
        BY <2>6, <4>1
    <3>3. /\ fromLeft \in Frames /\ fromLeft.lo = Top.lo /\ fromLeft.hi = Top.hi
          /\ fromLeft.proc = "merge" /\ fromLeft.step = "loop"
          /\ fromLeft.i = Top.i + 1 /\ fromLeft.j = Top.j /\ fromLeft.k = Top.k + 1
      BY <2>1, <2>2, <3>2 DEF Frames
    <3> HIDE DEF fromLeft
    <3>4. /\ fromLeft.i \in fromLeft.lo..(Mid + 1)
          /\ fromLeft.j \in (Mid + 1)..(fromLeft.hi + 1)
          /\ fromLeft.k = (fromLeft.i - fromLeft.lo) + (fromLeft.j - Mid - 1)
      BY <2>2, <2>3, <3>1, <3>3
    <3>5. Fits(fromLeft)
      BY <2>2, <3>3, <3>4 DEF Fits, Mid
    <3> QED
      BY <2>1, <2>8, <3>5, FramesTop
  <2> QED
    BY <2>7, <2>8
<1>8. CASE MergeCopyBack
  <2>1. calls # <<>> /\ Top.proc = "merge"
        /\ calls' = [calls EXCEPT ![Len(calls)] = [Top EXCEPT !.step = "leave"]]
    BY <1>8 DEF MergeCopyBack, At, Goto, Top
  <2>2. Fits([Top EXCEPT !.step = "leave"])
    BY <2>1, PartOf, StepFits
  <2> QED
    BY <2>1, <2>2, FramesTop
<1>9. CASE MergeLeave
  BY <1>9, FramesReturn DEF MergeLeave, At
<1> QED
  BY <1>1, <1>2, <1>3, <1>4, <1>5, <1>6, <1>7, <1>8, <1>9 DEF Next

-----------------------------------------------------------------------------
(* The steps on the memory *)

\* What a change of one word does.
LEMMA OneWord ==
  ASSUME mem \in [Addresses -> Nat], NEW a \in Addresses, NEW v \in Nat,
         mem' = [mem EXCEPT ![a] = v]
  PROVE  /\ mem' \in [Addresses -> Nat] /\ mem'[a] = v
         /\ \A b \in Addresses : b # a => mem'[b] = mem[b]
OBVIOUS

\* Between merges a step leaves the list where it is.
LEMMA MemOutside ==
  ASSUME MemInv, IInv', calls # <<>>, ~Merging, calls' # <<>>, ~Merging',
         mem' = mem, Live' = Live, \A q \in Live : struct'[q] = struct[q]
  PROVE  MemInv'
<1>1. Live = {Home} /\ Home \in Live
  BY DEF MemInv
<1>2. Home' \in Live'
  BY DEF IInv, ScopesInv, PagesInv, ListReachable, Home, Scope
<1>3. Home' = Home /\ struct'[Home] = struct[Home]
  BY <1>1, <1>2
<1> QED
  BY <1>1, <1>3 DEF MemInv

\* During a merge a step leaves the headers as they are.
LEMMA MemInside ==
  ASSUME MemInv, FramesInv, calls # <<>>, Merging, Merging',
         Top'.lo = Top.lo, Top'.hi = Top.hi, table' = table, struct' = struct,
         mem' \in [Addresses -> Nat],
         \A a \in {0, Base, Base + Temp, M} : mem'[a] = mem[a]
  PROVE  MemInv'
<1>1. Temp' = Temp /\ Length' = Length
  BY DEF Temp, Length
<1>2. Home' = Home /\ Entry("tempList")' = Entry("tempList") /\ Live' = Live
  BY DEF Home, Entry, Scope, Live
<1>3. calls' # <<>>
  BY DEF Merging
<1> QED
  BY <1>1, <1>2, <1>3 DEF MemInv

\* A scope whose page table has only the list is left without freeing anything.
LEMMA LeavesWords ==
  ASSUME NEW pages \in Seq([Names -> Entries]), pages # <<>>,
         pages[Len(pages)]["tempList"] = Absent,
         NEW words, NEW freed, LeaveScope(pages, words, freed)
  PROVE  mem' = words /\ struct' = Without(freed)
<1> DEFINE page == [pages[Len(pages)] EXCEPT !["MyList"] = Absent]
           owned == {page[name] : name \in Names} \ {Absent}
<1>1. pages[Len(pages)] \in [Names -> Entries]
  OBVIOUS
<1>2. page["MyList"] = Absent /\ page["tempList"] = Absent
  BY <1>1 DEF Names
<1>3. owned = {}
  BY <1>2 DEF Names
<1>4. mem' = FreeNamed(FreeNamed(words, page["MyList"]), page["tempList"])
      /\ struct' = Without(freed \cup owned)
  BY DEF LeaveScope
<1> HIDE DEF page, owned
<1>5. freed \cup owned = freed
  BY <1>3
<1> QED
  BY <1>2, <1>4, <1>5 DEF FreeNamed

\* mergesort leaves a scope.
LEMMA SortLeaveMem ==
  ASSUME IInv, MemInv, IInv', calls' # <<>>, ~Merging', SortLeave
  PROVE  MemInv' /\ ListKept
<1>1. calls # <<>> /\ Top.proc = "mergesort" /\ LeaveScope(table, mem, {})
  BY DEF SortLeave, At
<1>2. ~Merging /\ Scope >= 1 /\ table \in Seq([Names -> Entries]) /\ Scope = Len(table)
  BY <1>1 DEF Merging, IInv, ScopesInv, PagesInv, Scope
<1>3. table # <<>> /\ Scope \in 1..Scope
  BY <1>2
<1>4. table[Len(table)]["tempList"] = Absent
  BY <1>2, <1>3, PagesOutside DEF IInv
<1>5. mem' = mem /\ struct' = Without({})
  BY <1>1, <1>2, <1>3, <1>4, LeavesWords
<1>6. Live' = Live /\ \A q \in Live : struct'[q] = struct[q]
  BY <1>5 DEF Without, Live
<1> QED
  BY <1>1, <1>2, <1>5, <1>6, MemOutside DEF ListKept

\* merge makes its temporary list at Base.
LEMMA MergeEnterMem ==
  ASSUME IInv, FramesInv, MemInv, MergeEnter
  PROVE  MemInv' /\ ListKept
<1>1. calls # <<>> /\ Top.proc = "merge" /\ Top.step = "enter"
  BY DEF MergeEnter, At
<1>2. ~Merging
  BY <1>1 DEF Merging
<1>3. PICK p \in Pointers \ Live :
        CreateList(WithScope, "tempList", Length, p) /\ Entry("tempList")' = p
  BY MergeEntered
<1>4. /\ Merging' /\ Top'.lo = Top.lo /\ Top'.hi = Top.hi /\ Home' = Home
  BY MergeEntered DEF Home
<1>5. Temp \in Nat /\ Temp # 0 /\ Base + Temp <= M /\ Temp <= Base
  BY <1>1, PartOf, Places
<1>6. FirstFit(Temp) = Base
  BY <1>1, <1>2, <1>5, FitIsBase
<1>7. mem' = Split(Base, Temp)
      /\ struct' = [q \in Live \cup {p} |->
                      IF q = p THEN [start |-> Base, size |-> Temp] ELSE struct[q]]
  BY <1>3, <1>6 DEF CreateList, Temp
<1>8. Live = {Home} /\ Home # p /\ SizeOf(mem[Base]) = M - Base
  BY <1>1, <1>2, <1>3, HeadersOutside DEF MemInv
<1>9. Live' = {Home, p} /\ struct'[Home] = struct[Home]
      /\ struct'[p] = [start |-> Base, size |-> Temp]
  BY <1>7, <1>8 DEF Live
<1> DEFINE rest == IF Base + Temp < M THEN 2 * (M - Base - Temp) ELSE mem[Base + Temp]
<1>10. /\ Base \in Addresses /\ Base + Temp \in Addresses /\ Base # Base + Temp
       /\ M # Base /\ 0 # Base /\ 0 # Base + Temp /\ 0 \in Addresses /\ M \in Addresses
  BY <1>5, Places
<1>11. mem' = [mem EXCEPT ![Base] = 2 * Temp + 1, ![Base + Temp] = rest]
  BY <1>7, <1>8, <1>10 DEF Split, MemInv
<1>12. rest \in Nat /\ 2 * Temp + 1 \in Nat /\ mem \in [Addresses -> Nat]
  BY <1>5, <1>10, Places DEF MemInv
<1>13. /\ Base + Temp < M => rest = 2 * (M - (Base + Temp))
       /\ Base + Temp = M => rest = mem[M]
  BY <1>5, Places
<1> HIDE DEF rest
<1>14. /\ mem' \in [Addresses -> Nat] /\ mem'[Base] = 2 * Temp + 1 /\ mem'[Base + Temp] = rest
       /\ \A a \in Addresses : a # Base /\ a # Base + Temp => mem'[a] = mem[a]
  BY <1>10, <1>11, <1>12
<1>15. mem'[0] = mem[0]
  BY <1>10, <1>14
<1>16. mem'[M] = mem[M]
  <2>1. CASE Base + Temp = M
    BY <1>13, <1>14, <2>1
  <2>2. CASE Base + Temp # M
    BY <1>10, <1>14, <2>2
  <2> QED
    BY <2>1, <2>2
<1>17. Temp' = Temp
  BY <1>4 DEF Temp, Length
<1>18. calls' # <<>>
  BY <1>4 DEF Merging
<1>19. struct'[Home] = [start |-> 0, size |-> Base] /\ mem[0] = 2 * Base + 1 /\ mem[M] \in PastEnd
  BY <1>1, <1>9 DEF MemInv
<1>20. ListKept
  <2>1. \A a \in 0..(Base - 1) : a \in Addresses /\ a # Base /\ a # Base + Temp
    BY <1>5, Places
  <2> QED
    BY <1>14, <2>1 DEF ListKept
<1> QED
  BY <1>3, <1>4, <1>9, <1>13, <1>14, <1>15, <1>16, <1>17, <1>18, <1>19, <1>20 DEF MemInv

\* What the two names stand for during a merge.
LEMMA NamesInside ==
  ASSUME IInv, FramesInv, MemInv, calls # <<>>, Merging
  PROVE  /\ Entry("MyList") = Home /\ Home \in Live
         /\ \A k : /\ Address("MyList", k) = 0 + 1 + 3 * k
                   /\ Address("tempList", k) = Base + 1 + 3 * k
<1>1. Scope > 1 /\ Scope \in Nat /\ Scope \in 1..Scope
  BY DEF IInv, PagesInv, ListReachable, Scope
<1>2. Entry("MyList") = Home
  BY <1>1 DEF IInv, PagesInv, ListReachable, Entry, Home
<1>3. struct[Home] = [start |-> 0, size |-> Base]
      /\ struct[Entry("tempList")] = [start |-> Base, size |-> Temp] /\ Home \in Live
  BY DEF MemInv
<1> QED
  BY <1>2, <1>3 DEF Address

\* A turn of the loop takes the smaller head to the next word of the temporary list.
Smaller == IF TakesRight THEN Top.j ELSE Top.i
NextWord == Base + 1 + 3 * Top.k

LEMMA MergeTurnWord ==
  ASSUME IInv, FramesInv, MemInv, MergeTurn
  PROVE  /\ calls # <<>> /\ Top.proc = "merge" /\ Top.step = "loop" /\ Top.k < Length
         /\ table' = table /\ struct' = struct /\ Merging
         /\ Smaller \in Nat /\ 0 + 1 + 3 * Smaller \in Addresses
         /\ NextWord \in Addresses /\ NextWord \in Nat /\ Base < NextWord /\ NextWord < Base + Temp
         /\ mem' = [mem EXCEPT ![NextWord] = mem[0 + 1 + 3 * Smaller]]
         /\ mem[0 + 1 + 3 * Smaller] \in Nat
<1>1. /\ calls # <<>> /\ Top.proc = "merge" /\ Top.step = "loop" /\ Top.k < Length
      /\ mem' = [mem EXCEPT ![Address("tempList", Top.k)] = Value("MyList", Smaller)]
      /\ table' = table /\ struct' = struct
  BY DEF MergeTurn, At, Smaller
<1>2. Merging
  BY <1>1 DEF Merging
<1>3. /\ Top \in Frames /\ Length \in Nat /\ Length <= N
      /\ Temp = 3 * Length + 1 /\ Base + Temp <= M
  BY <1>1, PartOf
<1>4. Top.k \in Nat /\ Top.i \in 0..N /\ Top.j \in 0..N
  BY <1>3 DEF Frames
<1>5. Smaller \in 0..N /\ Smaller \in Nat
  BY <1>4, Places DEF Smaller
<1>6. NextWord \in Nat /\ Base < NextWord /\ NextWord < Base + Temp
  BY <1>1, <1>3, <1>4, Places DEF NextWord
<1>7. NextWord \in Addresses /\ 0 + 1 + 3 * Smaller \in Addresses
  BY <1>3, <1>5, <1>6, Places
<1>8. mem' = [mem EXCEPT ![NextWord] = mem[0 + 1 + 3 * Smaller]] /\ mem[0 + 1 + 3 * Smaller] \in Nat
  BY <1>1, <1>2, <1>7, NamesInside DEF Value, MemInv, NextWord
<1> QED
  BY <1>1, <1>2, <1>5, <1>6, <1>7, <1>8

LEMMA MergeTurnMem ==
  ASSUME IInv, FramesInv, MemInv, Merging', Top'.lo = Top.lo, Top'.hi = Top.hi, MergeTurn
  PROVE  MemInv' /\ ListKept
<1>1. /\ calls # <<>> /\ table' = table /\ struct' = struct /\ Merging
      /\ NextWord \in Addresses /\ NextWord \in Nat /\ Base < NextWord /\ NextWord < Base + Temp
      /\ mem' = [mem EXCEPT ![NextWord] = mem[0 + 1 + 3 * Smaller]]
      /\ mem[0 + 1 + 3 * Smaller] \in Nat
  BY MergeTurnWord
<1>2. Temp \in Nat /\ Base + Temp <= M
  BY <1>1, PartOf
<1>3. mem' \in [Addresses -> Nat] /\ \A a \in Addresses : a # NextWord => mem'[a] = mem[a]
  BY <1>1 DEF MemInv
<1>4. \A a \in {0, Base, Base + Temp, M} : a \in Addresses /\ a # NextWord
  BY <1>1, <1>2, Places
<1>5. \A a \in {0, Base, Base + Temp, M} : mem'[a] = mem[a]
  BY <1>3, <1>4
<1>6. ListKept
  <2>1. \A a \in 0..(Base - 1) : a \in Addresses /\ a # NextWord
    BY <1>1, Places DEF Addresses
  <2> QED
    BY <1>3, <2>1 DEF ListKept
<1> QED
  BY <1>1, <1>3, <1>5, <1>6, MemInside

\* The copy back writes words of the list only.
LEMMA MergeCopyBackMem ==
  ASSUME IInv, FramesInv, MemInv, Merging', Top'.lo = Top.lo, Top'.hi = Top.hi, MergeCopyBack
  PROVE  MemInv'
<1> DEFINE part == {Address("MyList", Top.lo + k) : k \in 0..(Length - 1)}
           first == Address("MyList", Top.lo)
<1>1. /\ calls # <<>> /\ Top.proc = "merge" /\ Top.step = "loop"
      /\ mem' = [a \in Addresses |-> IF a \in part
                   THEN mem[Address("tempList", 0) + (a - first)] ELSE mem[a]]
      /\ table' = table /\ struct' = struct
  BY DEF MergeCopyBack, At
<1>2. Merging
  BY <1>1 DEF Merging
<1>3. /\ Top.lo \in Nat /\ Top.hi \in Nat /\ Top.lo <= Top.hi /\ Top.hi < N
      /\ Length \in Nat /\ Length <= N /\ Length = Top.hi - Top.lo + 1
      /\ Temp = 3 * Length + 1 /\ Temp \in Nat /\ Base + Temp <= M
  BY <1>1, PartOf DEF Length
<1>4. first = 1 + 3 * Top.lo /\ Address("tempList", 0) = Base + 1
  <2>1. first = 0 + 1 + 3 * Top.lo /\ Address("tempList", 0) = Base + 1 + 3 * 0
    BY <1>1, <1>2, NamesInside
  <2> QED
    BY <1>3, <2>1, Places
<1>5. \A a \in part : a \in Nat /\ 0 < a /\ a < Base /\ a - first \in Nat /\ a - first < Temp
  <2> SUFFICES ASSUME NEW k \in 0..(Length - 1)
               PROVE  LET a == Address("MyList", Top.lo + k)
                      IN a \in Nat /\ 0 < a /\ a < Base /\ a - first \in Nat /\ a - first < Temp
    OBVIOUS
  <2>1. Address("MyList", Top.lo + k) = 0 + 1 + 3 * (Top.lo + k)
    BY <1>1, <1>2, NamesInside
  <2>2. k \in Nat /\ k < Length
    BY <1>3
  <2> HIDE DEF first
  <2> QED
    BY <1>3, <1>4, <2>1, <2>2, Places
<1> HIDE DEF part, first
<1>6. ASSUME NEW a \in Addresses
      PROVE  (IF a \in part THEN mem[Address("tempList", 0) + (a - first)] ELSE mem[a]) \in Nat
  <2>1. CASE a \in part
    <3>1. Base + 1 + (a - first) \in 0..(2 * M)
      BY <1>3, <1>5, <2>1, Places
    <3>2. Address("tempList", 0) + (a - first) \in Addresses
      BY <1>4, <3>1, Places
    <3> QED
      BY <2>1, <3>2 DEF MemInv
  <2>2. CASE a \notin part
    BY <2>2 DEF MemInv
  <2> QED
    BY <2>1, <2>2
<1>7. mem' \in [Addresses -> Nat] /\ \A a \in Addresses : a \notin part => mem'[a] = mem[a]
  BY <1>1, <1>6
<1>8. \A a \in {0, Base, Base + Temp, M} : a \in Addresses /\ a \notin part
  BY <1>3, <1>5, Places
<1>9. \A a \in {0, Base, Base + Temp, M} : mem'[a] = mem[a]
  BY <1>7, <1>8
<1> QED
  BY <1>1, <1>2, <1>7, <1>9, MemInside

\* A segment that is freed takes over the rest of the memory.
LEMMA FreesToEnd ==
  ASSUME NothingPastEnd, mem \in [Addresses -> Nat], mem[M] \in PastEnd,
         NEW a \in Nat, NEW n \in Nat, n # 0, a + n <= M,
         a + n < M => ~Used(mem[a + n]) /\ SizeOf(mem[a + n]) = M - (a + n),
         mem' = Released(mem, a, n)
  PROVE  /\ mem' \in [Addresses -> Nat] /\ mem'[a] = 2 * (M - a)
         /\ \A b \in Addresses : b # a => mem'[b] = mem[b]
<1>1. a \in Addresses /\ M - a \in Nat /\ 2 * (M - a) \in Nat
  BY Places
<1>2. (IF Used(mem[a + n]) THEN n ELSE n + SizeOf(mem[a + n])) = M - a
  <2>1. CASE a + n < M
    <3>1. n + (M - (a + n)) = M - a
      BY Places
    <3> QED
      BY <2>1, <3>1
  <2>2. CASE a + n = M
    <3>1. Used(mem[a + n]) \/ SizeOf(mem[a + n]) = 0
      BY <2>2 DEF NothingPastEnd
    <3>2. n = M - a /\ n + 0 = M - a
      BY <2>2, Places
    <3> QED
      BY <3>1, <3>2
  <2> QED
    BY <2>1, <2>2, Places
<1>3. mem' = [mem EXCEPT ![a] =
                2 * (IF Used(mem[a + n]) THEN n ELSE n + SizeOf(mem[a + n]))]
  BY Zenon DEF Released
<1>4. mem' = [mem EXCEPT ![a] = 2 * (M - a)]
  BY <1>2, <1>3, Zenon
<1> QED
  BY <1>1, <1>4

\* merge frees its temporary list, and leaves its scope.
LEMMA MergeLeaveMem ==
  ASSUME NothingPastEnd, IInv, FramesInv, MemInv, IInv', calls' # <<>>, ~Merging', MergeLeave
  PROVE  MemInv' /\ ListKept
<1> DEFINE p == Entry("tempList")
           page == [table[Scope] EXCEPT !["tempList"] = Absent]
           pages == Erased(table, "tempList")
<1>1. /\ calls # <<>> /\ Top.proc = "merge" /\ Top.step = "leave"
      /\ LeaveScope(pages, FreeIn(mem, p), {p})
  BY DEF MergeLeave, At
<1>2. /\ Merging /\ Scope > 1 /\ Scope \in Nat /\ Scope = Len(table) /\ Scope \in 1..Scope
      /\ table \in Seq([Names -> Entries]) /\ p # Entry("MyList")
  BY <1>1 DEF Merging, IInv, PagesInv, ListReachable, Scope
<1>3. table[Scope] \in [Names -> Entries]
  BY <1>2
<1>4. page \in [Names -> Entries] /\ page["tempList"] = Absent
  BY <1>3 DEF Names, Entries
<1>5. pages = [table EXCEPT ![Scope] = page]
  BY <1>2 DEF Erased
<1>6. Entry("MyList") = Home /\ Home \in Live
  BY <1>1, <1>2, NamesInside
<1> HIDE DEF page, p, pages
<1>7. pages \in Seq([Names -> Entries]) /\ Len(pages) = Scope /\ pages[Scope] = page
  BY <1>2, <1>4, <1>5
<1>8. pages # <<>> /\ pages[Len(pages)]["tempList"] = Absent
  BY <1>2, <1>4, <1>7
<1>9. mem' = FreeIn(mem, p) /\ struct' = Without({p})
  BY <1>1, <1>7, <1>8, LeavesWords
<1>10. Live = {Home, p} /\ struct[p] = [start |-> Base, size |-> Temp]
       /\ struct[Home] = [start |-> 0, size |-> Base] /\ mem[0] = 2 * Base + 1
       /\ mem \in [Addresses -> Nat] /\ mem[M] \in PastEnd
  BY <1>1, <1>2 DEF MemInv, p
<1>11. Live' = {Home} /\ struct'[Home] = struct[Home]
  BY <1>2, <1>6, <1>9, <1>10 DEF Without, Live
<1>12. Home' \in Live'
  BY DEF IInv, ScopesInv, PagesInv, ListReachable, Home, Scope
<1>13. Home' = Home
  BY <1>11, <1>12
<1>14. mem' = Released(mem, Base, Temp)
  BY <1>9, <1>10 DEF FreeIn
<1>15. /\ Temp \in Nat /\ Temp # 0 /\ Base + Temp <= M
       /\ Base + Temp < M => /\ ~Used(mem[Base + Temp])
                             /\ SizeOf(mem[Base + Temp]) = M - (Base + Temp)
  BY <1>1, <1>2, HeadersInside, PartOf
<1>16. /\ mem' \in [Addresses -> Nat] /\ mem'[Base] = 2 * (M - Base)
       /\ \A b \in Addresses : b # Base => mem'[b] = mem[b]
  BY <1>10, <1>14, <1>15, Places, FreesToEnd
<1>17. mem'[0] = mem[0] /\ mem'[M] = mem[M]
  BY <1>16, Places
<1>18. ListKept
  <2>1. \A a \in 0..(Base - 1) : a \in Addresses /\ a # Base
    BY Places
  <2> QED
    BY <1>16, <2>1 DEF ListKept
<1> QED
  BY <1>10, <1>11, <1>13, <1>16, <1>17, <1>18 DEF MemInv

\* main frees the list, and the memory is one segment again.
LEMMA MainFreeMem ==
  ASSUME NothingPastEnd, IInv, MemInv, MainFree
  PROVE  MemInv'
<1>1. /\ calls # <<>> /\ Top.proc = "main" /\ Return
      /\ mem' = FreeIn(mem, Entry("MyList")) /\ struct' = Without({Entry("MyList")})
  BY DEF MainFree, At
<1>2. ~Merging /\ Scope >= 1 /\ Scope \in Nat /\ Scope \in 1..Scope
  BY <1>1 DEF Merging, IInv, ScopesInv, PagesInv, Scope
<1>3. Entry("MyList") = Home
  BY <1>2, PagesOutside DEF IInv, Entry, Home
<1>4. calls' = <<>> /\ ~Merging'
  BY <1>1, ReturnPops DEF IInv, Merging
<1>5. /\ Live = {Home} /\ struct[Home] = [start |-> 0, size |-> Base]
      /\ mem \in [Addresses -> Nat] /\ mem[M] \in PastEnd
  BY <1>1, <1>2 DEF MemInv
<1>6. Live' = {}
  BY <1>1, <1>3, <1>5 DEF Without, Live
<1>7. mem' = Released(mem, 0, Base)
  BY <1>1, <1>3, <1>5 DEF FreeIn
<1>8. /\ 0 \in Nat /\ 0 + Base = Base /\ 0 + Base <= M /\ M - 0 = M
  BY Places
<1>9. /\ ~Used(mem[0 + Base]) /\ SizeOf(mem[0 + Base]) = M - (0 + Base)
  BY <1>1, <1>2, <1>8, HeadersOutside
<1>10. /\ mem' \in [Addresses -> Nat] /\ mem'[0] = 2 * (M - 0)
       /\ \A b \in Addresses : b # 0 => mem'[b] = mem[b]
  BY <1>5, <1>7, <1>8, <1>9, Places, FreesToEnd
<1>11. mem'[M] = mem[M] /\ mem'[0] = 2 * M
  BY <1>8, <1>10, Places
<1> QED
  BY <1>4, <1>5, <1>6, <1>10, <1>11 DEF MemInv

\* main has made the list.
LEMMA InitMem == Init => FramesInv /\ MemInv
<1> SUFFICES ASSUME Init
             PROVE  FramesInv /\ MemInv
  OBVIOUS
<1>1. PICK p \in Pointers : /\ struct = [q \in {p} |-> [start |-> 0, size |-> Words(N) + 1]]
                            /\ table = <<[NoNames EXCEPT !["MyList"] = p]>>
  BY DEF Init
<1>2. Home = p /\ Live = {p} /\ struct[p] = [start |-> 0, size |-> Base]
  BY <1>1 DEF Home, Live, NoNames, Names, Base
<1>3. calls = <<Frame("main", 0, N - 1)>>
  BY DEF Init
<1>4. Fits(Frame("main", 0, N - 1))
  <2>1. 0 \in Nat /\ N - 1 \in Nat /\ 0 <= N - 1 /\ N - 1 < N
    BY Places
  <2> QED
    BY <2>1, NewPart
<1>5. FramesInv
  <2> DEFINE f == Frame("main", 0, N - 1)
  <2>1. f \in Frames
    BY <1>4 DEF Fits
  <2> HIDE DEF f
  <2>2. calls = <<f>>
    BY <1>3 DEF f
  <2>3. calls \in Seq(Frames) /\ Len(calls) = 1 /\ calls[1] = f
    BY <2>1, <2>2
  <2>4. Fits(f)
    BY <1>4 DEF f
  <2> QED
    BY <2>3, <2>4 DEF FramesInv
<1>6. ~Merging /\ calls # <<>>
  BY <1>3 DEF Merging, Top, Frame
<1>7. PICK w \in PastEnd : mem = [a \in Addresses |->
        IF a = 0 THEN 2 * (Words(N) + 1) + 1
        ELSE IF a = Words(N) + 1 THEN 2 * (M - Words(N) - 1)
        ELSE IF a \in Inside
             THEN IF a <= Words(N) /\ a % 3 = 1 THEN input[a \div 3] ELSE 0
             ELSE w]
  BY DEF Init
<1>8. Words(N) + 1 = Base /\ M - Words(N) - 1 = M - Base /\ M - Base \in Nat /\ w \in Nat
      /\ Words(N) = 3 * N
  BY Places, SizeAssumption DEF Words
<1>9. mem[0] = 2 * Base + 1 /\ mem[Base] = 2 * (M - Base)
  BY <1>7, <1>8, Places
<1>10. mem[M] = w
  <2>1. M # 0 /\ M # Words(N) + 1 /\ M \notin Inside
    BY <1>8, Places DEF Inside
  <2> QED
    BY <1>7, <2>1, Places
<1>11. mem \in [Addresses -> Nat]
  <2> SUFFICES ASSUME NEW a \in Addresses
               PROVE  mem[a] \in Nat
    BY <1>7
  <2>1. CASE a <= Words(N) /\ a % 3 = 1
    <3>1. a \in Nat
      BY DEF Addresses
    <3>2. a \div 3 \in 0..(N - 1)
      BY <1>8, <2>1, <3>1, Places
    <3>3. input[a \div 3] \in Nat
      BY <3>2, SortAssumption DEF Init
    <3>4. 2 * (Words(N) + 1) + 1 \in Nat /\ 2 * (M - Words(N) - 1) \in Nat
      BY <1>8, Places
    <3> QED
      BY <1>7, <1>8, <2>1, <3>3, <3>4
  <2>2. CASE ~(a <= Words(N) /\ a % 3 = 1)
    <3>1. 2 * (Words(N) + 1) + 1 \in Nat /\ 2 * (M - Words(N) - 1) \in Nat
      BY <1>8, Places
    <3> QED
      BY <1>7, <1>8, <2>2, <3>1
  <2> QED
    BY <2>1, <2>2
<1> QED
  BY <1>2, <1>5, <1>6, <1>9, <1>10, <1>11 DEF MemInv

LEMMA SoundStarts == Init => Sound
BY InitInv, InitMem DEF Sound

LEMMA SoundStays ==
  ASSUME NothingPastEnd, Sound, [Next]_vars
  PROVE  Sound'
<1>1. IInv /\ FramesInv /\ MemInv /\ IInv'
  BY NextKeeps DEF Sound
<1>2. CASE UNCHANGED vars
  BY <1>1, <1>2 DEF vars, Sound, FramesInv, MemInv, Merging, Home, Temp, Length, Entry,
                    Scope, Live, Top
<1>3. ASSUME Next
      PROVE  FramesInv'
  BY <1>1, <1>3, FramesStep
<1>4. ASSUME NEW step \in {"sorted", "right", "merge", "leave"}, NEW f \in FrameType,
             f.proc # "main", f.step = "enter", calls # <<>>, Top.proc # "merge",
             Call(step, f), UNCHANGED <<mem, table, struct>>
      PROVE  MemInv'
  <2>1. calls' # <<>> /\ Top' = f
    BY <1>1, <1>4, CallPushes DEF IInv
  <2>2. ~Merging /\ ~Merging'
    BY <1>4, <2>1 DEF Merging
  <2>3. Live' = Live
    BY <1>4 DEF Live
  <2> QED
    BY <1>1, <1>4, <2>1, <2>2, <2>3, MemOutside
<1>5. ASSUME MainSort
      PROVE  MemInv'
  <2>1. /\ calls # <<>> /\ Top.proc = "main" /\ UNCHANGED <<mem, table, struct>>
        /\ Call("sorted", Frame("mergesort", 0, N - 1))
    BY <1>5 DEF MainSort, At
  <2>2. 0 \in Int /\ N - 1 \in Int
    BY Places
  <2> QED
    BY <1>4, <2>1, <2>2, NewFrame
<1>6. ASSUME SortLeft \/ SortRight \/ SortMerge
      PROVE  MemInv'
  <2>1. calls # <<>> /\ Top.proc = "mergesort" /\ UNCHANGED <<mem, table, struct>>
    BY <1>6 DEF SortLeft, SortRight, SortMerge, At
  <2>2. Top.lo \in Int /\ Top.hi \in Int /\ Mid \in Int /\ Mid + 1 \in Int
    BY <1>1, <2>1, PartOf
  <2>3. CASE SortLeft
    BY <1>4, <2>1, <2>2, <2>3, NewFrame DEF SortLeft
  <2>4. CASE SortRight
    BY <1>4, <2>1, <2>2, <2>4, NewFrame DEF SortRight
  <2>5. CASE SortMerge
    BY <1>4, <2>1, <2>2, <2>5, NewFrame DEF SortMerge
  <2> QED
    BY <1>6, <2>3, <2>4, <2>5
<1>7. ASSUME SortEnter
      PROVE  MemInv'
  <2>1. /\ calls # <<>> /\ Top.proc = "mergesort" /\ Top.step = "enter"
        /\ UNCHANGED <<mem, struct>> /\ IF Top.lo >= Top.hi THEN Return ELSE Goto("left")
    BY <1>7 DEF SortEnter, At
  <2>2. calls' # <<>> /\ ~Merging'
    <3>1. CASE Return
      BY <1>1, <2>1, <3>1, ReturnPops DEF IInv, Merging
    <3>2. CASE Goto("left")
      <4> DEFINE f == [Top EXCEPT !.step = "left"]
      <4>1. f \in FrameType /\ f.proc = Top.proc
        BY <1>1, <2>1, TopFrame DEF IInv, FrameType
      <4>2. calls' = [calls EXCEPT ![Len(calls)] = f]
        BY <3>2 DEF Goto, Top
      <4> HIDE DEF f
      <4>3. calls' # <<>> /\ Top' = f
        BY <1>1, <2>1, <4>1, <4>2, TopReplaced DEF IInv
      <4> QED
        BY <2>1, <4>1, <4>3 DEF Merging
    <3> QED
      BY <2>1, <3>1, <3>2
  <2>3. ~Merging /\ Live' = Live
    BY <2>1 DEF Merging, Live
  <2> QED
    BY <1>1, <2>1, <2>2, <2>3, MemOutside
<1>8. ASSUME SortLeave \/ MergeLeave
      PROVE  calls' # <<>> /\ ~Merging'
  <2>1. calls # <<>> /\ Top.proc # "main" /\ Return
    BY <1>8 DEF SortLeave, MergeLeave, At
  <2> QED
    BY <1>1, <2>1, ReturnPops DEF IInv, Merging
<1>9. ASSUME SortLeave
      PROVE  MemInv'
  BY <1>1, <1>8, <1>9, SortLeaveMem
<1>10. ASSUME MergeLeave
       PROVE  MemInv'
  BY <1>1, <1>8, <1>10, MergeLeaveMem
<1>11. ASSUME MergeEnter
       PROVE  MemInv'
  BY <1>1, <1>11, MergeEnterMem
<1>12. ASSUME MergeTurn \/ MergeCopyBack
       PROVE  Merging' /\ Top'.lo = Top.lo /\ Top'.hi = Top.hi
  <2>1. calls # <<>> /\ Top.proc = "merge" /\ Top \in FrameType
    BY <1>1, <1>12, TopFrame DEF MergeTurn, MergeCopyBack, At, IInv
  <2>2. Top.step = "loop"
    BY <1>12 DEF MergeTurn, MergeCopyBack, At
  <2>3. PICK f \in FrameType : /\ calls' = [calls EXCEPT ![Len(calls)] = f]
                               /\ f.proc = "merge" /\ f.step \in {"loop", "leave"}
                               /\ f.lo = Top.lo /\ f.hi = Top.hi
    <3> DEFINE fromRight == [Top EXCEPT !.j = Top.j + 1, !.k = Top.k + 1]
               fromLeft == [Top EXCEPT !.i = Top.i + 1, !.k = Top.k + 1]
               copied == [Top EXCEPT !.step = "leave"]
    <3>1. Top.i + 1 \in Int /\ Top.j + 1 \in Int /\ Top.k + 1 \in Int
      BY <2>1 DEF FrameType
    <3>2. /\ fromRight \in FrameType /\ fromRight.proc = "merge" /\ fromRight.step = "loop"
          /\ fromRight.lo = Top.lo /\ fromRight.hi = Top.hi
      BY <2>1, <2>2, <3>1 DEF FrameType
    <3>3. /\ fromLeft \in FrameType /\ fromLeft.proc = "merge" /\ fromLeft.step = "loop"
          /\ fromLeft.lo = Top.lo /\ fromLeft.hi = Top.hi
      BY <2>1, <2>2, <3>1 DEF FrameType
    <3>4. /\ copied \in FrameType /\ copied.proc = "merge" /\ copied.step = "leave"
          /\ copied.lo = Top.lo /\ copied.hi = Top.hi
      BY <2>1 DEF FrameType
    <3>5. \/ calls' = [calls EXCEPT ![Len(calls)] = fromRight]
          \/ calls' = [calls EXCEPT ![Len(calls)] = fromLeft]
          \/ calls' = [calls EXCEPT ![Len(calls)] = copied]
      <4>1. CASE MergeTurn /\ TakesRight
        BY <4>1 DEF MergeTurn
      <4>2. CASE MergeTurn /\ ~TakesRight
        BY <4>2 DEF MergeTurn
      <4>3. CASE MergeCopyBack
        BY <4>3 DEF MergeCopyBack, Goto, Top
      <4> QED
        BY <1>12, <4>1, <4>2, <4>3
    <3> HIDE DEF fromRight, fromLeft, copied
    <3> QED
      BY <3>2, <3>3, <3>4, <3>5
  <2>4. calls' # <<>> /\ Top' = f
    BY <1>1, <2>1, <2>3, TopReplaced DEF IInv
  <2> QED
    BY <2>3, <2>4 DEF Merging
<1>13. ASSUME MergeTurn
       PROVE  MemInv'
  BY <1>1, <1>12, <1>13, MergeTurnMem
<1>14. ASSUME MergeCopyBack
       PROVE  MemInv'
  BY <1>1, <1>12, <1>14, MergeCopyBackMem
<1>15. ASSUME MainFree
       PROVE  MemInv'
  BY <1>1, <1>15, MainFreeMem
<1>16. ASSUME Next
       PROVE  MemInv'
  BY <1>5, <1>6, <1>7, <1>9, <1>10, <1>11, <1>13, <1>14, <1>15, <1>16 DEF Next
<1> QED
  BY <1>1, <1>2, <1>3, <1>16 DEF Sound

-----------------------------------------------------------------------------
(* What follows *)

\* Every variable keeps to its values: no part is left, no size passes the memory.
LEMMA SoundTypes == Sound => TypeOK
<1> SUFFICES ASSUME Sound
             PROVE  TypeOK
  OBVIOUS
<1>1. Base \in 1..M /\ 0 \in Addresses /\ Base \in Addresses
  BY Places
<1>2. calls # <<>> => Temp \in 1..M
  BY PartOf, Places DEF Sound
<1>3. Merging => calls # <<>>
  BY DEF Merging
<1>4. \A p \in Live : struct[p] \in MyStructs
  BY <1>1, <1>2, <1>3 DEF Sound, MemInv, MyStructs
<1> QED
  BY <1>4 DEF Sound, IInv, PagesInv, FramesInv, MemInv, TypeOK

\* The headers are those of the lists and of the rest.
LEMMA SoundTiles == Sound => MemoryTiled
<1> SUFFICES ASSUME Sound
             PROVE  MemoryTiled
  OBVIOUS
<1> DEFINE starts == {struct[p].start : p \in Live}
           sizes == [a \in starts |-> struct[CHOOSE p \in Live : struct[p].start = a].size]
<1>1. DOMAIN sizes = starts
  OBVIOUS
<1>2. CASE calls = <<>>
  <2>1. Chain = {0, M} /\ ~Used(mem[0]) /\ SizeOf(mem[0]) = M /\ Live = {} /\ mem[0] = 2 * M
    BY <1>2, HeadersAfter DEF Sound, MemInv
  <2>2. starts = {}
    BY <2>1
  <2> HIDE DEF sizes, starts
  <2>3. TiledBy(sizes)
    BY <1>1, <2>1, <2>2, Places DEF TiledBy
  <2>4. NoFreePair
    BY <2>1, Places DEF NoFreePair
  <2> QED
    BY <1>2, <2>1, <2>3, <2>4 DEF MemoryTiled, sizes, starts
<1>3. CASE calls # <<>> /\ ~Merging
  <2>1. /\ Chain = {0, Base, M} /\ Live = {Home} /\ struct[Home] = [start |-> 0, size |-> Base]
        /\ Used(mem[0]) /\ SizeOf(mem[0]) = Base
        /\ ~Used(mem[Base]) /\ SizeOf(mem[Base]) = M - Base
    BY <1>3, HeadersOutside DEF Sound, MemInv
  <2>2. starts = {0}
    BY <2>1
  <2>3. sizes[0] = Base
    <3>1. (CHOOSE p \in Live : struct[p].start = 0) = Home
      BY <2>1
    <3> QED
      BY <2>1, <2>2, <3>1
  <2> HIDE DEF sizes, starts
  <2>4. TiledBy(sizes)
    BY <1>1, <2>1, <2>2, <2>3, Places DEF TiledBy
  <2>5. NoFreePair
    <3>1. Base + (M - Base) = M
      BY Places
    <3> QED
      BY <2>1, <3>1 DEF NoFreePair
  <2> QED
    BY <1>3, <2>4, <2>5 DEF MemoryTiled, sizes, starts
<1>4. CASE Merging
  <2> DEFINE p == Entry("tempList")
             rest == Base + Temp
  <2>1. calls # <<>>
    BY <1>4 DEF Merging
  <2>2. /\ Chain = {0, Base, Base + Temp, M}
        /\ Used(mem[0]) /\ SizeOf(mem[0]) = Base /\ Used(mem[Base]) /\ SizeOf(mem[Base]) = Temp
        /\ Base + Temp < M => /\ ~Used(mem[Base + Temp])
                              /\ SizeOf(mem[Base + Temp]) = M - (Base + Temp)
    BY <1>4, <2>1, HeadersInside DEF Sound
  <2>3. /\ Live = {Home, p} /\ struct[Home] = [start |-> 0, size |-> Base]
        /\ struct[p] = [start |-> Base, size |-> Temp]
    BY <1>4, <2>1 DEF Sound, MemInv
  <2>4. Temp \in Nat /\ Temp # 0 /\ rest \in Nat /\ rest <= M /\ Base < rest
    BY <2>1, PartOf, Places DEF Sound
  <2> HIDE DEF p
  <2>5. starts = {0, Base}
    BY <2>3
  <2>6. sizes[0] = Base /\ sizes[Base] = Temp
    <3>1. (CHOOSE q \in Live : struct[q].start = 0) = Home
      BY <2>3, Places
    <3>2. (CHOOSE q \in Live : struct[q].start = Base) = p
      BY <2>3, Places
    <3> QED
      BY <2>3, <2>5, <3>1, <3>2
  <2> HIDE DEF sizes, starts, rest
  <2>7. /\ Chain = {0, Base, rest, M}
        /\ rest < M => ~Used(mem[rest]) /\ SizeOf(mem[rest]) = M - rest
    BY <2>2 DEF rest
  <2>8. {a \in Chain \ {M} : Used(mem[a])} = {0, Base}
    BY <2>2, <2>4, <2>7, Places
  <2>9. TiledBy(sizes)
    <3>1. M \in Chain /\ Chain \subseteq 0..M
      BY <2>4, <2>7, Places
    <3>2. \A a \in DOMAIN sizes : SizeOf(mem[a]) = sizes[a]
      BY <1>1, <2>2, <2>5, <2>6
    <3> QED
      BY <1>1, <2>5, <2>8, <3>1, <3>2 DEF TiledBy
  <2>10. NoFreePair
    <3> SUFFICES ASSUME NEW a \in Chain \ {M}, ~Used(mem[a])
                 PROVE  a + SizeOf(mem[a]) = M
      BY DEF NoFreePair
    <3>1. a = rest /\ rest < M
      <4>1. a \in {0, Base, rest, M} /\ a # M
        BY <2>7
      <4>2. a # 0 /\ a # Base
        BY <2>2
      <4> QED
        BY <2>4, <4>1, <4>2, Places
    <3>2. rest + (M - rest) = M
      BY <2>4, Places
    <3> QED
      BY <2>7, <3>1, <3>2
  <2> QED
    BY <2>1, <2>9, <2>10 DEF MemoryTiled, sizes, starts
<1> QED
  BY <1>2, <1>3, <1>4

\* Both hold in all that the sort does.
LEMMA SoundAlways ==
  ASSUME NothingPastEnd
  PROVE  Spec => []Sound
<1>1. Sound /\ [Next]_vars => Sound'
  BY SoundStays
<1> QED
  BY SoundStarts, <1>1, PTL DEF Spec

\* Every variable keeps to its values, for every length: the indices of a call stay
\* between 0 and the length of the list.
THEOREM TypeCorrect ==
  ASSUME NothingPastEnd
  PROVE  Spec => []TypeOK
<1> QED
  BY SoundTypes, SoundAlways, PTL

\* The list and the temporary list tile the memory with one free segment behind them, and
\* at the end the memory is one free segment, for every length of the list.
THEOREM TilesCorrect ==
  ASSUME NothingPastEnd
  PROVE  Spec => []MemoryTiled
<1> QED
  BY SoundTiles, SoundAlways, PTL

-----------------------------------------------------------------------------
(* What is sorted, and when *)

\* The elements of the list and of the temporary list, in the words of a memory.
Elem(words, x) == words[1 + 3 * x]
TempElem(words, t) == words[Base + 1 + 3 * t]
Ordered(words, lo, hi) ==
  \A a, b \in lo..hi : a <= b => Elem(words, a) <= Elem(words, b)

\* The middle of a part; where the part begins and ends that the call waits for, or has
\* waited for.
MidOf(f) == (f.lo + f.hi) \div 2
Begins(f) == IF f.proc = "main" THEN 0
             ELSE IF f.step = "merge" THEN MidOf(f) + 1 ELSE f.lo
Ends(f) == IF f.proc = "main" THEN N - 1
           ELSE IF f.step = "right" THEN MidOf(f) ELSE f.hi

\* A call works on what its caller waits for, and on no more than any call below it
\* waits for.
Nested ==
  \A c, d \in 1..Len(calls) : c < d =>
    /\ Begins(calls[c]) <= calls[d].lo /\ calls[d].hi <= Ends(calls[c])
    /\ d = c + 1 => calls[d].lo = Begins(calls[c]) /\ calls[d].hi = Ends(calls[c])

\* The first half is ordered while the second is sorted.
HalfDone(words, f) ==
  f.proc = "mergesort" /\ f.step = "merge" => Ordered(words, f.lo, MidOf(f))

\* What the call on top has waited for is ordered.
PartDone(words, f) ==
  f.step \in {"sorted", "right", "merge", "leave"} => Ordered(words, Begins(f), Ends(f))

\* What a merge has still to take, and what it took.
ToTake(f) == (f.i..MidOf(f)) \cup (f.j..f.hi)
TakenFrom(f) == (f.lo..(f.i - 1)) \cup ((MidOf(f) + 1)..(f.j - 1))

\* A merge begins with two ordered halves; what it has taken is ordered and not greater
\* than what it has not, and each value was taken as often as it was there.
Merges(words, f) ==
  f.proc = "merge" /\ f.step \in {"enter", "loop"} =>
    Ordered(words, f.lo, MidOf(f)) /\ Ordered(words, MidOf(f) + 1, f.hi)
Took(words, f) ==
  f.proc = "merge" /\ f.step = "loop" =>
    /\ \A s, t \in 0..(f.k - 1) : s <= t => TempElem(words, s) <= TempElem(words, t)
    /\ \A t \in 0..(f.k - 1), x \in ToTake(f) : TempElem(words, t) <= Elem(words, x)
    /\ \A v \in Values : Cardinality({t \in 0..(f.k - 1) : TempElem(words, t) = v})
                       = Cardinality({x \in TakenFrom(f) : Elem(words, x) = v})

\* Every value is in the list as often as it was at first.
NoneLost(words) ==
  \A v \in Values : Cardinality({x \in 0..(N - 1) : Elem(words, x) = v})
                  = Cardinality({x \in 0..(N - 1) : input[x] = v})

SortInv ==
  calls # <<>> =>
    /\ Nested
    /\ \A c \in 1..Len(calls) : HalfDone(mem, calls[c])
    /\ PartDone(mem, Top) /\ Merges(mem, Top) /\ Took(mem, Top)
    /\ NoneLost(mem)

\* What depends on the elements of a part only.
LEMMA OrderedKept ==
  ASSUME NEW words, NEW words2, NEW lo \in Nat, NEW hi \in Int,
         \A x \in lo..hi : Elem(words2, x) = Elem(words, x), Ordered(words, lo, hi)
  PROVE  Ordered(words2, lo, hi)
BY DEF Ordered

\* The bounds of a call.
LEMMA BoundsOf ==
  ASSUME NEW f, Fits(f)
  PROVE  /\ f.lo \in Nat /\ f.hi \in Nat /\ f.lo <= f.hi /\ f.hi < N
         /\ MidOf(f) \in Nat /\ f.lo <= MidOf(f) /\ MidOf(f) <= f.hi
         /\ Begins(f) \in Nat /\ Ends(f) \in Nat /\ Ends(f) < N
         /\ f.proc # "main" => f.lo <= Begins(f) /\ Ends(f) <= f.hi
<1>1. f.lo \in Nat /\ f.hi \in Nat /\ f.lo <= f.hi /\ f.hi < N
  BY Places DEF Fits, Frames
<1>2. MidOf(f) \in Nat /\ f.lo <= MidOf(f) /\ MidOf(f) <= f.hi
  BY <1>1 DEF MidOf
<1> QED
  BY <1>1, <1>2, Places DEF Begins, Ends

\* The calls below the one on top, when the elements change in its part only.
LEMMA HalvesKept ==
  ASSUME FramesInv, CallsInv, calls # <<>>, Nested, NEW words,
         \A c \in 1..Len(calls) : HalfDone(mem, calls[c]),
         \A x \in 0..(N - 1) : x \notin Top.lo..Top.hi => Elem(words, x) = Elem(mem, x)
  PROVE  \A c \in 1..(Len(calls) - 1) : HalfDone(words, calls[c])
<1> SUFFICES ASSUME NEW c \in 1..(Len(calls) - 1),
                    calls[c].proc = "mergesort", calls[c].step = "merge"
             PROVE  Ordered(words, calls[c].lo, MidOf(calls[c]))
  BY DEF HalfDone
<1> DEFINE f == calls[c]
<1>1. /\ Len(calls) \in Nat \ {0} /\ Len(calls) \in 1..Len(calls)
      /\ c \in 1..Len(calls) /\ c < Len(calls)
  BY PartOf
<1>2. Fits(f) /\ Ordered(mem, f.lo, MidOf(f))
  BY <1>1 DEF FramesInv, HalfDone
<1>3. Begins(f) <= Top.lo
  BY <1>1 DEF Nested, Top
<1>4. Begins(f) = MidOf(f) + 1
  BY DEF Begins
<1>5. /\ f.lo \in Nat /\ f.hi \in Nat /\ MidOf(f) \in Nat /\ MidOf(f) <= f.hi /\ f.hi < N
      /\ Top.lo \in Nat /\ Top.hi \in Nat
  BY <1>2, BoundsOf, PartOf
<1> HIDE DEF f
<1>6. \A x \in f.lo..MidOf(f) : x \in 0..(N - 1) /\ x \notin Top.lo..Top.hi
  <2>1. N \in Nat /\ MidOf(f) < Top.lo
    BY <1>3, <1>4, <1>5, Places
  <2> QED
    BY <1>5, <2>1
<1>7. \A x \in f.lo..MidOf(f) : Elem(words, x) = Elem(mem, x)
  BY <1>6
<1>8. Ordered(words, f.lo, MidOf(f))
  BY <1>2, <1>5, <1>7, OrderedKept
<1> QED
  BY <1>8 DEF f

-----------------------------------------------------------------------------
(* The calls nest *)

\* A call of the part that the caller waits for.
LEMMA NestedCall ==
  ASSUME FramesInv, CallsInv, calls # <<>>, Nested, NEW step, NEW f,
         NEW top, top = [Top EXCEPT !.step = step], Fits(top), Fits(f),
         Top.proc # "main" \/ Len(calls) = 1,
         f.lo = Begins(top), f.hi = Ends(top), Call(step, f)
  PROVE  /\ Nested' /\ Len(calls') = Len(calls) + 1 /\ calls'[Len(calls) + 1] = f
         /\ calls'[Len(calls)] = top
         /\ \A c \in 1..(Len(calls) - 1) : calls'[c] = calls[c]
<1> DEFINE below == [calls EXCEPT ![Len(calls)] = top]
           n == Len(calls)
<1>1. n \in Nat \ {0} /\ top \in Frames /\ f \in Frames /\ n \in 1..n /\ Fits(Top) /\ Top \in Frames
  BY PartOf DEF Fits, FramesInv
<1>2. /\ below \in Seq(Frames) /\ Len(below) = n /\ below[n] = top
      /\ \A k \in 1..(n - 1) : below[k] = calls[k]
  BY <1>1 DEF FramesInv
<1>3. calls' = Append(below, f)
  BY DEF Call, Top
<1> HIDE DEF below
<1>4. /\ Len(calls') = n + 1 /\ calls'[n + 1] = f /\ calls'[n] = top
      /\ \A k \in 1..(n - 1) : calls'[k] = calls[k]
  BY <1>1, <1>2, <1>3
<1>5. top.lo = Top.lo /\ top.hi = Top.hi /\ top.proc = Top.proc
  BY <1>1 DEF Frames
<1>6. /\ f.lo \in Nat /\ f.hi \in Nat /\ Top.lo \in Nat /\ Top.hi \in Nat
      /\ Top.proc # "main" => Top.lo <= f.lo /\ f.hi <= Top.hi
  BY <1>1, <1>5, BoundsOf
<1>7. \A c \in 1..(n - 1) :
        /\ Begins(calls[c]) \in Nat /\ Ends(calls[c]) \in Nat
        /\ Begins(calls[c]) <= Top.lo /\ Top.hi <= Ends(calls[c])
        /\ c + 1 = n => Top.lo = Begins(calls[c]) /\ Top.hi = Ends(calls[c])
  <2> SUFFICES ASSUME NEW c \in 1..(n - 1)
               PROVE  /\ Begins(calls[c]) \in Nat /\ Ends(calls[c]) \in Nat
                      /\ Begins(calls[c]) <= Top.lo /\ Top.hi <= Ends(calls[c])
                      /\ c + 1 = n => Top.lo = Begins(calls[c]) /\ Top.hi = Ends(calls[c])
    OBVIOUS
  <2>1. c \in 1..n /\ c < n
    BY <1>1
  <2>2. Fits(calls[c])
    BY <2>1 DEF FramesInv
  <2> QED
    BY <1>1, <2>1, <2>2, BoundsOf DEF Nested, Top
<1>8. Nested'
  <2> SUFFICES ASSUME NEW c \in 1..(n + 1), NEW d \in 1..(n + 1), c < d
               PROVE  /\ Begins(calls'[c]) <= calls'[d].lo /\ calls'[d].hi <= Ends(calls'[c])
                      /\ d = c + 1 => calls'[d].lo = Begins(calls'[c])
                                      /\ calls'[d].hi = Ends(calls'[c])
    BY <1>4 DEF Nested, Begins, Ends, MidOf
  <2>1. CASE d = n + 1 /\ c = n
    BY <1>4, <1>6, <2>1
  <2>2. CASE d = n + 1 /\ c \in 1..(n - 1)
    <3>1. Top.proc # "main"
      <4>1. n \in Nat /\ c \in 1..(n - 1)
        BY <1>1, <2>2
      <4> HIDE DEF n
      <4>2. n # 1
        BY <4>1
      <4> QED
        BY <4>2 DEF n
    <3>2. calls'[d] = f /\ calls'[c] = calls[c] /\ d # c + 1
      BY <1>1, <1>4, <2>2
    <3> QED
      BY <1>6, <1>7, <2>2, <3>1, <3>2
  <2>3. CASE d = n
    <3>1. c \in 1..(n - 1) /\ calls'[d] = top /\ calls'[c] = calls[c]
      BY <1>1, <1>4, <2>3
    <3> QED
      BY <1>5, <1>7, <2>3, <3>1
  <2>4. CASE d \in 1..(n - 1)
    <3>1. /\ c \in 1..(n - 1) /\ c \in 1..n /\ d \in 1..n
          /\ calls'[d] = calls[d] /\ calls'[c] = calls[c]
      BY <1>1, <1>4, <2>4
    <3> QED
      BY <3>1 DEF Nested
  <2> QED
    BY <1>1, <2>1, <2>2, <2>3, <2>4
<1> QED
  BY <1>4, <1>8

\* A step of the call on top.
LEMMA NestedTop ==
  ASSUME FramesInv, calls # <<>>, Nested, NEW f \in Frames, f.lo = Top.lo, f.hi = Top.hi,
         calls' = [calls EXCEPT ![Len(calls)] = f]
  PROVE  /\ Nested' /\ calls' # <<>> /\ Len(calls') = Len(calls) /\ Top' = f
         /\ calls'[Len(calls)] = f
         /\ \A c \in 1..(Len(calls) - 1) : calls'[c] = calls[c]
<1> DEFINE n == Len(calls)
<1>1. n \in Nat \ {0} /\ n \in 1..n
  BY PartOf
<1>2. /\ calls' \in Seq(Frames) /\ Len(calls') = n /\ calls'[n] = f
      /\ \A k \in 1..(n - 1) : calls'[k] = calls[k]
  BY <1>1 DEF FramesInv
<1>3. ASSUME NEW c \in 1..n, NEW d \in 1..n, c < d
      PROVE  /\ Begins(calls'[c]) <= calls'[d].lo /\ calls'[d].hi <= Ends(calls'[c])
             /\ d = c + 1 => calls'[d].lo = Begins(calls'[c]) /\ calls'[d].hi = Ends(calls'[c])
  <2>1. c \in 1..(n - 1)
    BY <1>1, <1>3
  <2>2. calls'[c] = calls[c]
    BY <1>2, <2>1
  <2>3. calls'[d].lo = calls[d].lo /\ calls'[d].hi = calls[d].hi
    <3>1. d = n \/ d \in 1..(n - 1)
      BY <1>1
    <3> QED
      BY <1>2, <3>1 DEF Top
  <2> QED
    BY <1>3, <2>1, <2>2, <2>3 DEF Nested
<1>4. calls' # <<>> /\ Top' = f
  BY <1>1, <1>2 DEF Top
<1>5. Nested'
  <2>1. Len(calls') = n
    BY <1>2
  <2> HIDE DEF n
  <2> QED
    BY <1>3, <2>1 DEF Nested, Begins, Ends, MidOf
<1> QED
  BY <1>2, <1>4, <1>5

\* A return to the caller, whose part was that of the call.
LEMMA NestedReturn ==
  ASSUME FramesInv, calls # <<>>, Nested, Return
  PROVE  /\ Nested' /\ Len(calls') = Len(calls) - 1
         /\ \A c \in 1..(Len(calls) - 1) : calls'[c] = calls[c]
         /\ calls' # <<>> => /\ Top' = calls[Len(calls) - 1] /\ Len(calls) - 1 \in 1..Len(calls)
                             /\ Top.lo = Begins(Top') /\ Top.hi = Ends(Top')
<1> DEFINE n == Len(calls)
<1>1. n \in Nat \ {0} /\ n \in 1..n
  BY PartOf
<1>2. /\ calls' \in Seq(Frames) /\ Len(calls') = n - 1
      /\ \A k \in 1..(n - 1) : calls'[k] = calls[k]
  BY FrontDrops DEF FramesInv, Return
<1>3. Nested'
  <2> SUFFICES ASSUME NEW c \in 1..(n - 1), NEW d \in 1..(n - 1), c < d
               PROVE  /\ Begins(calls'[c]) <= calls'[d].lo /\ calls'[d].hi <= Ends(calls'[c])
                      /\ d = c + 1 => calls'[d].lo = Begins(calls'[c])
                                      /\ calls'[d].hi = Ends(calls'[c])
    BY <1>2 DEF Nested, Begins, Ends, MidOf
  <2>1. calls'[c] = calls[c] /\ calls'[d] = calls[d] /\ c \in 1..n /\ d \in 1..n
    BY <1>1, <1>2
  <2> QED
    BY <2>1 DEF Nested
<1>4. ASSUME calls' # <<>>
      PROVE  /\ Top' = calls[n - 1] /\ n - 1 \in 1..n
             /\ Top.lo = Begins(calls[n - 1]) /\ Top.hi = Ends(calls[n - 1])
  <2>1. n - 1 \in 1..(n - 1) /\ n - 1 \in 1..n /\ n - 1 < n /\ n = (n - 1) + 1
    BY <1>1, <1>2, <1>4
  <2>2. Top' = calls[n - 1]
    BY <1>2, <2>1 DEF Top
  <2> QED
    BY <1>1, <2>1, <2>2 DEF Nested, Top
<1> QED
  BY <1>2, <1>3, <1>4

-----------------------------------------------------------------------------
(* The merge *)

\* Two sets of the same size with one more member each.
LEMMA OneMoreEach ==
  ASSUME NEW A, NEW B, IsFiniteSet(A), IsFiniteSet(B), Cardinality(A) = Cardinality(B),
         NEW a, NEW b, a \notin A, b \notin B
  PROVE  Cardinality(A \cup {a}) = Cardinality(B \cup {b})
BY FS_AddElement

\* The smallest element that is left is taken next.
LEMMA TakesNext ==
  ASSUME NEW f, Fits(f), f.proc = "merge", f.step = "loop",
         NEW words, \A x \in 0..(N - 1) : Elem(words, x) \in Nat,
         Merges(words, f),
         NEW from, NEW right \in BOOLEAN,
         right => f.j <= f.hi /\ (f.i > MidOf(f) \/ Elem(words, f.j) < Elem(words, f.i)),
         ~right => f.i <= MidOf(f) /\ (f.j > f.hi \/ ~ (Elem(words, f.j) < Elem(words, f.i))),
         from = IF right THEN f.j ELSE f.i,
         NEW g, g.lo = f.lo, g.hi = f.hi,
         g.i = IF right THEN f.i ELSE f.i + 1, g.j = IF right THEN f.j + 1 ELSE f.j
  PROVE  /\ from \in ToTake(f) /\ ToTake(f) \subseteq 0..(N - 1) /\ ToTake(g) \subseteq ToTake(f)
         /\ \A x \in ToTake(g) : Elem(words, from) <= Elem(words, x)
         /\ TakenFrom(g) = TakenFrom(f) \cup {from} /\ from \notin TakenFrom(f)
         /\ TakenFrom(f) \subseteq 0..(N - 1)
<1> DEFINE mid == MidOf(f)
<1>1. /\ f.lo \in Nat /\ f.hi \in Nat /\ mid \in Nat /\ f.lo <= mid /\ mid <= f.hi /\ f.hi < N
      /\ N \in Nat /\ MidOf(g) = mid
  BY BoundsOf, Places DEF MidOf
<1>2. f.i \in f.lo..(mid + 1) /\ f.j \in (mid + 1)..(f.hi + 1)
  BY DEF Fits, MidOf
<1>3. /\ f.i \in Nat /\ f.j \in Nat /\ f.lo <= f.i /\ f.i <= mid + 1
      /\ mid + 1 <= f.j /\ f.j <= f.hi + 1
  BY <1>1, <1>2
<1>4. Ordered(words, f.lo, mid) /\ Ordered(words, mid + 1, f.hi)
  BY DEF Merges
<1>5. /\ ToTake(f) = (f.i..mid) \cup (f.j..f.hi)
      /\ ToTake(g) = (g.i..mid) \cup (g.j..f.hi)
      /\ TakenFrom(f) = (f.lo..(f.i - 1)) \cup ((mid + 1)..(f.j - 1))
      /\ TakenFrom(g) = (f.lo..(g.i - 1)) \cup ((mid + 1)..(g.j - 1))
  BY <1>1 DEF ToTake, TakenFrom
<1> HIDE DEF mid
<1>6. ToTake(f) \subseteq 0..(N - 1) /\ TakenFrom(f) \subseteq 0..(N - 1)
  BY <1>1, <1>3, <1>5
<1>7. CASE right
  <2>1. from = f.j /\ g.i = f.i /\ g.j = f.j + 1 /\ f.j <= f.hi
    BY <1>7
  <2>2. from \in ToTake(f) /\ ToTake(g) \subseteq ToTake(f) /\ from \notin TakenFrom(f)
    BY <1>1, <1>3, <1>5, <2>1
  <2>3. TakenFrom(g) = TakenFrom(f) \cup {from}
    <3>1. (mid + 1)..(g.j - 1) = ((mid + 1)..(f.j - 1)) \cup {f.j}
      BY <1>1, <1>3, <2>1
    <3> QED
      BY <1>5, <2>1, <3>1
  <2>4. ASSUME NEW x \in ToTake(g)
        PROVE  Elem(words, from) <= Elem(words, x)
    <3>1. CASE x \in g.j..f.hi
      <4>1. f.j \in (mid + 1)..f.hi /\ x \in (mid + 1)..f.hi /\ f.j <= x
        BY <1>1, <1>3, <2>1, <3>1
      <4> QED
        BY <1>4, <2>1, <4>1 DEF Ordered
    <3>2. CASE x \in g.i..mid
      <4>1. f.i \in f.lo..mid /\ x \in f.lo..mid /\ f.i <= x /\ ~(f.i > mid)
        BY <1>1, <1>3, <2>1, <3>2
      <4>2. Elem(words, f.i) <= Elem(words, x) /\ Elem(words, f.j) < Elem(words, f.i)
        BY <1>4, <1>7, <4>1 DEF Ordered, mid
      <4>3. /\ Elem(words, f.i) \in Nat /\ Elem(words, x) \in Nat /\ Elem(words, f.j) \in Nat
        <5>1. f.i \in 0..(N - 1) /\ x \in 0..(N - 1) /\ f.j \in 0..(N - 1)
          BY <1>1, <1>3, <2>1, <4>1
        <5> QED
          BY <5>1
      <4> QED
        BY <2>1, <4>2, <4>3
    <3> QED
      BY <1>5, <3>1, <3>2
  <2> QED
    BY <1>6, <2>2, <2>3, <2>4
<1>8. CASE ~right
  <2>1. from = f.i /\ g.i = f.i + 1 /\ g.j = f.j /\ f.i <= mid
    BY <1>8 DEF mid
  <2>2. from \in ToTake(f) /\ ToTake(g) \subseteq ToTake(f) /\ from \notin TakenFrom(f)
    BY <1>1, <1>3, <1>5, <2>1
  <2>3. TakenFrom(g) = TakenFrom(f) \cup {from}
    <3>1. f.lo..(g.i - 1) = (f.lo..(f.i - 1)) \cup {f.i}
      BY <1>1, <1>3, <2>1
    <3> QED
      BY <1>5, <2>1, <3>1
  <2>4. ASSUME NEW x \in ToTake(g)
        PROVE  Elem(words, from) <= Elem(words, x)
    <3>1. CASE x \in g.i..mid
      <4>1. f.i \in f.lo..mid /\ x \in f.lo..mid /\ f.i <= x
        BY <1>1, <1>3, <2>1, <3>1
      <4> QED
        BY <1>4, <2>1, <4>1 DEF Ordered
    <3>2. CASE x \in g.j..f.hi
      <4>1. f.j \in (mid + 1)..f.hi /\ x \in (mid + 1)..f.hi /\ f.j <= x /\ ~(f.j > f.hi)
        BY <1>1, <1>3, <2>1, <3>2
      <4>2. Elem(words, f.j) <= Elem(words, x) /\ ~ (Elem(words, f.j) < Elem(words, f.i))
        BY <1>4, <1>8, <4>1 DEF Ordered
      <4>3. /\ Elem(words, f.i) \in Nat /\ Elem(words, x) \in Nat /\ Elem(words, f.j) \in Nat
        <5>1. f.i \in 0..(N - 1) /\ x \in 0..(N - 1) /\ f.j \in 0..(N - 1)
          BY <1>1, <1>3, <2>1, <4>1
        <5> QED
          BY <5>1
      <4> QED
        BY <2>1, <4>2, <4>3
    <3> QED
      BY <1>5, <3>1, <3>2
  <2> QED
    BY <1>6, <2>2, <2>3, <2>4
<1> QED
  BY <1>7, <1>8

\* It goes to the end of the temporary list.
LEMMA TookOneMore ==
  ASSUME NEW f, Fits(f), f.proc = "merge", f.step = "loop",
         NEW words, \A x \in 0..(N - 1) : Elem(words, x) \in Nat,
         \A t \in 0..(f.k - 1) : TempElem(words, t) \in Nat,
         Took(words, f),
         NEW g, NEW from \in ToTake(f),
         ToTake(f) \subseteq 0..(N - 1), ToTake(g) \subseteq ToTake(f),
         \A x \in ToTake(g) : Elem(words, from) <= Elem(words, x),
         TakenFrom(g) = TakenFrom(f) \cup {from}, from \notin TakenFrom(f),
         TakenFrom(f) \subseteq 0..(N - 1), g.k = f.k + 1,
         NEW words2, \A x \in 0..(N - 1) : Elem(words2, x) = Elem(words, x),
         \A t \in 0..(f.k - 1) : TempElem(words2, t) = TempElem(words, t),
         TempElem(words2, f.k) = Elem(words, from)
  PROVE  Took(words2, g)
<1> DEFINE k == f.k
<1>1. k \in Nat /\ N \in Nat /\ g.k - 1 = k /\ from \in 0..(N - 1) /\ Elem(words, from) \in Nat
  BY Places DEF Fits, Frames
<1>2. /\ \A s, t \in 0..(k - 1) : s <= t => TempElem(words, s) <= TempElem(words, t)
      /\ \A t \in 0..(k - 1), x \in ToTake(f) : TempElem(words, t) <= Elem(words, x)
      /\ \A v \in Values : Cardinality({t \in 0..(k - 1) : TempElem(words, t) = v})
                         = Cardinality({x \in TakenFrom(f) : Elem(words, x) = v})
  BY DEF Took
<1> HIDE DEF k
<1>3. 0..k = (0..(k - 1)) \cup {k} /\ k \notin 0..(k - 1)
  BY <1>1
<1>4. /\ TempElem(words2, k) = Elem(words, from)
      /\ \A t \in 0..(k - 1) : TempElem(words2, t) = TempElem(words, t)
  BY DEF k
<1>5. ASSUME NEW s \in 0..k, NEW t \in 0..k, s <= t
      PROVE  TempElem(words2, s) <= TempElem(words2, t)
  <2>1. CASE s = k
    <3>1. t = k
      BY <1>1, <1>5, <2>1
    <3> QED
      BY <1>1, <1>4, <2>1, <3>1
  <2>2. CASE s \in 0..(k - 1) /\ t = k
    BY <1>2, <1>4, <2>2
  <2>3. CASE s \in 0..(k - 1) /\ t \in 0..(k - 1)
    BY <1>2, <1>4, <1>5, <2>3
  <2> QED
    BY <1>3, <2>1, <2>2, <2>3
<1>6. ASSUME NEW t \in 0..k, NEW x \in ToTake(g)
      PROVE  TempElem(words2, t) <= Elem(words2, x)
  <2>1. x \in ToTake(f) /\ Elem(words2, x) = Elem(words, x)
    OBVIOUS
  <2>2. CASE t = k
    BY <1>4, <2>1, <2>2
  <2>3. CASE t \in 0..(k - 1)
    BY <1>2, <1>4, <2>1, <2>3
  <2> QED
    BY <1>3, <2>2, <2>3
<1>7. ASSUME NEW v \in Values
      PROVE  Cardinality({t \in 0..k : TempElem(words2, t) = v})
               = Cardinality({x \in TakenFrom(g) : Elem(words2, x) = v})
  <2> DEFINE A == {t \in 0..(k - 1) : TempElem(words, t) = v}
             B == {x \in TakenFrom(f) : Elem(words, x) = v}
             A2 == {t \in 0..k : TempElem(words2, t) = v}
             B2 == {x \in TakenFrom(g) : Elem(words2, x) = v}
  <2>1. \A x \in TakenFrom(g) : Elem(words2, x) = Elem(words, x)
    OBVIOUS
  <2>2. Cardinality(A) = Cardinality(B) /\ k \notin A /\ from \notin B
    BY <1>2, <1>3
  <2>3. IsFiniteSet(A) /\ IsFiniteSet(B)
    <3>1. IsFiniteSet(0..(k - 1)) /\ IsFiniteSet(0..(N - 1))
      BY <1>1, FS_Interval
    <3>2. A \in SUBSET (0..(k - 1)) /\ B \in SUBSET (0..(N - 1))
      OBVIOUS
    <3> QED
      BY <3>1, <3>2, FS_Subset
  <2>4. CASE Elem(words, from) = v
    <3>1. A2 = A \cup {k}
      BY <1>3, <1>4, <2>4
    <3>2. B2 = B \cup {from}
      BY <2>1, <2>4
    <3> HIDE DEF A, B, A2, B2
    <3>3. Cardinality(A2) = Cardinality(B2)
      BY <2>2, <2>3, <3>1, <3>2, OneMoreEach
    <3> QED
      BY <3>3 DEF A2, B2
  <2>5. CASE Elem(words, from) # v
    <3>1. A2 = A
      BY <1>3, <1>4, <2>5
    <3>2. B2 = B
      BY <2>1, <2>5
    <3> QED
      BY <2>2, <3>1, <3>2
  <2> QED
    BY <2>4, <2>5
<1> QED
  BY <1>1, <1>5, <1>6, <1>7 DEF Took

\* The copy back orders the part, and loses nothing.
LEMMA CopiedBack ==
  ASSUME NEW f, Fits(f), f.proc = "merge", f.step = "loop", f.k = f.hi - f.lo + 1,
         NEW words, Took(words, f), NoneLost(words),
         NEW words2, \A x \in 0..(N - 1) : Elem(words2, x) =
           IF x \in f.lo..f.hi THEN TempElem(words, x - f.lo) ELSE Elem(words, x)
  PROVE  Ordered(words2, f.lo, f.hi) /\ NoneLost(words2)
<1> DEFINE lo == f.lo
           hi == f.hi
           T == 0..(f.k - 1)
           part == lo..hi
           all == 0..(N - 1)
<1>1. lo \in Nat /\ hi \in Nat /\ lo <= hi /\ hi < N /\ N \in Nat
      /\ MidOf(f) \in Nat /\ lo <= MidOf(f) /\ MidOf(f) <= hi
  BY BoundsOf, Places
<1>2. /\ f.i \in lo..(MidOf(f) + 1) /\ f.j \in (MidOf(f) + 1)..(hi + 1)
      /\ f.k = (f.i - lo) + (f.j - MidOf(f) - 1)
  BY DEF Fits, MidOf
<1>3. f.k = hi - lo + 1 /\ T = 0..(hi - lo)
  BY <1>1
<1>4. f.i = MidOf(f) + 1 /\ f.j = hi + 1
  <2> DEFINE mid == MidOf(f)
  <2>1. f.i \in Int /\ f.j \in Int /\ f.i <= mid + 1 /\ f.j <= hi + 1
    BY <1>1, <1>2
  <2>2. (f.i - lo) + (f.j - mid - 1) = hi - lo + 1
    BY <1>2, <1>3
  <2> HIDE DEF mid, lo, hi
  <2>3. lo \in Nat /\ hi \in Nat /\ mid \in Nat
    BY <1>1 DEF mid
  <2>4. f.i = mid + 1 /\ f.j = hi + 1
    BY <2>1, <2>2, <2>3
  <2> QED
    BY <2>4 DEF mid
<1>5. TakenFrom(f) = part
  <2>1. TakenFrom(f) = (lo..MidOf(f)) \cup ((MidOf(f) + 1)..hi)
    BY <1>1, <1>4 DEF TakenFrom
  <2> QED
    BY <1>1, <2>1
<1>6. /\ \A s, t \in T : s <= t => TempElem(words, s) <= TempElem(words, t)
      /\ \A v \in Values : Cardinality({t \in T : TempElem(words, t) = v})
                         = Cardinality({x \in part : Elem(words, x) = v})
  BY <1>5 DEF Took
<1>7. \A x \in all : Elem(words2, x) =
        IF x \in part THEN TempElem(words, x - lo) ELSE Elem(words, x)
  OBVIOUS
<1> HIDE DEF lo, hi, T
<1>8. part \subseteq all /\ \A x \in part : x - lo \in T
  BY <1>1, <1>3
<1>9. \A t \in T : lo + t \in part /\ (lo + t) - lo = t
  BY <1>1, <1>3
<1>10. Ordered(words2, lo, hi)
  <2> SUFFICES ASSUME NEW a \in part, NEW b \in part, a <= b
               PROVE  Elem(words2, a) <= Elem(words2, b)
    BY DEF Ordered
  <2>1. a - lo <= b - lo
    BY <1>1
  <2> QED
    BY <1>6, <1>7, <1>8, <2>1
<1> HIDE DEF part, all
<1>11. IsFiniteSet(T) /\ IsFiniteSet(all)
  BY <1>1, <1>3, FS_Interval DEF all
<1>12. ASSUME NEW v \in Values
       PROVE  Cardinality({x \in all : Elem(words2, x) = v})
                = Cardinality({x \in all : Elem(words, x) = v})
  <2> DEFINE A == {t \in T : TempElem(words, t) = v}
             B == {x \in part : Elem(words, x) = v}
             B2 == {x \in part : Elem(words2, x) = v}
             C == {x \in all \ part : Elem(words, x) = v}
             to == [t \in A |-> lo + t]
  <2>1. A \in SUBSET T /\ B \in SUBSET all /\ B2 \in SUBSET all /\ C \in SUBSET all
    BY <1>8
  <2>2. IsFiniteSet(A) /\ IsFiniteSet(B) /\ IsFiniteSet(C)
    BY <1>11, <2>1, FS_Subset
  <2>3. ExistsBijection(A, B2)
    <3>1. \A t \in A : lo + t \in B2
      <4> SUFFICES ASSUME NEW t \in A
                   PROVE  lo + t \in B2
        OBVIOUS
      <4>1. t \in T /\ TempElem(words, t) = v
        OBVIOUS
      <4>2. lo + t \in part /\ (lo + t) - lo = t /\ lo + t \in all
        BY <1>8, <1>9, <4>1
      <4>3. Elem(words2, lo + t) = TempElem(words, t)
        BY <1>7, <4>2
      <4> QED
        BY <4>1, <4>2, <4>3
    <3>2. to \in [A -> B2]
      BY <3>1
    <3>3. \A s, t \in A : to[s] = to[t] => s = t
      <4>1. \A t \in T : t \in Int
        BY <1>1, <1>3
      <4> QED
        BY <1>1, <4>1
    <3>4. \A x \in B2 : \E t \in A : to[t] = x
      <4> SUFFICES ASSUME NEW x \in B2
                   PROVE  \E t \in A : to[t] = x
        OBVIOUS
      <4>1. x \in part /\ x \in all /\ Elem(words2, x) = v
        BY <1>8
      <4>2. x - lo \in T /\ lo + (x - lo) = x
        BY <1>1, <1>8, <4>1 DEF part
      <4>3. TempElem(words, x - lo) = v
        BY <1>7, <4>1
      <4> QED
        BY <4>2, <4>3
    <3> HIDE DEF to, A, B2
    <3>5. to \in Injection(A, B2)
      BY <3>2, <3>3 DEF Injection, IsInjective
    <3>6. to \in Surjection(A, B2)
      BY <3>2, <3>4 DEF Surjection
    <3> QED
      BY <3>5, <3>6 DEF ExistsBijection, Bijection
  <2>4. IsFiniteSet(B2) /\ Cardinality(B2) = Cardinality(A) /\ Cardinality(A) = Cardinality(B)
    <3>1. Cardinality(A) = Cardinality(B)
      BY <1>6
    <3> HIDE DEF A, B2
    <3> QED
      BY <2>2, <2>3, <3>1, FS_Bijection
  <2>5. {x \in all : Elem(words2, x) = v} = C \cup B2
    BY <1>7, <1>8
  <2>6. {x \in all : Elem(words, x) = v} = C \cup B
    BY <1>8
  <2>7. C \cap B2 = {} /\ C \cap B = {}
    OBVIOUS
  <2> HIDE DEF A, B, B2, C
  <2>8. /\ Cardinality(C \cup B2) = Cardinality(C) + Cardinality(B2) - Cardinality({})
        /\ Cardinality(C \cup B) = Cardinality(C) + Cardinality(B) - Cardinality({})
    BY <2>2, <2>4, <2>7, FS_Union
  <2> QED
    BY <2>4, <2>5, <2>6, <2>8
<1>13. NoneLost(words2)
  BY <1>12 DEF NoneLost, all
<1> QED
  BY <1>10, <1>13 DEF lo, hi

-----------------------------------------------------------------------------
(* The steps of the sort *)

\* The elements are inside the list, and are numbers.
LEMMA ElementsInside ==
  /\ \A x \in 0..(N - 1) : 1 + 3 * x \in 0..(Base - 1) /\ 1 + 3 * x \in Addresses
  /\ \A x \in 0..(N - 1) : mem \in [Addresses -> Nat] => Elem(mem, x) \in Nat
<1>1. \A x \in 0..(N - 1) : 1 + 3 * x \in 0..(Base - 1) /\ 1 + 3 * x \in Addresses
  BY Places
<1> QED
  BY <1>1 DEF Elem

\* The elements that a step keeps.
LEMMA ElementsKept ==
  ASSUME ListKept
  PROVE  \A x \in 0..(N - 1) : Elem(mem', x) = Elem(mem, x)
BY ElementsInside DEF ListKept, Elem

LEMMA NoneLostStays ==
  ASSUME NoneLost(mem), \A x \in 0..(N - 1) : Elem(mem', x) = Elem(mem, x)
  PROVE  NoneLost(mem')
<1>1. \A v : {x \in 0..(N - 1) : Elem(mem', x) = v} = {x \in 0..(N - 1) : Elem(mem, x) = v}
  OBVIOUS
<1> QED
  BY <1>1 DEF NoneLost

\* What has to be shown of the next state.
LEMMA SortNext ==
  ASSUME Nested', \A c \in 1..Len(calls') : HalfDone(mem', calls'[c]),
         PartDone(mem', Top'), Merges(mem', Top'), Took(mem', Top'), NoneLost(mem'),
         input' = input
  PROVE  SortInv'
BY DEF SortInv, HalfDone, PartDone, Merges, Took, NoneLost, Ordered, Elem, TempElem,
       MidOf, Begins, Ends, ToTake, TakenFrom

\* A call starts another one, which has nothing to keep yet.
LEMMA SortCall ==
  ASSUME FramesInv, CallsInv, SortInv, calls # <<>>, NEW step, NEW f, f.step = "enter",
         NEW top, top = [Top EXCEPT !.step = step], Fits(top), Fits(f),
         Top.proc # "main" \/ Len(calls) = 1, f.lo = Begins(top), f.hi = Ends(top),
         Call(step, f), mem' = mem, input' = input, HalfDone(mem, top), Merges(mem, f)
  PROVE  SortInv'
<1> DEFINE n == Len(calls)
<1>1. n \in Nat \ {0}
  BY PartOf
<1>2. /\ Nested' /\ Len(calls') = n + 1 /\ calls'[n + 1] = f /\ calls'[n] = top
      /\ \A c \in 1..(n - 1) : calls'[c] = calls[c]
  BY NestedCall DEF SortInv
<1> HIDE DEF n
<1>3. Top' = f
  BY <1>2 DEF Top
<1>4. ASSUME NEW c \in 1..(n + 1)
      PROVE  HalfDone(mem', calls'[c])
  <2>1. c = n + 1 \/ c = n \/ c \in 1..(n - 1)
    BY <1>1
  <2>2. c \in 1..(n - 1) => c \in 1..Len(calls)
    BY <1>1 DEF n
  <2>3. HalfDone(mem, f)
    BY DEF HalfDone
  <2> QED
    BY <1>2, <2>1, <2>2, <2>3 DEF SortInv
<1>5. PartDone(mem', Top') /\ Took(mem', Top')
  BY <1>3 DEF PartDone, Took
<1> QED
  BY <1>2, <1>3, <1>4, <1>5, SortNext DEF SortInv

\* A step of the call on top changes the elements of its part at most.
LEMMA SortTop ==
  ASSUME FramesInv, CallsInv, SortInv, calls # <<>>, NEW f \in Frames, f.lo = Top.lo, f.hi = Top.hi,
         calls' = [calls EXCEPT ![Len(calls)] = f], input' = input,
         \A x \in 0..(N - 1) : x \notin Top.lo..Top.hi => Elem(mem', x) = Elem(mem, x),
         HalfDone(mem', f), PartDone(mem', f), Merges(mem', f), Took(mem', f), NoneLost(mem')
  PROVE  SortInv'
<1> DEFINE n == Len(calls)
<1>1. n \in Nat \ {0}
  BY PartOf
<1>2. /\ Nested' /\ Len(calls') = n /\ Top' = f /\ calls'[n] = f
      /\ \A c \in 1..(n - 1) : calls'[c] = calls[c]
  BY NestedTop DEF SortInv
<1>3. \A c \in 1..(n - 1) : HalfDone(mem', calls[c])
  BY HalvesKept DEF SortInv
<1> HIDE DEF n
<1>4. ASSUME NEW c \in 1..n
      PROVE  HalfDone(mem', calls'[c])
  <2>1. c = n \/ c \in 1..(n - 1)
    BY <1>1
  <2> QED
    BY <1>2, <1>3, <2>1
<1> QED
  BY <1>2, <1>4, SortNext

\* A call returns when its part is ordered.
LEMMA SortReturn ==
  ASSUME FramesInv, CallsInv, SortInv, calls # <<>>, Return, input' = input,
         \A x \in 0..(N - 1) : Elem(mem', x) = Elem(mem, x), Ordered(mem, Top.lo, Top.hi)
  PROVE  SortInv'
<1> SUFFICES ASSUME calls' # <<>>
             PROVE  SortInv'
  BY DEF SortInv
<1> DEFINE n == Len(calls)
           g == calls[n - 1]
<1>1. n \in Nat \ {0} /\ Top.lo \in Nat /\ Top.hi \in Nat /\ Top.hi < N /\ N \in Nat
  BY PartOf, Places
<1>2. /\ Nested' /\ Len(calls') = n - 1 /\ \A c \in 1..(n - 1) : calls'[c] = calls[c]
      /\ Top' = g /\ n - 1 \in 1..n
      /\ Top.lo = Begins(Top') /\ Top.hi = Ends(Top')
  BY NestedReturn DEF SortInv
<1>3. \A c \in 1..(n - 1) : HalfDone(mem', calls[c])
  BY HalvesKept DEF SortInv
<1>4. Ordered(mem', Top.lo, Top.hi)
  <2>1. \A x \in Top.lo..Top.hi : x \in 0..(N - 1)
    BY <1>1
  <2> QED
    BY <1>1, <2>1, OrderedKept
<1>5. PartDone(mem', g)
  BY <1>2, <1>4 DEF PartDone
<1>6. g.proc # "merge"
  BY <1>1, <1>2 DEF CallsInv
<1>7. Merges(mem', g) /\ Took(mem', g)
  BY <1>6 DEF Merges, Took
<1>8. NoneLost(mem')
  BY NoneLostStays DEF SortInv
<1> HIDE DEF g
<1> QED
  BY <1>2, <1>3, <1>5, <1>7, <1>8, SortNext

\* The calls that start others.
LEMMA StartsSort ==
  ASSUME FramesInv, CallsInv, SortInv, MainSort \/ SortLeft \/ SortRight \/ SortMerge
  PROVE  SortInv'
<1>1. /\ calls # <<>> /\ Len(calls) \in Nat \ {0} /\ Top \in Frames /\ Fits(Top)
      /\ mem' = mem /\ input' = input
  BY PartOf DEF MainSort, SortLeft, SortRight, SortMerge, At
<1>2. CASE MainSort
  <2> DEFINE top == [Top EXCEPT !.step = "sorted"]
             f == Frame("mergesort", 0, N - 1)
  <2>1. Top.proc = "main" /\ Call("sorted", f)
    BY <1>2 DEF MainSort, At
  <2>2. Fits(top)
    BY <1>1, <2>1, StepFits
  <2>3. Fits(f) /\ f.step = "enter" /\ f.lo = 0 /\ f.hi = N - 1 /\ f.proc = "mergesort"
    <3>1. 0 \in Nat /\ N - 1 \in Nat /\ 0 <= N - 1 /\ N - 1 < N
      BY Places
    <3> QED
      BY <3>1, NewPart DEF Frame
  <2>4. top.proc = "main"
    BY <1>1, <2>1 DEF Frames
  <2>5. Begins(top) = 0 /\ Ends(top) = N - 1
    BY <2>4 DEF Begins, Ends
  <2>6. Len(calls) = 1
    <3>1. Len(calls) \in 1..Len(calls)
      BY <1>1
    <3> QED
      BY <2>1, <3>1 DEF CallsInv, Top
  <2> HIDE DEF f
  <2>7. HalfDone(mem, top) /\ Merges(mem, f)
    BY <2>3, <2>4 DEF HalfDone, Merges
  <2>8. top = [Top EXCEPT !.step = "sorted"]
    OBVIOUS
  <2> HIDE DEF top
  <2> QED
    BY <1>1, <2>1, <2>2, <2>3, <2>5, <2>6, <2>7, <2>8, SortCall
<1>3. ASSUME SortLeft \/ SortRight \/ SortMerge
      PROVE  SortInv'
  <2>1. Top.proc = "mergesort" /\ Top.step # "enter"
    BY <1>3 DEF SortLeft, SortRight, SortMerge, At
  <2>2. Top.lo < Top.hi /\ MidOf(Top) = Mid
    BY <1>1, <2>1 DEF Fits, Mid, MidOf
  <2>3. ASSUME NEW step \in {"right", "merge", "leave"}
        PROVE  LET top == [Top EXCEPT !.step = step]
               IN /\ Fits(top) /\ top.proc = "mergesort" /\ top.step = step
                  /\ top.lo = Top.lo /\ top.hi = Top.hi /\ MidOf(top) = Mid
    <3>1. Fits([Top EXCEPT !.step = step])
      BY <1>1, <2>2, StepFits
    <3> QED
      BY <1>1, <2>1, <3>1 DEF Frames, MidOf, Mid
  <2>4. /\ Top.lo \in Nat /\ Top.hi \in Nat /\ Mid \in Nat /\ Mid + 1 \in Nat
        /\ Top.lo <= Mid /\ Mid < N /\ Mid + 1 <= Top.hi /\ Top.hi < N /\ Top.lo <= Top.hi
    BY <1>1, <2>2, PartOf, Places
  <2>5. PartDone(mem, Top) /\ HalfDone(mem, Top)
    <3>1. Len(calls) \in 1..Len(calls)
      BY <1>1
    <3> QED
      BY <1>1, <3>1 DEF SortInv, Top
  <2>6. CASE SortLeft
    <3> DEFINE top == [Top EXCEPT !.step = "right"]
               f == Frame("mergesort", Top.lo, Mid)
    <3>1. Fits(top) /\ top.proc = "mergesort" /\ top.step = "right"
          /\ top.lo = Top.lo /\ MidOf(top) = Mid
      BY <2>3
    <3>2. Fits(f) /\ f.step = "enter" /\ f.lo = Top.lo /\ f.hi = Mid /\ f.proc = "mergesort"
      BY <2>4, NewPart DEF Frame
    <3>3. top = [Top EXCEPT !.step = "right"] /\ Call("right", f)
      BY <2>6 DEF SortLeft
    <3> HIDE DEF top, f
    <3>4. Begins(top) = Top.lo /\ Ends(top) = Mid
      BY <3>1 DEF Begins, Ends
    <3>5. HalfDone(mem, top) /\ Merges(mem, f)
      BY <3>1, <3>2 DEF HalfDone, Merges
    <3> QED
      BY <1>1, <2>1, <3>1, <3>2, <3>3, <3>4, <3>5, SortCall
  <2>7. CASE SortRight
    <3> DEFINE top == [Top EXCEPT !.step = "merge"]
               f == Frame("mergesort", Mid + 1, Top.hi)
    <3>1. Fits(top) /\ top.proc = "mergesort" /\ top.step = "merge"
          /\ top.lo = Top.lo /\ top.hi = Top.hi /\ MidOf(top) = Mid
      BY <2>3
    <3>2. Fits(f) /\ f.step = "enter" /\ f.lo = Mid + 1 /\ f.hi = Top.hi /\ f.proc = "mergesort"
      BY <2>4, NewPart DEF Frame
    <3>3. top = [Top EXCEPT !.step = "merge"] /\ Call("merge", f) /\ Top.step = "right"
      BY <2>7 DEF SortRight, At
    <3> HIDE DEF top, f
    <3>4. Begins(top) = Mid + 1 /\ Ends(top) = Top.hi
      BY <3>1 DEF Begins, Ends
    <3>5. Ordered(mem, Top.lo, Mid)
      BY <2>1, <2>2, <2>5, <3>3 DEF PartDone, Begins, Ends
    <3>6. HalfDone(mem, top) /\ Merges(mem, f)
      BY <3>1, <3>2, <3>5 DEF HalfDone, Merges
    <3> QED
      BY <1>1, <2>1, <3>1, <3>2, <3>3, <3>4, <3>6, SortCall
  <2>8. CASE SortMerge
    <3> DEFINE top == [Top EXCEPT !.step = "leave"]
               f == Frame("merge", Top.lo, Top.hi)
    <3>1. Fits(top) /\ top.proc = "mergesort" /\ top.step = "leave"
          /\ top.lo = Top.lo /\ top.hi = Top.hi
      BY <2>3
    <3>2. Fits(f) /\ f.step = "enter" /\ f.lo = Top.lo /\ f.hi = Top.hi /\ f.proc = "merge"
      BY <2>4, NewPart DEF Frame
    <3>3. top = [Top EXCEPT !.step = "leave"] /\ Call("leave", f) /\ Top.step = "merge"
      BY <2>8 DEF SortMerge, At
    <3> HIDE DEF top, f
    <3>4. Begins(top) = Top.lo /\ Ends(top) = Top.hi
      BY <3>1 DEF Begins, Ends
    <3>5. Ordered(mem, Top.lo, Mid) /\ Ordered(mem, Mid + 1, Top.hi)
      BY <2>1, <2>2, <2>5, <3>3 DEF PartDone, HalfDone, Begins, Ends
    <3>6. HalfDone(mem, top) /\ Merges(mem, f)
      BY <3>1, <3>2, <3>5 DEF HalfDone, Merges, MidOf, Mid
    <3> QED
      BY <1>1, <2>1, <3>1, <3>2, <3>3, <3>4, <3>6, SortCall
  <2> QED
    BY <1>3, <2>6, <2>7, <2>8
<1> QED
  BY <1>2, <1>3

\* mergesort begins; a list of one element is ordered.
LEMMA EntersSort ==
  ASSUME FramesInv, CallsInv, SortInv, mem \in [Addresses -> Nat], SortEnter
  PROVE  SortInv'
<1>1. /\ calls # <<>> /\ Top.proc = "mergesort" /\ mem' = mem /\ input' = input
      /\ IF Top.lo >= Top.hi THEN Return ELSE Goto("left")
  BY DEF SortEnter, At
<1>2. /\ Top \in Frames /\ Fits(Top) /\ Top.lo \in Nat /\ Top.hi \in Nat /\ Top.lo <= Top.hi
      /\ Top.hi < N
  BY <1>1, PartOf
<1>3. CASE Top.lo >= Top.hi /\ Return
  <2>1. Ordered(mem, Top.lo, Top.hi)
    <3>1. \A a, b \in Top.lo..Top.hi : a = b
      BY <1>2, <1>3
    <3>2. \A a \in Top.lo..Top.hi : Elem(mem, a) <= Elem(mem, a)
      <4> SUFFICES ASSUME NEW a \in Top.lo..Top.hi
                   PROVE  Elem(mem, a) <= Elem(mem, a)
        OBVIOUS
      <4>1. a \in 0..(N - 1)
        BY <1>2, Places
      <4> QED
        BY <4>1, ElementsInside
    <3> QED
      BY <3>1, <3>2 DEF Ordered
  <2> QED
    BY <1>1, <1>3, <2>1, SortReturn
<1>4. CASE ~(Top.lo >= Top.hi) /\ Goto("left")
  <2> DEFINE f == [Top EXCEPT !.step = "left"]
  <2>1. f \in Frames /\ f.lo = Top.lo /\ f.hi = Top.hi /\ f.step = "left"
    BY <1>2 DEF Frames
  <2>2. calls' = [calls EXCEPT ![Len(calls)] = f]
    BY <1>4 DEF Goto, Top
  <2> HIDE DEF f
  <2>3. HalfDone(mem', f) /\ PartDone(mem', f) /\ Merges(mem', f) /\ Took(mem', f)
    BY <2>1 DEF HalfDone, PartDone, Merges, Took
  <2>4. NoneLost(mem')
    BY <1>1 DEF SortInv
  <2> QED
    BY <1>1, <2>1, <2>2, <2>3, <2>4, SortTop
<1> QED
  BY <1>1, <1>3, <1>4

\* mergesort and merge return at their last step.
LEMMA LeavesSort ==
  ASSUME FramesInv, CallsInv, SortInv, SortLeave \/ MergeLeave, ListKept
  PROVE  SortInv'
<1>1. /\ calls # <<>> /\ Top.proc \in {"mergesort", "merge"} /\ Top.step = "leave"
      /\ Return /\ input' = input
  BY DEF SortLeave, MergeLeave, At
<1>2. PartDone(mem, Top)
  BY <1>1 DEF SortInv
<1>3. Ordered(mem, Top.lo, Top.hi)
  BY <1>1, <1>2 DEF PartDone, Begins, Ends
<1> QED
  BY <1>1, <1>3, ElementsKept, SortReturn

\* merge begins with nothing taken.
LEMMA EntersMerge ==
  ASSUME FramesInv, CallsInv, SortInv, MergeEnter, ListKept
  PROVE  SortInv'
<1> DEFINE entered == [Top EXCEPT !.step = "loop"]
           f == [entered EXCEPT !.i = Top.lo, !.j = Mid + 1]
<1>1. /\ calls # <<>> /\ Top.proc = "merge" /\ Top.step = "enter"
      /\ calls' = [calls EXCEPT ![Len(calls)] = f] /\ input' = input
  BY DEF MergeEnter, At, Top
<1>2. /\ Top \in Frames /\ Fits(Top) /\ Top.lo \in Nat /\ Top.hi \in Nat /\ Mid \in Nat
      /\ Top.lo <= Mid /\ Mid <= Top.hi /\ Top.hi < N /\ N \in Nat
  BY <1>1, PartOf, Places
<1>3. Top.lo \in 0..N /\ Mid + 1 \in 0..N /\ Top.k = 0
  BY <1>1, <1>2 DEF Fits
<1>4. entered \in Frames /\ entered.lo = Top.lo /\ entered.hi = Top.hi
      /\ entered.proc = Top.proc /\ entered.step = "loop" /\ entered.k = Top.k
  BY <1>2 DEF Frames
<1> HIDE DEF entered
<1>5. /\ f \in Frames /\ f.lo = Top.lo /\ f.hi = Top.hi /\ f.proc = "merge" /\ f.step = "loop"
      /\ f.k = 0 /\ f.i = Top.lo /\ f.j = Mid + 1
  BY <1>1, <1>3, <1>4 DEF Frames
<1> HIDE DEF f
<1>6. MidOf(f) = Mid /\ MidOf(Top) = Mid
  BY <1>5 DEF MidOf, Mid
<1>7. \A x \in 0..(N - 1) : Elem(mem', x) = Elem(mem, x)
  BY ElementsKept
<1>8. Ordered(mem', f.lo, MidOf(f)) /\ Ordered(mem', MidOf(f) + 1, f.hi)
  <2>1. Merges(mem, Top)
    BY <1>1 DEF SortInv
  <2>2. Ordered(mem, Top.lo, Mid) /\ Ordered(mem, Mid + 1, Top.hi)
    BY <1>1, <1>6, <2>1 DEF Merges
  <2>3. /\ \A x \in Top.lo..Mid : x \in 0..(N - 1)
        /\ \A x \in (Mid + 1)..Top.hi : x \in 0..(N - 1)
    BY <1>2
  <2>4. Ordered(mem', Top.lo, Mid)
    BY <1>2, <1>7, <2>2, <2>3, OrderedKept
  <2>5. Mid + 1 \in Nat /\ Top.hi \in Int
    BY <1>2
  <2>6. Ordered(mem', Mid + 1, Top.hi)
    BY <1>7, <2>2, <2>3, <2>5, OrderedKept
  <2> QED
    BY <1>5, <1>6, <2>4, <2>6
<1>9. Took(mem', f)
  <2>1. 0..(f.k - 1) = {}
    BY <1>5
  <2>2. TakenFrom(f) = {}
    BY <1>2, <1>5, <1>6 DEF TakenFrom
  <2>3. \A v : {t \in 0..(f.k - 1) : TempElem(mem', t) = v}
                 = {x \in TakenFrom(f) : Elem(mem', x) = v}
    BY <2>1, <2>2
  <2> QED
    BY <2>1, <2>3 DEF Took
<1>10. HalfDone(mem', f) /\ PartDone(mem', f) /\ Merges(mem', f)
  BY <1>5, <1>8 DEF HalfDone, PartDone, Merges
<1>11. NoneLost(mem')
  BY <1>1, <1>7, NoneLostStays DEF SortInv
<1> QED
  BY <1>1, <1>5, <1>7, <1>9, <1>10, <1>11, SortTop

\* A turn of merge.
LEMMA TurnsMerge ==
  ASSUME IInv, FramesInv, MemInv, SortInv, ListKept, MergeTurn
  PROVE  SortInv'
<1> DEFINE f == Top
           fromRight == [Top EXCEPT !.j = Top.j + 1, !.k = Top.k + 1]
           fromLeft == [Top EXCEPT !.i = Top.i + 1, !.k = Top.k + 1]
           g == IF TakesRight THEN fromRight ELSE fromLeft
           right == TakesRight
<1>1. /\ calls # <<>> /\ f.proc = "merge" /\ f.step = "loop" /\ f.k < Length
      /\ calls' = [calls EXCEPT ![Len(calls)] = g] /\ input' = input
  BY DEF MergeTurn, At
<1>2. /\ Merging /\ Smaller \in Nat /\ NextWord \in Addresses /\ Base < NextWord
      /\ mem' = [mem EXCEPT ![NextWord] = mem[0 + 1 + 3 * Smaller]]
  BY MergeTurnWord
<1>3. /\ f \in Frames /\ Fits(f) /\ f.lo \in Nat /\ f.hi \in Nat /\ Mid \in Nat /\ f.lo <= Mid
      /\ Mid <= f.hi /\ f.hi < N /\ N \in Nat /\ MidOf(f) = Mid /\ Length = f.hi - f.lo + 1
      /\ Length <= N
  BY <1>1, PartOf, Places DEF MidOf, Mid, Length
<1>4. /\ f.i \in f.lo..(Mid + 1) /\ f.j \in (Mid + 1)..(f.hi + 1) /\ f.k \in Nat
      /\ f.i \in Nat /\ f.j \in Nat /\ f.k + 1 <= N
      /\ f.k = (f.i - f.lo) + (f.j - Mid - 1)
  <2>1. /\ f.i \in f.lo..(Mid + 1) /\ f.j \in (Mid + 1)..(f.hi + 1)
        /\ f.k = (f.i - f.lo) + (f.j - Mid - 1)
    BY <1>1, <1>3 DEF Fits, Mid
  <2>2. f.k \in Nat /\ f.i \in Nat /\ f.j \in Nat
    BY <1>3, <2>1
  <2> QED
    BY <1>1, <1>3, <2>1, <2>2
<1>5. mem \in [Addresses -> Nat] /\ \A x \in 0..(N - 1) : Elem(mem, x) \in Nat
  BY ElementsInside DEF MemInv
<1>6. \A k : Value("MyList", k) = mem[0 + 1 + 3 * k]
  BY <1>1, <1>2, NamesInside DEF Value
<1>7. /\ Value("MyList", f.i) = Elem(mem, f.i) /\ Value("MyList", f.j) = Elem(mem, f.j)
  BY <1>4, <1>6 DEF Elem
<1>8. /\ right <=> \/ f.i > Mid
                   \/ f.j <= f.hi /\ Elem(mem, f.j) < Elem(mem, f.i)
      /\ right \in BOOLEAN
  BY <1>7 DEF TakesRight
<1>9. right => f.j <= f.hi /\ (f.i > MidOf(f) \/ Elem(mem, f.j) < Elem(mem, f.i))
  <2> SUFFICES ASSUME right
               PROVE  f.j <= f.hi /\ (f.i > Mid \/ Elem(mem, f.j) < Elem(mem, f.i))
    BY <1>3
  <2>1. CASE f.i > Mid
    <3>1. f.i = Mid + 1
      BY <1>3, <1>4, <2>1
    <3>2. f.j <= f.hi
      BY <1>1, <1>3, <1>4, <3>1
    <3> QED
      BY <2>1, <3>2
  <2>2. CASE f.j <= f.hi /\ Elem(mem, f.j) < Elem(mem, f.i)
    BY <2>2
  <2> QED
    BY <1>8, <2>1, <2>2
<1>10. ~right => f.i <= MidOf(f) /\ (f.j > f.hi \/ ~ (Elem(mem, f.j) < Elem(mem, f.i)))
  <2>1. ~(f.i > Mid) => f.i <= Mid
    BY <1>3, <1>4
  <2>2. ~(f.j <= f.hi) => f.j > f.hi
    BY <1>3, <1>4
  <2> QED
    BY <1>3, <1>8, <2>1, <2>2
<1>11. Smaller = IF right THEN f.j ELSE f.i
  BY DEF Smaller
<1>12. /\ g \in Frames /\ g.lo = f.lo /\ g.hi = f.hi /\ g.proc = "merge" /\ g.step = "loop"
       /\ g.i = (IF right THEN f.i ELSE f.i + 1) /\ g.j = (IF right THEN f.j + 1 ELSE f.j)
       /\ g.k = f.k + 1
  <2>1. f.k + 1 \in 0..N
    BY <1>3, <1>4
  <2>2. CASE right
    <3>1. f.j + 1 \in 0..N
      BY <1>3, <1>4, <1>9, <2>2
    <3> QED
      BY <1>1, <1>3, <2>1, <2>2, <3>1 DEF Frames
  <2>3. CASE ~right
    <3>1. f.i + 1 \in 0..N
      BY <1>3, <1>4, <1>10, <2>3
    <3> QED
      BY <1>1, <1>3, <2>1, <2>3, <3>1 DEF Frames
  <2> QED
    BY <2>2, <2>3
<1> HIDE DEF g, right, f
<1>13. Merges(mem, f) /\ Took(mem, f) /\ NoneLost(mem)
  BY <1>1 DEF SortInv, f
<1>14. /\ Smaller \in ToTake(f) /\ ToTake(f) \subseteq 0..(N - 1) /\ ToTake(g) \subseteq ToTake(f)
       /\ \A x \in ToTake(g) : Elem(mem, Smaller) <= Elem(mem, x)
       /\ TakenFrom(g) = TakenFrom(f) \cup {Smaller} /\ Smaller \notin TakenFrom(f)
       /\ TakenFrom(f) \subseteq 0..(N - 1)
  BY <1>1, <1>3, <1>5, <1>8, <1>9, <1>10, <1>11, <1>12, <1>13, TakesNext
<1>15. \A x \in 0..(N - 1) : Elem(mem', x) = Elem(mem, x)
  BY ElementsKept
<1>16. /\ \A t \in 0..(f.k - 1) : TempElem(mem', t) = TempElem(mem, t)
       /\ \A t \in 0..(f.k - 1) : TempElem(mem, t) \in Nat
       /\ TempElem(mem', f.k) = Elem(mem, Smaller)
  <2>1. NextWord = Base + 1 + 3 * f.k
    BY DEF NextWord, f
  <2>2. 0 + 1 + 3 * Smaller = 1 + 3 * Smaller
    BY <1>2
  <2>3. mem'[Base + 1 + 3 * f.k] = mem[1 + 3 * Smaller]
    BY <1>2, <1>5, <2>1, <2>2
  <2>4. ASSUME NEW t \in 0..(f.k - 1)
        PROVE  Base + 1 + 3 * t # NextWord /\ Base + 1 + 3 * t \in Addresses
    <3>1. t \in Nat /\ t < f.k
      BY <1>4
    <3>2. Base + 1 + 3 * t \in Nat /\ Base + 1 + 3 * t < NextWord
      BY <1>4, <2>1, <3>1, Places
    <3> QED
      BY <1>2, <3>2, Places DEF Addresses
  <2> QED
    BY <1>2, <1>5, <2>3, <2>4 DEF TempElem, Elem
<1>17. Took(mem', g)
  <2>1. g.k = f.k + 1
    BY <1>12
  <2> QED
    BY <1>1, <1>3, <1>5, <1>13, <1>14, <1>15, <1>16, <2>1, TookOneMore
<1>18. Merges(mem', g)
  <2>1. MidOf(g) = Mid
    BY <1>3, <1>12 DEF MidOf
  <2>2. Ordered(mem, f.lo, Mid) /\ Ordered(mem, Mid + 1, f.hi)
    BY <1>1, <1>3, <1>13 DEF Merges
  <2>3. /\ \A x \in f.lo..Mid : x \in 0..(N - 1)
        /\ \A x \in (Mid + 1)..f.hi : x \in 0..(N - 1)
    BY <1>3
  <2>4. Ordered(mem', f.lo, Mid)
    BY <1>3, <1>15, <2>2, <2>3, OrderedKept
  <2>5. Mid + 1 \in Nat /\ f.hi \in Int
    BY <1>3
  <2>6. Ordered(mem', Mid + 1, f.hi)
    BY <1>15, <2>2, <2>3, <2>5, OrderedKept
  <2> QED
    BY <1>12, <2>1, <2>4, <2>6 DEF Merges
<1>19. HalfDone(mem', g) /\ PartDone(mem', g)
  BY <1>12 DEF HalfDone, PartDone
<1>20. NoneLost(mem')
  BY <1>13, <1>15, NoneLostStays
<1> QED
  BY <1>1, <1>12, <1>15, <1>17, <1>18, <1>19, <1>20, SortTop DEF IInv, f

\* The words of the copy back.
LEMMA CopyWords ==
  ASSUME IInv, FramesInv, MemInv, MergeCopyBack
  PROVE  \A x \in 0..(N - 1) : Elem(mem', x) =
           IF x \in Top.lo..Top.hi THEN TempElem(mem, x - Top.lo) ELSE Elem(mem, x)
<1> DEFINE part == {Address("MyList", Top.lo + k) : k \in 0..(Length - 1)}
           first == Address("MyList", Top.lo)
<1>1. /\ calls # <<>> /\ Top.proc = "merge" /\ Top.step = "loop"
      /\ mem' = [a \in Addresses |-> IF a \in part
                   THEN mem[Address("tempList", 0) + (a - first)] ELSE mem[a]]
  BY DEF MergeCopyBack, At
<1>2. Merging
  BY <1>1 DEF Merging
<1>3. /\ Top.lo \in Nat /\ Top.hi \in Nat /\ Top.lo <= Top.hi /\ Top.hi < N
      /\ Length \in Nat /\ Length = Top.hi - Top.lo + 1
  BY <1>1, PartOf DEF Length
<1>4. first = 1 + 3 * Top.lo /\ Address("tempList", 0) = Base + 1
  <2>1. first = 0 + 1 + 3 * Top.lo /\ Address("tempList", 0) = Base + 1 + 3 * 0
    BY <1>1, <1>2, NamesInside
  <2> QED
    BY <1>3, <2>1, Places
<1>5. part = {0 + 1 + 3 * (Top.lo + k) : k \in 0..(Length - 1)}
  BY <1>1, <1>2, NamesInside
<1>6. \A x \in 0..(N - 1) : 1 + 3 * x \in part <=> x \in Top.lo..Top.hi
  <2> SUFFICES ASSUME NEW x \in 0..(N - 1)
               PROVE  1 + 3 * x \in part <=> x \in Top.lo..Top.hi
    OBVIOUS
  <2>1. x \in Nat
    BY Places
  <2>2. ASSUME 1 + 3 * x \in part
        PROVE  x \in Top.lo..Top.hi
    <3>1. PICK k \in 0..(Length - 1) : 1 + 3 * x = 0 + 1 + 3 * (Top.lo + k)
      BY <1>5, <2>2
    <3>2. x = Top.lo + k
      BY <1>3, <2>1, <3>1
    <3> QED
      BY <1>3, <3>2
  <2>3. ASSUME x \in Top.lo..Top.hi
        PROVE  1 + 3 * x \in part
    <3>1. x - Top.lo \in 0..(Length - 1) /\ Top.lo + (x - Top.lo) = x /\ 0 + 1 + 3 * x = 1 + 3 * x
      BY <1>3, <2>1, <2>3
    <3> QED
      BY <1>5, <3>1
  <2> QED
    BY <2>2, <2>3
<1> HIDE DEF part, first
<1> SUFFICES ASSUME NEW x \in 0..(N - 1)
             PROVE  Elem(mem', x) = IF x \in Top.lo..Top.hi THEN TempElem(mem, x - Top.lo)
                                    ELSE Elem(mem, x)
  OBVIOUS
<1>7. mem'[1 + 3 * x] = IF 1 + 3 * x \in part
        THEN mem[Address("tempList", 0) + ((1 + 3 * x) - first)] ELSE mem[1 + 3 * x]
  BY <1>1, ElementsInside
<1>8. x \in Nat /\ (Base + 1) + ((1 + 3 * x) - (1 + 3 * Top.lo)) = Base + 1 + 3 * (x - Top.lo)
  BY <1>3, Places
<1> QED
  BY <1>4, <1>6, <1>7, <1>8 DEF Elem, TempElem

\* The copy back ends a merge.
LEMMA CopiesMerge ==
  ASSUME IInv, FramesInv, MemInv, SortInv, MergeCopyBack
  PROVE  SortInv'
<1> DEFINE f == [Top EXCEPT !.step = "leave"]
<1>1. /\ calls # <<>> /\ Top.proc = "merge" /\ Top.step = "loop" /\ Top.k = Length
      /\ calls' = [calls EXCEPT ![Len(calls)] = f] /\ input' = input
  BY DEF MergeCopyBack, At, Goto, Top
<1>2. Top \in Frames /\ Fits(Top) /\ Length = Top.hi - Top.lo + 1
  BY <1>1, PartOf DEF Length
<1>3. f \in Frames /\ f.lo = Top.lo /\ f.hi = Top.hi /\ f.proc = "merge" /\ f.step = "leave"
  BY <1>1, <1>2 DEF Frames
<1> HIDE DEF f
<1>4. Took(mem, Top) /\ NoneLost(mem)
  BY <1>1 DEF SortInv
<1>5. \A x \in 0..(N - 1) : Elem(mem', x) =
        IF x \in Top.lo..Top.hi THEN TempElem(mem, x - Top.lo) ELSE Elem(mem, x)
  BY CopyWords
<1>6. Ordered(mem', Top.lo, Top.hi) /\ NoneLost(mem')
  BY <1>1, <1>2, <1>4, <1>5, CopiedBack
<1>7. HalfDone(mem', f) /\ PartDone(mem', f) /\ Merges(mem', f) /\ Took(mem', f)
  BY <1>3, <1>6 DEF HalfDone, PartDone, Merges, Took, Begins, Ends
<1> QED
  BY <1>1, <1>3, <1>5, <1>6, <1>7, SortTop DEF IInv

-----------------------------------------------------------------------------
(* The sort *)

\* The list is the input, and nothing is sorted yet.
LEMMA InitSort == Init => SortInv
<1> SUFFICES ASSUME Init
             PROVE  SortInv
  OBVIOUS
<1> DEFINE f == Frame("main", 0, N - 1)
<1>1. f.proc = "main" /\ f.step = "enter"
  BY DEF Frame
<1>2. calls = <<f>>
  BY DEF Init
<1> HIDE DEF f
<1>3. calls # <<>> /\ Len(calls) = 1 /\ calls[1] = f /\ Top = f
  BY <1>2 DEF Top
<1>4. Nested
  <2>1. \A c, d \in 1..1 : ~(c < d)
    OBVIOUS
  <2> QED
    BY <1>3, <2>1 DEF Nested
<1>5. \A c \in 1..Len(calls) : HalfDone(mem, calls[c])
  <2>1. \A c \in 1..1 : c = 1
    OBVIOUS
  <2> QED
    BY <1>1, <1>3, <2>1 DEF HalfDone
<1>6. PartDone(mem, Top) /\ Merges(mem, Top) /\ Took(mem, Top)
  BY <1>1, <1>3 DEF PartDone, Merges, Took
<1>7. PICK w \in PastEnd : mem = [a \in Addresses |->
        IF a = 0 THEN 2 * (Words(N) + 1) + 1
        ELSE IF a = Words(N) + 1 THEN 2 * (M - Words(N) - 1)
        ELSE IF a \in Inside
             THEN IF a <= Words(N) /\ a % 3 = 1 THEN input[a \div 3] ELSE 0
             ELSE w]
  BY DEF Init
<1>8. ASSUME NEW x \in 0..(N - 1)
      PROVE  Elem(mem, x) = input[x]
  <2> DEFINE a == 1 + 3 * x
  <2>1. x \in Nat /\ x < N /\ N \in Nat /\ M \in Nat /\ Base = 3 * N + 1 /\ Base < M
        /\ Words(N) = 3 * N
    BY Places DEF Words
  <2>2. a \in Nat /\ a # 0 /\ a <= 3 * N /\ a < M
    BY <2>1
  <2>3. a % 3 = 1 /\ a \div 3 = x
    BY <2>1
  <2>4. a \in Addresses
    BY ElementsInside
  <2>5. a \in Inside
    BY <2>1, <2>2 DEF Inside
  <2>6. mem[a] = IF a = 0 THEN 2 * (Words(N) + 1) + 1
                 ELSE IF a = Words(N) + 1 THEN 2 * (M - Words(N) - 1)
                 ELSE IF a \in Inside
                      THEN IF a <= Words(N) /\ a % 3 = 1 THEN input[a \div 3] ELSE 0
                      ELSE w
    BY <1>7, <2>4
  <2>7. a # Words(N) + 1 /\ a <= Words(N)
    BY <2>1, <2>2
  <2> HIDE DEF a
  <2>8. mem[a] = input[x]
    BY <2>2, <2>3, <2>5, <2>6, <2>7
  <2> QED
    BY <2>8 DEF Elem, a
<1>9. NoneLost(mem)
  <2>1. \A v : {x \in 0..(N - 1) : Elem(mem, x) = v} = {x \in 0..(N - 1) : input[x] = v}
    BY <1>8
  <2> QED
    BY <2>1 DEF NoneLost
<1> QED
  BY <1>4, <1>5, <1>6, <1>9 DEF SortInv

\* A step of the program keeps what is sorted, and the elements.
LEMMA SortStays ==
  ASSUME NothingPastEnd, Sound, SortInv, [Next]_vars
  PROVE  SortInv'
<1>1. IInv /\ CallsInv /\ FramesInv /\ MemInv /\ IInv'
  BY NextKeeps DEF Sound, IInv
<1>2. CASE UNCHANGED vars
  <2>1. mem' = mem /\ calls' = calls /\ input' = input /\ Top' = Top
    BY <1>2 DEF vars, Top
  <2>2. CASE calls = <<>>
    BY <2>1, <2>2 DEF SortInv
  <2>3. CASE calls # <<>>
    <3>1. Nested'
      BY <2>1, <2>3 DEF SortInv, Nested, Begins, Ends, MidOf
    <3> QED
      BY <2>1, <2>3, <3>1, SortNext DEF SortInv
  <2> QED
    BY <2>2, <2>3
<1>3. ASSUME SortLeave \/ MergeLeave
      PROVE  SortInv'
  <2>1. calls # <<>> /\ Top.proc # "main" /\ Return
    BY <1>3 DEF SortLeave, MergeLeave, At
  <2>2. calls' # <<>> /\ ~Merging'
    BY <1>1, <2>1, ReturnPops DEF Merging
  <2>3. ListKept
    BY <1>1, <1>3, <2>2, SortLeaveMem, MergeLeaveMem
  <2> QED
    BY <1>1, <1>3, <2>3, LeavesSort
<1>4. ASSUME MergeEnter
      PROVE  SortInv'
  BY <1>1, <1>4, MergeEnterMem, EntersMerge
<1>5. ASSUME MergeTurn
      PROVE  SortInv'
  <2>1. ListKept
    <3>1. /\ NextWord \in Addresses /\ NextWord \in Nat /\ Base < NextWord
          /\ mem' = [mem EXCEPT ![NextWord] = mem[0 + 1 + 3 * Smaller]]
      BY <1>1, <1>5, MergeTurnWord
    <3>2. \A a \in 0..(Base - 1) : a \in Addresses /\ a # NextWord
      BY <3>1, Places DEF Addresses
    <3> QED
      BY <1>1, <3>1, <3>2 DEF ListKept, MemInv
  <2> QED
    BY <1>1, <1>5, <2>1, TurnsMerge
<1>6. ASSUME MergeCopyBack
      PROVE  SortInv'
  BY <1>1, <1>6, CopiesMerge
<1>7. ASSUME MainFree
      PROVE  SortInv'
  <2>1. calls' = <<>>
    BY <1>1, <1>7, ReturnPops DEF MainFree, At
  <2> QED
    BY <2>1 DEF SortInv
<1>8. ASSUME SortEnter
      PROVE  SortInv'
  BY <1>1, <1>8, EntersSort DEF MemInv
<1>9. ASSUME MainSort \/ SortLeft \/ SortRight \/ SortMerge
      PROVE  SortInv'
  BY <1>1, <1>9, StartsSort
<1> QED
  BY <1>2, <1>3, <1>4, <1>5, <1>6, <1>7, <1>8, <1>9 DEF Next

\* What every call has promised.
LEMMA SortKeepsWord == Sound /\ SortInv => CallsSort
<1> SUFFICES ASSUME Sound, SortInv, calls # <<>>
             PROVE  CallsSort
  <2>1. calls = <<>> => DOMAIN calls = {}
    OBVIOUS
  <2> QED
    BY <2>1 DEF CallsSort
<1>1. /\ IInv /\ CallsInv /\ FramesInv /\ MemInv
      /\ Len(calls) \in Nat \ {0} /\ DOMAIN calls = 1..Len(calls)
  BY PartOf DEF Sound, IInv, FramesInv
<1>2. Entry("MyList") = Home /\ struct[Home].start = 0
  <2>1. Scope >= 1 /\ Scope \in Nat /\ Scope \in 1..Scope
    BY <1>1 DEF IInv, ScopesInv, PagesInv, Scope
  <2> QED
    BY <1>1, <2>1 DEF IInv, PagesInv, ListReachable, Entry, Home, MemInv
<1>3. ASSUME NEW x \in Int
      PROVE  Element(x) = Elem(mem, x)
  <2>1. Element(x) = mem[0 + 1 + 3 * x]
    BY <1>2 DEF Element, Value, Address
  <2>2. 0 + 1 + 3 * x = 1 + 3 * x
    OBVIOUS
  <2> QED
    BY <2>1, <2>2 DEF Elem
<1>4. ASSUME NEW lo \in Int, NEW hi \in Int, Ordered(mem, lo, hi)
      PROVE  Sorted(lo, hi)
  <2>1. \A x \in lo..hi : Element(x) = Elem(mem, x)
    BY <1>3
  <2> QED
    BY <1>4, <2>1 DEF Sorted, Ordered
<1>5. ASSUME NEW v \in Values
      PROVE  Cardinality({k \in 0..(N - 1) : Element(k) = v})
               = Cardinality({k \in 0..(N - 1) : input[k] = v})
  <2>1. {k \in 0..(N - 1) : Element(k) = v} = {k \in 0..(N - 1) : Elem(mem, k) = v}
    BY <1>3, Places
  <2> QED
    BY <2>1 DEF SortInv, NoneLost
<1>6. ASSUME NEW c \in DOMAIN calls
      PROVE  LET f == calls[c]
                 mid == (f.lo + f.hi) \div 2
                 over == c = Len(calls)
             IN /\ f.proc = "main" /\ f.step = "sorted" /\ over => Sorted(0, N - 1)
                /\ f.proc = "mergesort" =>
                     /\ f.step = "merge" => Sorted(f.lo, mid)
                     /\ f.step = "merge" /\ over => Sorted(mid + 1, f.hi)
                     /\ f.step = "leave" /\ over => Sorted(f.lo, f.hi)
  <2> DEFINE f == calls[c]
             over == c = Len(calls)
  <2>1. Fits(f) /\ HalfDone(mem, f) /\ (over => PartDone(mem, f))
    BY <1>1 DEF FramesInv, SortInv, Top
  <2>2. /\ f.lo \in Int /\ f.hi \in Int /\ MidOf(f) \in Int /\ MidOf(f) + 1 \in Int
        /\ 0 \in Int /\ N - 1 \in Int
    BY <2>1, BoundsOf, Places
  <2> HIDE DEF f, over
  <2>3. f.proc = "main" /\ f.step = "sorted" /\ over => Sorted(0, N - 1)
    BY <1>4, <2>1, <2>2 DEF PartDone, Begins, Ends
  <2>4. f.proc = "mergesort" /\ f.step = "merge" => Sorted(f.lo, MidOf(f))
    BY <1>4, <2>1, <2>2 DEF HalfDone
  <2>5. f.proc = "mergesort" /\ f.step = "merge" /\ over => Sorted(MidOf(f) + 1, f.hi)
    BY <1>4, <2>1, <2>2 DEF PartDone, Begins, Ends
  <2>6. f.proc = "mergesort" /\ f.step = "leave" /\ over => Sorted(f.lo, f.hi)
    BY <1>4, <2>1, <2>2 DEF PartDone, Begins, Ends
  <2> QED
    BY <2>3, <2>4, <2>5, <2>6 DEF MidOf, f, over
<1> QED
  BY <1>5, <1>6 DEF CallsSort

\* The sort is correct for every length, every list and every allocation: each call
\* leaves its part sorted, and every value is in the list as often as it was at first.
THEOREM SortCorrect ==
  ASSUME NothingPastEnd
  PROVE  Spec => []CallsSort
<1>1. Sound /\ SortInv /\ [Next]_vars => Sound' /\ SortInv'
  BY SoundStays, SortStays
<1> QED
  BY SoundStarts, InitSort, SortKeepsWord, <1>1, PTL DEF Spec

=============================================================================
