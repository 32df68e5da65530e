--------------------------- MODULE SnsUsersProofs ---------------------------
(***************************************************************************)
(* The selection of users, for every number of nodes and every R <= N:     *)
(* the rejection loop always has a node to draw, and a round never draws a *)
(* node twice.                                                             *)
(***************************************************************************)
EXTENDS SnsUsers, FiniteSetTheorems, TLAPS

\* The nodes of the round so far.
Drawn == {randomNodes[i] : i \in 1..Len(randomNodes)}

\* The marks below R are those of this round, until they are cleared.
LowMarks ==
  /\ pc = "select" => Drawn \subseteq nodeTaken /\ nodeTaken \cap Cleared \subseteq Drawn
  /\ pc = "generate" => nodeTaken \cap Cleared = {} /\ Len(randomNodes) = R

IInv == TypeOK /\ LowMarks /\ DistinctInRound

\* The invariant holds at the start: no node is marked or drawn.
LEMMA InitIInv == Init => IInv
BY SizeAssumption DEF Init, IInv, TypeOK, LowMarks, DistinctInRound,
                      Drawn, NodeIds, Cleared

\* Every step keeps the invariant.
LEMMA NextIInv == IInv /\ [Next]_vars => IInv'
<1> SUFFICES ASSUME IInv, [Next]_vars PROVE IInv'
  OBVIOUS
<1> USE SizeAssumption DEF IInv
<1>1. CASE Draw
  <2>1. PICK u \in NodeIds \ nodeTaken :
          /\ randomNodes' = Append(randomNodes, u)
          /\ nodeTaken' = nodeTaken \cup {u}
    BY <1>1 DEF Draw
  <2>2. pc = "select" /\ Len(randomNodes) < R /\ UNCHANGED <<generated, round, pc>>
    BY <1>1 DEF Draw
  <2>3. u \in NodeIds /\ u \notin Drawn
    BY <2>1, <2>2 DEF LowMarks
  <2>4. /\ Len(randomNodes') = Len(randomNodes) + 1
        /\ \A i \in 1..Len(randomNodes') :
             randomNodes'[i] = IF i <= Len(randomNodes) THEN randomNodes[i] ELSE u
    BY <2>1 DEF TypeOK
  <2>5. TypeOK'
    BY <2>1, <2>2, <2>3, <2>4 DEF TypeOK, NodeIds
  <2>7. Drawn' = Drawn \cup {u}
    BY <2>4 DEF Drawn, TypeOK
  <2>8. LowMarks'
    BY <2>1, <2>2, <2>7 DEF LowMarks
  <2>9. DistinctInRound'
    BY <2>3, <2>4 DEF DistinctInRound, Drawn, TypeOK
  <2> QED BY <2>5, <2>8, <2>9
<1>2. CASE ClearMarks
  BY <1>2 DEF ClearMarks, TypeOK, LowMarks, DistinctInRound, Drawn
<1>3. CASE Generate
  BY <1>3 DEF Generate, TypeOK, LowMarks, DistinctInRound, Drawn
<1>4. CASE NextRound
  BY <1>4 DEF NextRound, TypeOK, LowMarks, DistinctInRound, Drawn
<1>5. CASE UNCHANGED vars
  BY <1>5 DEF vars, TypeOK, LowMarks, DistinctInRound, Drawn
<1> QED BY <1>1, <1>2, <1>3, <1>4, <1>5 DEF Next

\* The nodes drawn so far are at most as many as the draws.
LEMMA DrawnCount ==
  ASSUME randomNodes \in Seq(NodeIds)
  PROVE  IsFiniteSet(Drawn) /\ Cardinality(Drawn) <= Len(randomNodes)
<1> DEFINE I == 1..Len(randomNodes)
           f == [i \in I |-> randomNodes[i]]
<1>1. Len(randomNodes) \in Nat
  OBVIOUS
<1>2. IsFiniteSet(I) /\ Cardinality(I) = Len(randomNodes)
  BY <1>1, FS_Interval
<1>3. f \in Surjection(I, Drawn)
  BY DEF Surjection, Drawn
<1> HIDE DEF I, f
<1> QED BY <1>2, <1>3, FS_Surjection

\* While nodes are missing the marks below R cannot all be set: they are marks of
\* fewer than R draws.
LEMMA IInvProceeds == IInv => SelectionProceeds
<1> SUFFICES ASSUME IInv, pc = "select", Len(randomNodes) < R,
                    NodeIds \subseteq nodeTaken
             PROVE  FALSE
  BY DEF SelectionProceeds
<1>1. Cleared \subseteq Drawn
  BY SizeAssumption DEF IInv, LowMarks, NodeIds, Cleared
<1>2. IsFiniteSet(Drawn) /\ Cardinality(Drawn) <= Len(randomNodes)
  BY DrawnCount DEF IInv, TypeOK
<1>3. Cardinality(Cleared) = R
  <2>1. 0 \in Int /\ R - 1 \in Int
    BY SizeAssumption
  <2>2. Cardinality(0..(R - 1)) = IF 0 > R - 1 THEN 0 ELSE (R - 1) - 0 + 1
    BY <2>1, FS_Interval
  <2> QED BY <2>2, SizeAssumption DEF Cleared
<1>4. Cardinality(Cleared) <= Cardinality(Drawn)
  BY <1>1, <1>2, FS_Subset
<1>5. Cardinality(Drawn) \in Nat /\ Len(randomNodes) \in Nat
  BY <1>2, FS_CardinalityType DEF IInv, TypeOK
<1> QED BY <1>2, <1>3, <1>4, <1>5, SizeAssumption

\* The strengthened invariant holds in every reachable state.
LEMMA Inductive == Spec => []IInv
BY InitIInv, NextIInv, PTL DEF Spec

\* What is drawn are nodes, at most R of them, and what is marked as well.
THEOREM TypeCorrect == Spec => []TypeOK
<1>1. IInv => TypeOK
  BY DEF IInv
<1> QED BY <1>1, Inductive, PTL

\* However many rounds passed, the rejection loop of userSimulator
\* (sns.cpp:184-192) has a node to draw: it never spins for ever.
THEOREM SelectionCorrect == Spec => []SelectionProceeds
BY Inductive, IInvProceeds, PTL

\* The nodes of a round are distinct (the node_taken test of sns.cpp:187).
THEOREM RoundCorrect == Spec => []DistinctInRound
<1>1. IInv => DistinctInRound
  BY DEF IInv
<1> QED BY <1>1, Inductive, PTL
=============================================================================
