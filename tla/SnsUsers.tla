------------------------------ MODULE SnsUsers ------------------------------
(***************************************************************************)
(* How userSimulator (Assignment 4/sns.cpp) chooses the users of a round:  *)
(* it draws nodes until it has R that are not marked in node_taken, then   *)
(* clears the marks of the indices 0 .. R-1 (not of the nodes it drew),    *)
(* generates the actions of the R nodes and sleeps until the next round.   *)
(* The actions themselves are in Sns.                                      *)
(***************************************************************************)
EXTENDS Integers, FiniteSets, Sequences

CONSTANTS
  N,          \* NODES_NUM
  R,          \* RANDOM_NODES_NUM
  MaxRounds   \* bound: rounds of the simulator

NodeIds == 0..(N - 1)

\* The indices whose mark is cleared.
Cleared == 0..(R - 1)

ASSUME SizeAssumption ==
  N \in Nat /\ R \in Nat \ {0} /\ R <= N /\ MaxRounds \in Nat

VARIABLES
  nodeTaken,    \* the marked nodes
  randomNodes,  \* the nodes drawn in this round, in order
  generated,    \* how many of them have generated their actions
  round,        \* the rounds that are over
  pc

vars == <<nodeTaken, randomNodes, generated, round, pc>>

Init ==
  /\ nodeTaken = {} /\ randomNodes = <<>> /\ generated = 0
  /\ round = 0
  /\ pc = "select"

\* Mutant: a drawn node is kept although it is marked.
DrawUnchecked ==
  /\ pc = "select" /\ Len(randomNodes) < R
  /\ \E u \in NodeIds :
       /\ randomNodes' = Append(randomNodes, u)
       /\ nodeTaken' = nodeTaken \cup {u}
  /\ UNCHANGED <<generated, round, pc>>

\* rand() % NODES_NUM until the node is not marked.
Draw ==
  /\ pc = "select" /\ Len(randomNodes) < R
  /\ \E u \in NodeIds \ nodeTaken :
       /\ randomNodes' = Append(randomNodes, u)
       /\ nodeTaken' = nodeTaken \cup {u}
  /\ UNCHANGED <<generated, round, pc>>

\* Mutant: the marks stay.
KeepMarks ==
  /\ pc = "select" /\ Len(randomNodes) = R
  /\ pc' = "generate"
  /\ UNCHANGED <<nodeTaken, randomNodes, generated, round>>

ClearMarks ==
  /\ pc = "select" /\ Len(randomNodes) = R
  /\ nodeTaken' = nodeTaken \ Cleared
  /\ pc' = "generate"
  /\ UNCHANGED <<randomNodes, generated, round>>

\* Mutant: one node too many.
GeneratePastEnd ==
  /\ pc = "generate" /\ generated <= R
  /\ generated' = generated + 1
  /\ UNCHANGED <<nodeTaken, randomNodes, round, pc>>

\* The next drawn node generates its actions.
Generate ==
  /\ pc = "generate" /\ generated < R
  /\ generated' = generated + 1
  /\ UNCHANGED <<nodeTaken, randomNodes, round, pc>>

\* sleep(120), and a new round with an empty random_nodes.
NextRound ==
  /\ pc = "generate" /\ generated = R /\ round < MaxRounds
  /\ round' = round + 1 /\ randomNodes' = <<>> /\ generated' = 0
  /\ pc' = "select"
  /\ UNCHANGED nodeTaken

Next == Draw \/ ClearMarks \/ Generate \/ NextRound

Spec == Init /\ [][Next]_vars

-----------------------------------------------------------------------------
(* Properties *)

\* The values every variable ranges over.
TypeOK ==
  /\ nodeTaken \subseteq NodeIds
  /\ randomNodes \in Seq(NodeIds) /\ Len(randomNodes) <= R
  /\ generated \in 0..R
  /\ round \in Nat
  /\ pc \in {"select", "generate"}

\* The rejection loop of the selection (sns.cpp:184-192) can always draw a node:
\* while nodes are missing, some node is not marked, however many rounds passed.
SelectionProceeds ==
  pc = "select" /\ Len(randomNodes) < R => NodeIds \ nodeTaken # {}

\* The nodes of a round are distinct, so that no user generates twice in a round.
DistinctInRound ==
  \A i, j \in 1..Len(randomNodes) : randomNodes[i] = randomNodes[j] => i = j
=============================================================================
