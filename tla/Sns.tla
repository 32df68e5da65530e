-------------------------------- MODULE Sns --------------------------------
(***************************************************************************)
(* The threads of Assignment 4/sns.cpp: one userSimulator, a pool of       *)
(* pushUpdate threads and a pool of readPost threads, the queues they      *)
(* share, and the mutexes and condition variables that protect them.       *)
(*                                                                         *)
(* A step is what a thread does between two lock or unlock operations.     *)
(* A thread blocked in pthread_cond_wait has a "wait_..." label: the set   *)
(* of waiters of a condition variable is read off the labels.  A signalled *)
(* waiter goes back to the label that takes the mutex, and tests its       *)
(* condition again, as the while loops of the source do.                   *)
(*                                                                         *)
(* An action object is its number in the order of creation, so that        *)
(* heap[a] holds the fields of action a.  The wall of a node is the        *)
(* subsequence of heap of its actions (nobody pops a wall), and the        *)
(* feedPushPrinted object made for action a and neighbour n is <<a, n>>.   *)
(***************************************************************************)
EXTENDS Integers, Sequences, FiniteSets

CONSTANTS
  Nodes,                    \* the users of the graph
  Neighbours,               \* [Nodes -> Seq(Nodes)], the adjacency vectors
  Order,                    \* [Nodes -> {0, 1}], 0: priority, 1: chronological
  ProportionalityConstant,  \* actions per unit of log2(degree)
  Pushers,                  \* the pushUpdate threads
  Readers,                  \* the readPost threads
  Simulator,                \* the userSimulator thread
  NoThread,                 \* the owner of a free mutex
  NoAction,                 \* a reader that has no action to print next
  MaxActions,               \* bound: actions the simulator creates
  MaxClock,                 \* bound: the last second of the clock
  SpuriousWakeups           \* whether pthread_cond_wait may return unsignalled

Threads == Pushers \cup Readers \cup {Simulator}

\* The vector of edges holds no edge twice, so a node lists a neighbour once.
NeighbourSet(u) == {Neighbours[u][k] : k \in 1..Len(Neighbours[u])}

\* ceil(log2(d)) for the degree d of a node of the edge list (d >= 1).
CeilLog2(d) == CHOOSE k \in 0..d : d <= 2^k /\ \A j \in 0..(k - 1) : 2^j < d

\* n_actions: how many actions a selected node generates.
NumActions(u) == ProportionalityConstant * (CeilLog2(Len(Neighbours[u])) + 1)

ASSUME GraphAssumption ==
  /\ Neighbours \in [Nodes -> Seq(Nodes)]
  /\ \A u \in Nodes : \A i, j \in 1..Len(Neighbours[u]) :
       Neighbours[u][i] = Neighbours[u][j] => i = j
  /\ Order \in [Nodes -> {0, 1}]
  /\ \A u \in Nodes : NumActions(u) \in Nat \ {0}

ASSUME ThreadAssumption ==
  /\ Pushers # {} /\ Readers # {}
  /\ IsFiniteSet(Pushers)
  /\ Pushers \cap Readers = {}
  /\ Simulator \notin Pushers \cup Readers
  /\ NoThread \notin Threads
  /\ NoAction \notin Nat
  /\ MaxActions \in Nat /\ MaxClock \in Nat
  /\ SpuriousWakeups \in BOOLEAN

VARIABLES
  clock,               \* time(NULL), in seconds
  heap,                \* the action objects, in the order of creation
  creationPrinted,     \* the actions whose creation_printed is true
  sharedQueue, sharedQueueMutex,
  feed, feedMutex,     \* per node: its feed, and the owner of its mutex
  modifiedQueue, modifiedQueueMutex,
  lastUpdated,         \* per node: when its feed was last drained
  writeToFileMutex,
  pushPrinted,         \* the <<action, node>> whose feedPushPrinted flag is true
  readPrinted,         \* the <<action, node>> that sns.log says were read
  simPc, simNode, temp, printed,  \* userSimulator: label, node, temp_actions,
                                  \* how many of them it has printed
  pushPc, popped, nbr,            \* pushUpdate: label, poppedAction, index
                                  \* into the neighbours of its user
  readPc, elem, batch, top        \* readPost: label, queueElement, the rest
                                  \* of temp_actions, and the one it waits for

objects == <<heap, creationPrinted, pushPrinted, readPrinted>>
sharedQueueVars == <<sharedQueue, sharedQueueMutex>>
feedVars == <<feed, feedMutex, lastUpdated>>
modifiedQueueVars == <<modifiedQueue, modifiedQueueMutex>>
shared == <<clock, objects, sharedQueueVars, feedVars, modifiedQueueVars,
            writeToFileMutex>>
simVars == <<simPc, simNode, temp, printed>>
pushVars == <<pushPc, popped, nbr>>
readVars == <<readPc, elem, batch, top>>
vars == <<shared, simVars, pushVars, readVars>>

-----------------------------------------------------------------------------
(* Types and initial state *)

SimLabels == {"select", "create", "lock_shared", "push_shared", "lock_file",
              "print"}
PushLabels == {"lock_shared", "pop_shared", "wait_shared", "next", "lock_feed",
               "push_feed", "lock_modified", "push_modified", "unlock_feed",
               "lock_file", "print", "wait_created"}
ReadLabels == {"lock_modified", "pop_modified", "wait_modified", "check",
               "lock_feed", "drain", "lock_file", "read", "wait_flag",
               "unlock_feed"}

ActionFields == [user_id : Nodes, timestamp : Nat]
Modification == [node : Nodes, time : Nat]

\* main and main_thread: every mutex free, every queue empty, all feeds last
\* read when the program starts, every thread at its first statement.
Init ==
  /\ clock = 0
  /\ heap = <<>> /\ creationPrinted = {}
  /\ sharedQueue = <<>> /\ sharedQueueMutex = NoThread
  /\ feed = [n \in Nodes |-> {}] /\ feedMutex = [n \in Nodes |-> NoThread]
  /\ modifiedQueue = <<>> /\ modifiedQueueMutex = NoThread
  /\ lastUpdated = [n \in Nodes |-> clock]
  /\ writeToFileMutex = NoThread /\ pushPrinted = {} /\ readPrinted = {}
  /\ simPc = "select" /\ simNode \in Nodes /\ temp = <<>> /\ printed = 0
  /\ pushPc = [p \in Pushers |-> "lock_shared"]
  /\ popped = [p \in Pushers |-> 0] /\ nbr = [p \in Pushers |-> 1]
  /\ readPc = [r \in Readers |-> "lock_modified"]
  /\ elem \in [Readers -> {[node |-> n, time |-> 0] : n \in Nodes}]
  /\ batch = [r \in Readers |-> {}] /\ top = [r \in Readers |-> NoAction]

-----------------------------------------------------------------------------
(* Condition variables *)

\* pthread_cond_signal: one of the waiters W, if there is one, goes on at label.
Signalled(pcs, W, label) ==
  IF W = {} THEN {pcs} ELSE {[pcs EXCEPT ![w] = label] : w \in W}

sharedQueueCond == {p \in Pushers : pushPc[p] = "wait_shared"}
modifiedQueueCond == {r \in Readers : readPc[r] = "wait_modified"}
actionPrintedCond(u) ==
  {p \in Pushers : pushPc[p] = "wait_created" /\ heap[popped[p]].user_id = u}
feedPushPrintedCond(n) ==
  {r \in Readers : readPc[r] = "wait_flag" /\ elem[r].node = n}

-----------------------------------------------------------------------------
(* userSimulator *)

\* The next selected node: its announcement is written under writeToFileMutex.
SimSelect ==
  /\ simPc = "select" /\ writeToFileMutex = NoThread
  /\ \E u \in Nodes :
       /\ Len(heap) + NumActions(u) <= MaxActions
       /\ simNode' = u
  /\ simPc' = "create"
  /\ UNCHANGED <<shared, temp, printed, pushVars, readVars>>

\* createAction, and the new action put on the wall and in temp_actions.
SimCreate ==
  /\ simPc = "create"
  /\ heap' = Append(heap, [user_id |-> simNode, timestamp |-> clock])
  /\ temp' = Append(temp, Len(heap) + 1)
  /\ simPc' = "lock_shared"
  /\ UNCHANGED <<clock, creationPrinted, pushPrinted, readPrinted,
                 sharedQueueVars, feedVars, modifiedQueueVars,
                 writeToFileMutex, simNode, printed, pushVars, readVars>>

SimLockShared ==
  /\ simPc = "lock_shared" /\ sharedQueueMutex = NoThread
  /\ sharedQueueMutex' = Simulator
  /\ simPc' = "push_shared"
  /\ UNCHANGED <<clock, objects, sharedQueue, feedVars, modifiedQueueVars,
                 writeToFileMutex, simNode, temp, printed, pushVars,
                 readVars>>

\* Push the new action, signal one pushUpdate thread, unlock.
SimPushShared ==
  /\ simPc = "push_shared"
  /\ sharedQueue' = Append(sharedQueue, temp[Len(temp)])
  /\ pushPc' \in Signalled(pushPc, sharedQueueCond, "lock_shared")
  /\ sharedQueueMutex' = NoThread
  /\ simPc' = IF Len(temp) < NumActions(simNode) THEN "create" ELSE "lock_file"
  /\ UNCHANGED <<clock, objects, feedVars, modifiedQueueVars,
                 writeToFileMutex, simNode, temp, printed, popped, nbr,
                 readVars>>

SimLockFile ==
  /\ simPc = "lock_file" /\ writeToFileMutex = NoThread
  /\ writeToFileMutex' = Simulator
  /\ simPc' = "print"
  /\ UNCHANGED <<clock, objects, sharedQueueVars, feedVars, modifiedQueueVars,
                 simNode, temp, printed, pushVars, readVars>>

\* Mutant: one signal, after the last line, for all the waiters.
SimPrintLastSignal ==
  /\ simPc = "print" /\ printed < Len(temp)
  /\ LET a == temp[printed + 1] IN
       /\ creationPrinted' = creationPrinted \cup {a}
       /\ pushPc' \in IF printed + 1 < Len(temp) THEN {pushPc}
                       ELSE Signalled(pushPc, actionPrintedCond(heap[a].user_id),
                                      "lock_file")
  /\ printed' = printed + 1
  /\ UNCHANGED <<clock, heap, pushPrinted, readPrinted, sharedQueueVars,
                 feedVars, modifiedQueueVars, writeToFileMutex, simPc,
                 simNode, temp, popped, nbr, readVars>>

\* One turn of the printing loop: flag, log line, one signal to the waiters of
\* the action's user.
SimPrint ==
  /\ simPc = "print" /\ printed < Len(temp)
  /\ LET a == temp[printed + 1] IN
       /\ creationPrinted' = creationPrinted \cup {a}
       /\ pushPc' \in Signalled(pushPc, actionPrintedCond(heap[a].user_id),
                                "lock_file")
  /\ printed' = printed + 1
  /\ UNCHANGED <<clock, heap, pushPrinted, readPrinted, sharedQueueVars,
                 feedVars, modifiedQueueVars, writeToFileMutex, simPc,
                 simNode, temp, popped, nbr, readVars>>

\* Mutant: the count of printed actions survives temp_actions.clear().
SimUnlockFileNoReset ==
  /\ simPc = "print" /\ printed = Len(temp)
  /\ writeToFileMutex' = NoThread
  /\ temp' = <<>> /\ printed' = printed
  /\ simPc' = "select"
  /\ UNCHANGED <<clock, objects, sharedQueueVars, feedVars, modifiedQueueVars,
                 simNode, pushVars, readVars>>

\* The loop is over: unlock, clear temp_actions, go on with the next node.
SimUnlockFile ==
  /\ simPc = "print" /\ printed = Len(temp)
  /\ writeToFileMutex' = NoThread
  /\ temp' = <<>> /\ printed' = 0
  /\ simPc' = "select"
  /\ UNCHANGED <<clock, objects, sharedQueueVars, feedVars, modifiedQueueVars,
                 simNode, pushVars, readVars>>

UserSimulator ==
  \/ SimSelect \/ SimCreate \/ SimLockShared \/ SimPushShared
  \/ SimLockFile \/ SimPrint \/ SimUnlockFile

-----------------------------------------------------------------------------
(* pushUpdate *)

\* updatePriority: the value both endpoints of an edge remember is the number
\* of their common neighbours, whichever thread computes it.
CommonNeighbours(u, n) == Cardinality(NeighbourSet(u) \cap NeighbourSet(n))

\* normalisedPriority of action a in the feed of n: the largest is read first.
Priority(a, n) == IF Order[n] = 0 THEN CommonNeighbours(heap[a].user_id, n)
                                  ELSE -heap[a].timestamp

User(p) == heap[popped[p]].user_id
Neighbour(p) == Neighbours[User(p)][nbr[p]]

PushGoto(p, from, to) == pushPc[p] = from /\ pushPc' = [pushPc EXCEPT ![p] = to]

PushLockShared(p) ==
  /\ PushGoto(p, "lock_shared", "pop_shared") /\ sharedQueueMutex = NoThread
  /\ sharedQueueMutex' = p
  /\ UNCHANGED <<clock, objects, sharedQueue, feedVars, modifiedQueueVars,
                 writeToFileMutex, simVars, popped, nbr, readVars>>

\* pthread_cond_wait on sharedQueueCond: block and release the mutex.
PushWaitShared(p) ==
  /\ PushGoto(p, "pop_shared", "wait_shared") /\ sharedQueue = <<>>
  /\ sharedQueueMutex' = NoThread
  /\ UNCHANGED <<clock, objects, sharedQueue, feedVars, modifiedQueueVars,
                 writeToFileMutex, simVars, popped, nbr, readVars>>

\* Mutant: the front of the queue is not popped.
PushPopSharedKeeps(p) ==
  /\ PushGoto(p, "pop_shared", "next") /\ sharedQueue # <<>>
  /\ popped' = [popped EXCEPT ![p] = Head(sharedQueue)]
  /\ sharedQueueMutex' = NoThread
  /\ nbr' = [nbr EXCEPT ![p] = 1]
  /\ UNCHANGED <<clock, objects, sharedQueue, feedVars, modifiedQueueVars,
                 writeToFileMutex, simVars, readVars>>

PushPopShared(p) ==
  /\ PushGoto(p, "pop_shared", "next") /\ sharedQueue # <<>>
  /\ popped' = [popped EXCEPT ![p] = Head(sharedQueue)]
  /\ sharedQueue' = Tail(sharedQueue)
  /\ sharedQueueMutex' = NoThread
  /\ nbr' = [nbr EXCEPT ![p] = 1]
  /\ UNCHANGED <<clock, objects, feedVars, modifiedQueueVars,
                 writeToFileMutex, simVars, readVars>>

\* The loop over the neighbours: one more, or back for the next action.
PushNextNeighbour(p) ==
  /\ \/ PushGoto(p, "next", "lock_feed") /\ nbr[p] <= Len(Neighbours[User(p)])
     \/ PushGoto(p, "next", "lock_shared") /\ nbr[p] > Len(Neighbours[User(p)])
  /\ UNCHANGED <<shared, simVars, popped, nbr, readVars>>

PushLockFeed(p) ==
  /\ PushGoto(p, "lock_feed", "push_feed") /\ feedMutex[Neighbour(p)] = NoThread
  /\ feedMutex' = [feedMutex EXCEPT ![Neighbour(p)] = p]
  /\ UNCHANGED <<clock, objects, sharedQueueVars, feed, lastUpdated,
                 modifiedQueueVars, writeToFileMutex, simVars, popped,
                 nbr, readVars>>

PushFeed(p) ==
  /\ PushGoto(p, "push_feed", "lock_modified")
  /\ feed' = [feed EXCEPT ![Neighbour(p)] = @ \cup {popped[p]}]
  /\ UNCHANGED <<clock, objects, sharedQueueVars, feedMutex, lastUpdated,
                 modifiedQueueVars, writeToFileMutex, simVars, popped,
                 nbr, readVars>>

PushLockModified(p) ==
  /\ PushGoto(p, "lock_modified", "push_modified")
  /\ modifiedQueueMutex = NoThread
  /\ modifiedQueueMutex' = p
  /\ UNCHANGED <<clock, objects, sharedQueueVars, feedVars, modifiedQueue,
                 writeToFileMutex, simVars, popped, nbr, readVars>>

\* Mutant: no reader is signalled.
PushModifiedNoSignal(p) ==
  /\ PushGoto(p, "push_modified", "unlock_feed")
  /\ modifiedQueue' = Append(modifiedQueue, [node |-> Neighbour(p), time |-> clock])
  /\ modifiedQueueMutex' = NoThread
  /\ UNCHANGED <<clock, objects, sharedQueueVars, feedVars, writeToFileMutex,
                 simVars, popped, nbr, readVars>>

\* Tell the readers, with the time of the push, and signal one of them.
PushModified(p) ==
  /\ PushGoto(p, "push_modified", "unlock_feed")
  /\ modifiedQueue' = Append(modifiedQueue, [node |-> Neighbour(p), time |-> clock])
  /\ readPc' \in Signalled(readPc, modifiedQueueCond, "lock_modified")
  /\ modifiedQueueMutex' = NoThread
  /\ UNCHANGED <<clock, objects, sharedQueueVars, feedVars, writeToFileMutex,
                 simVars, popped, nbr, elem, batch, top>>

\* Nobody waits on feedCond, so signalling it does nothing.
PushUnlockFeed(p) ==
  /\ PushGoto(p, "unlock_feed", "lock_file")
  /\ feedMutex' = [feedMutex EXCEPT ![Neighbour(p)] = NoThread]
  /\ UNCHANGED <<clock, objects, sharedQueueVars, feed, lastUpdated,
                 modifiedQueueVars, writeToFileMutex, simVars, popped,
                 nbr, readVars>>

PushLockFile(p) ==
  /\ PushGoto(p, "lock_file", "print") /\ writeToFileMutex = NoThread
  /\ writeToFileMutex' = p
  /\ UNCHANGED <<clock, objects, sharedQueueVars, feedVars, modifiedQueueVars,
                 simVars, popped, nbr, readVars>>

\* pthread_cond_wait on actionPrintedCond of the action's user.
PushWaitCreated(p) ==
  /\ PushGoto(p, "print", "wait_created") /\ popped[p] \notin creationPrinted
  /\ writeToFileMutex' = NoThread
  /\ UNCHANGED <<clock, objects, sharedQueueVars, feedVars, modifiedQueueVars,
                 simVars, popped, nbr, readVars>>

\* Mutant: the push is logged whether or not the creation is.
PushPrintUnchecked(p) ==
  /\ PushGoto(p, "print", "next")
  /\ pushPrinted' = pushPrinted \cup {<<popped[p], Neighbour(p)>>}
  /\ readPc' \in Signalled(readPc, feedPushPrintedCond(Neighbour(p)), "lock_file")
  /\ writeToFileMutex' = NoThread
  /\ nbr' = [nbr EXCEPT ![p] = @ + 1]
  /\ UNCHANGED <<clock, heap, creationPrinted, readPrinted, sharedQueueVars,
                 feedVars, modifiedQueueVars, simVars, popped, elem,
                 batch, top>>

\* Log the push, raise its flag, signal one reader of that feed, unlock.
PushPrint(p) ==
  /\ PushGoto(p, "print", "next") /\ popped[p] \in creationPrinted
  /\ pushPrinted' = pushPrinted \cup {<<popped[p], Neighbour(p)>>}
  /\ readPc' \in Signalled(readPc, feedPushPrintedCond(Neighbour(p)), "lock_file")
  /\ writeToFileMutex' = NoThread
  /\ nbr' = [nbr EXCEPT ![p] = @ + 1]
  /\ UNCHANGED <<clock, heap, creationPrinted, readPrinted, sharedQueueVars,
                 feedVars, modifiedQueueVars, simVars, popped, elem,
                 batch, top>>

PushUpdate(p) ==
  \/ PushLockShared(p) \/ PushWaitShared(p) \/ PushPopShared(p)
  \/ PushNextNeighbour(p) \/ PushLockFeed(p) \/ PushFeed(p)
  \/ PushLockModified(p) \/ PushModified(p) \/ PushUnlockFeed(p)
  \/ PushLockFile(p) \/ PushWaitCreated(p) \/ PushPrint(p)

-----------------------------------------------------------------------------
(* readPost *)

\* The actions that feed.top() may return first out of the set B at node n.
Tops(B, n) == {a \in B : \A b \in B : Priority(b, n) <= Priority(a, n)}

ReadGoto(r, from, to) == readPc[r] = from /\ readPc' = [readPc EXCEPT ![r] = to]

ReadLockModified(r) ==
  /\ ReadGoto(r, "lock_modified", "pop_modified") /\ modifiedQueueMutex = NoThread
  /\ modifiedQueueMutex' = r
  /\ UNCHANGED <<clock, objects, sharedQueueVars, feedVars, modifiedQueue,
                 writeToFileMutex, simVars, pushVars, elem, batch, top>>

\* pthread_cond_wait on modifiedQueueCond: block and release the mutex.
ReadWaitModified(r) ==
  /\ ReadGoto(r, "pop_modified", "wait_modified") /\ modifiedQueue = <<>>
  /\ modifiedQueueMutex' = NoThread
  /\ UNCHANGED <<clock, objects, sharedQueueVars, feedVars, modifiedQueue,
                 writeToFileMutex, simVars, pushVars, elem, batch, top>>

\* Pop the oldest modification and signal another reader.
ReadPopModified(r) ==
  /\ readPc[r] = "pop_modified" /\ modifiedQueue # <<>>
  /\ elem' = [elem EXCEPT ![r] = Head(modifiedQueue)]
  /\ modifiedQueue' = Tail(modifiedQueue)
  /\ readPc' \in Signalled([readPc EXCEPT ![r] = "check"], modifiedQueueCond,
                           "lock_modified")
  /\ modifiedQueueMutex' = NoThread
  /\ UNCHANGED <<clock, objects, sharedQueueVars, feedVars, writeToFileMutex,
                 simVars, pushVars, batch, top>>

\* Mutant: a push in the second of the last drain counts as read.
StaleOrEqual(e) == e.time <= lastUpdated[e.node]

\* Whether somebody drained the feed after the push that queued this element.
Stale(e) == e.time < lastUpdated[e.node]

\* lastUpdated is read without the mutex of the feed.
ReadCheck(r) ==
  /\ \/ ReadGoto(r, "check", "lock_modified") /\ Stale(elem[r])
     \/ ReadGoto(r, "check", "lock_feed") /\ ~Stale(elem[r])
  /\ UNCHANGED <<shared, simVars, pushVars, elem, batch, top>>

ReadLockFeed(r) ==
  /\ ReadGoto(r, "lock_feed", "drain") /\ feedMutex[elem[r].node] = NoThread
  /\ feedMutex' = [feedMutex EXCEPT ![elem[r].node] = r]
  /\ UNCHANGED <<clock, objects, sharedQueueVars, feed, lastUpdated,
                 modifiedQueueVars, writeToFileMutex, simVars, pushVars,
                 elem, batch, top>>

\* Mutant: the actions moved to temp_actions are not popped.
ReadDrainKeeps(r) ==
  /\ ReadGoto(r, "drain", "lock_file")
  /\ batch' = [batch EXCEPT ![r] = feed[elem[r].node]]
  /\ lastUpdated' = [lastUpdated EXCEPT ![elem[r].node] = clock]
  /\ UNCHANGED <<clock, objects, sharedQueueVars, feed, feedMutex,
                 modifiedQueueVars, writeToFileMutex, simVars, pushVars,
                 elem, top>>

\* Move the whole feed to temp_actions, then remember the time.
ReadDrain(r) ==
  /\ ReadGoto(r, "drain", "lock_file")
  /\ batch' = [batch EXCEPT ![r] = feed[elem[r].node]]
  /\ feed' = [feed EXCEPT ![elem[r].node] = {}]
  /\ lastUpdated' = [lastUpdated EXCEPT ![elem[r].node] = clock]
  /\ UNCHANGED <<clock, objects, sharedQueueVars, feedMutex,
                 modifiedQueueVars, writeToFileMutex, simVars, pushVars,
                 elem, top>>

ReadLockFile(r) ==
  /\ ReadGoto(r, "lock_file", "read") /\ writeToFileMutex = NoThread
  /\ writeToFileMutex' = r
  /\ UNCHANGED <<clock, objects, sharedQueueVars, feedVars, modifiedQueueVars,
                 simVars, pushVars, elem, batch, top>>

\* The next action of temp_actions, the same one again after a wait.
Upcoming(r) == IF top[r] = NoAction THEN Tops(batch[r], elem[r].node) ELSE {top[r]}

\* The push of the next action is logged already: log that it is read.
ReadAction(r) ==
  /\ readPc[r] = "read" /\ batch[r] # {}
  /\ \E a \in Upcoming(r) :
       /\ <<a, elem[r].node>> \in pushPrinted
       /\ readPrinted' = readPrinted \cup {<<a, elem[r].node>>}
       /\ batch' = [batch EXCEPT ![r] = @ \ {a}]
  /\ top' = [top EXCEPT ![r] = NoAction]
  /\ UNCHANGED <<clock, heap, creationPrinted, pushPrinted, sharedQueueVars,
                 feedVars, modifiedQueueVars, writeToFileMutex, simVars,
                 pushVars, readPc, elem>>

\* Mutant: the feed is unlocked too while its reader waits for a flag.
ReadWaitFlagUnlocked(r) ==
  /\ ReadGoto(r, "read", "wait_flag") /\ batch[r] # {}
  /\ \E a \in Upcoming(r) :
       /\ <<a, elem[r].node>> \notin pushPrinted
       /\ top' = [top EXCEPT ![r] = a]
  /\ writeToFileMutex' = NoThread
  /\ feedMutex' = [feedMutex EXCEPT ![elem[r].node] = NoThread]
  /\ UNCHANGED <<clock, objects, sharedQueueVars, feed, lastUpdated,
                 modifiedQueueVars, simVars, pushVars, elem, batch>>

\* pthread_cond_wait on feedPushPrintedCond of the node, with its feed locked.
ReadWaitFlag(r) ==
  /\ ReadGoto(r, "read", "wait_flag") /\ batch[r] # {}
  /\ \E a \in Upcoming(r) :
       /\ <<a, elem[r].node>> \notin pushPrinted
       /\ top' = [top EXCEPT ![r] = a]
  /\ writeToFileMutex' = NoThread
  /\ UNCHANGED <<clock, objects, sharedQueueVars, feedVars, modifiedQueueVars,
                 simVars, pushVars, elem, batch>>

ReadUnlockFile(r) ==
  /\ ReadGoto(r, "read", "unlock_feed") /\ batch[r] = {}
  /\ writeToFileMutex' = NoThread
  /\ UNCHANGED <<clock, objects, sharedQueueVars, feedVars, modifiedQueueVars,
                 simVars, pushVars, elem, batch, top>>

ReadUnlockFeed(r) ==
  /\ ReadGoto(r, "unlock_feed", "lock_modified")
  /\ feedMutex' = [feedMutex EXCEPT ![elem[r].node] = NoThread]
  /\ UNCHANGED <<clock, objects, sharedQueueVars, feed, lastUpdated,
                 modifiedQueueVars, writeToFileMutex, simVars, pushVars,
                 elem, batch, top>>

ReadPost(r) ==
  \/ ReadLockModified(r) \/ ReadWaitModified(r) \/ ReadPopModified(r)
  \/ ReadCheck(r) \/ ReadLockFeed(r) \/ ReadDrain(r) \/ ReadLockFile(r)
  \/ ReadAction(r) \/ ReadWaitFlag(r) \/ ReadUnlockFile(r) \/ ReadUnlockFeed(r)

-----------------------------------------------------------------------------
(* The environment: time, and wakeups nobody asked for *)

Tick ==
  /\ clock < MaxClock
  /\ clock' = clock + 1
  /\ UNCHANGED <<objects, sharedQueueVars, feedVars, modifiedQueueVars,
                 writeToFileMutex, simVars, pushVars, readVars>>

\* pthread_cond_wait may return although nobody signalled.
WakePusher(p) ==
  /\ SpuriousWakeups
  /\ \/ PushGoto(p, "wait_shared", "lock_shared")
     \/ PushGoto(p, "wait_created", "lock_file")
  /\ UNCHANGED <<shared, simVars, popped, nbr, readVars>>

WakeReader(r) ==
  /\ SpuriousWakeups
  /\ \/ ReadGoto(r, "wait_modified", "lock_modified")
     \/ ReadGoto(r, "wait_flag", "lock_file")
  /\ UNCHANGED <<shared, simVars, pushVars, elem, batch, top>>

Next ==
  \/ UserSimulator
  \/ \E p \in Pushers : PushUpdate(p) \/ WakePusher(p)
  \/ \E r \in Readers : ReadPost(r) \/ WakeReader(r)
  \/ Tick

Spec == Init /\ [][Next]_vars

\* The scheduler runs every thread that can run.  Nothing is assumed of time
\* or of spurious wakeups, and no lock is assumed to be fair.
FairSpec ==
  /\ Spec
  /\ WF_vars(UserSimulator)
  /\ \A p \in Pushers : WF_vars(PushUpdate(p))
  /\ \A r \in Readers : WF_vars(ReadPost(r))

-----------------------------------------------------------------------------
(* Properties *)

Created == 1..Len(heap)
Deliveries == {d \in Created \X Nodes : d[2] \in NeighbourSet(heap[d[1]].user_id)}

SimIn(labels) == {t \in {Simulator} : simPc \in labels}
PushIn(labels) == {p \in Pushers : pushPc[p] \in labels}
ReadIn(labels) == {r \in Readers : readPc[r] \in labels}

\* The pushers that have an action in hand.
Busy == Pushers \ PushIn({"lock_shared", "pop_shared", "wait_shared"})

LogType ==
  /\ clock \in Nat
  /\ heap \in Seq(ActionFields)
  /\ creationPrinted \subseteq Created
  /\ pushPrinted \subseteq Created \X Nodes
  /\ readPrinted \subseteq Created \X Nodes
QueueType ==
  /\ sharedQueue \in Seq(Created)
  /\ feed \in [Nodes -> SUBSET Created]
  /\ modifiedQueue \in Seq(Modification)
  /\ lastUpdated \in [Nodes -> Nat]
MutexType ==
  /\ sharedQueueMutex \in Threads \cup {NoThread}
  /\ feedMutex \in [Nodes -> Threads \cup {NoThread}]
  /\ modifiedQueueMutex \in Threads \cup {NoThread}
  /\ writeToFileMutex \in Threads \cup {NoThread}
SimType ==
  /\ simPc \in SimLabels /\ simNode \in Nodes
  /\ temp \in Seq(Created) /\ printed \in 0..Len(temp)
  /\ simPc \in {"lock_shared", "push_shared"} => temp # <<>>
PushType ==
  /\ pushPc \in [Pushers -> PushLabels]
  /\ popped \in [Pushers -> Nat] /\ nbr \in [Pushers -> Nat \ {0}]
  /\ \A p \in Busy :
       /\ popped[p] \in Created
       /\ pushPc[p] # "next" => nbr[p] <= Len(Neighbours[User(p)])
ReadType ==
  /\ readPc \in [Readers -> ReadLabels]
  /\ elem \in [Readers -> Modification]
  /\ batch \in [Readers -> SUBSET Created]
  /\ top \in [Readers -> Nat \cup {NoAction}]

\* The values every variable ranges over; a pusher never holds a dangling
\* pointer, nor an index beyond the neighbours of its user.
TypeOK == LogType /\ QueueType /\ MutexType /\ SimType /\ PushType /\ ReadType

\* A mutex has an owner exactly while one thread is inside its critical section.
HeldBy(mutex, inside) == inside = IF mutex = NoThread THEN {} ELSE {mutex}

PushOnFeed == {"push_feed", "lock_modified", "push_modified", "unlock_feed"}
ReadOnFeed == {"drain", "lock_file", "read", "wait_flag", "unlock_feed"}

SharedHolders == SimIn({"push_shared"}) \cup PushIn({"pop_shared"})
ModifiedHolders == PushIn({"push_modified"}) \cup ReadIn({"pop_modified"})
FileHolders == SimIn({"print"}) \cup PushIn({"print"}) \cup ReadIn({"read"})
FeedHolders(n) == {p \in PushIn(PushOnFeed) : Neighbour(p) = n}
                    \cup {r \in ReadIn(ReadOnFeed) : elem[r].node = n}

\* Mutual exclusion: every shared queue, every feed and the log are used by at
\* most one thread at a time, and by the owner of their mutex.  (A reader that
\* waits for a flag keeps the feed locked and gives up only the log.)
MutualExclusion ==
  /\ HeldBy(sharedQueueMutex, SharedHolders)
  /\ HeldBy(modifiedQueueMutex, ModifiedHolders)
  /\ HeldBy(writeToFileMutex, FileHolders)
  /\ \A n \in Nodes : HeldBy(feedMutex[n], FeedHolders(n))

\* sns.log tells every delivery in order: an action is read only after its push
\* to that very feed is logged, and pushed only after its creation is logged,
\* although the three lines are written by three threads.
LogOrder ==
  /\ readPrinted \subseteq pushPrinted
  /\ pushPrinted \subseteq Deliveries
  /\ \A d \in pushPrinted : d[1] \in creationPrinted

\* Some thread or queue element that will still have the feed of n drained.
Tracked(n) ==
  \/ \E i \in 1..Len(modifiedQueue) :
       modifiedQueue[i].node = n /\ ~Stale(modifiedQueue[i])
  \/ \E r \in Readers :
       /\ elem[r].node = n
       /\ \/ readPc[r] = "check" /\ ~Stale(elem[r])
          \/ readPc[r] \in {"lock_feed", "drain"}
  \/ \E p \in PushIn({"lock_modified", "push_modified"}) : Neighbour(p) = n

\* No feed is forgotten: skipping the modifications older than lastUpdated
\* never skips the last one that stands for an action still in the feed.
FeedTracked == \A n \in Nodes : feed[n] # {} => Tracked(n)

ReadAt(n) == {a \in Created : <<a, n>> \in readPrinted}
BatchAt(r, n) == IF elem[r].node = n THEN batch[r] ELSE {}

\* Every action goes to one pusher, and is at most once at every node: in the
\* feed, in the batch of one reader, or read.
DeliveredOnce ==
  /\ \A p, q \in Busy : popped[p] = popped[q] => p = q
  /\ \A p \in Busy : \A i \in 1..Len(sharedQueue) : popped[p] # sharedQueue[i]
  /\ \A i, j \in 1..Len(sharedQueue) : sharedQueue[i] = sharedQueue[j] => i = j
  /\ \A n \in Nodes :
       /\ feed[n] \cap ReadAt(n) = {}
       /\ \A r \in Readers :
            /\ BatchAt(r, n) \cap (feed[n] \cup ReadAt(n)) = {}
            /\ \A q \in Readers \ {r} : BatchAt(r, n) \cap BatchAt(q, n) = {}
  /\ \A p \in PushIn({"lock_feed", "push_feed"}) :
       popped[p] \notin feed[Neighbour(p)] \cup ReadAt(Neighbour(p))
                          \cup UNION {BatchAt(r, Neighbour(p)) : r \in Readers}

\* What the users see of the threads: a post waits for a user while it is in the
\* feed or in the batch of a reader.
Users == INSTANCE Delivery WITH
  Friends <- [u \in Nodes |-> NeighbourSet(u)],
  posts <- [a \in Created |-> heap[a].user_id],
  announced <- creationPrinted,
  inbox <- [n \in Nodes |-> feed[n] \cup UNION {BatchAt(r, n) : r \in Readers}],
  seen <- [n \in Nodes |-> ReadAt(n)]

\* The threads implement the delivery specification: whatever their steps do in
\* between, every post gets to each neighbour of its user at most once, is read
\* there after it is announced, and is never taken back or lost.
DeliversOnce == Users!Spec

\* A thread is blocked if it waits for a signal or for a mutex that has an owner
\* (for the simulator, also if it sleeps between two selections).
SimBlocked ==
  \/ simPc = "select"
  \/ simPc = "lock_shared" /\ sharedQueueMutex # NoThread
  \/ simPc = "lock_file" /\ writeToFileMutex # NoThread
PushBlocked(p) ==
  \/ pushPc[p] \in {"wait_shared", "wait_created"}
  \/ pushPc[p] = "lock_shared" /\ sharedQueueMutex # NoThread
  \/ pushPc[p] = "lock_feed" /\ feedMutex[Neighbour(p)] # NoThread
  \/ pushPc[p] = "lock_modified" /\ modifiedQueueMutex # NoThread
  \/ pushPc[p] = "lock_file" /\ writeToFileMutex # NoThread
ReadBlocked(r) ==
  \/ readPc[r] \in {"wait_modified", "wait_flag"}
  \/ readPc[r] = "lock_modified" /\ modifiedQueueMutex # NoThread
  \/ readPc[r] = "lock_feed" /\ feedMutex[elem[r].node] # NoThread
  \/ readPc[r] = "lock_file" /\ writeToFileMutex # NoThread

AllBlocked == /\ SimBlocked
              /\ \A p \in Pushers : PushBlocked(p)
              /\ \A r \in Readers : ReadBlocked(r)

\* No deadlock and no lost signal: when nobody can go on until the simulator
\* selects another node, every action created so far has been read by every
\* neighbour of its user.
BlockedOnlyWhenDone == AllBlocked => Deliveries \subseteq readPrinted

\* Every neighbour of the user who creates an action reads it in the end, with
\* threads that are scheduled and wakeups that are only those signalled.
EveryActionRead ==
  \A a \in 1..MaxActions : \A n \in Nodes :
    <<a, n>> \in Deliveries ~> <<a, n>> \in readPrinted
=============================================================================
