----------------------------- MODULE SnsProofs -----------------------------
(***************************************************************************)
(* What TLAPS proves of Sns for every graph, every number of threads and   *)
(* actions, any clock and with spurious wakeups.                           *)
(*                                                                         *)
(* 1. The types, the mutual exclusion of the four kinds of mutexes, the    *)
(* order of the log and that no feed is forgotten.  Each invariant has     *)
(* three lemmas, for the steps of the simulator, of a pusher and of a      *)
(* reader.                                                                 *)
(*                                                                         *)
(* 2. No action is delivered twice, and the threads implement the          *)
(* specification Delivery.  The invariant has three parts: an action is in *)
(* one hand at a time, the neighbours a pusher has not come to yet never   *)
(* had its action, and what a reader has in its batch is nowhere else.     *)
(*                                                                         *)
(* 3. No signal is lost and nobody waits in a circle: when every thread is *)
(* blocked, every action has been read by every neighbour of its user.     *)
(* Each condition variable has its invariant.  A queue that is not empty   *)
(* has a thread that does not wait for it.  A reader waits for the flag of *)
(* an action only while some pusher has still to log it.  At most as many  *)
(* pushers wait for a creation line as the simulator has still to write,   *)
(* so that one signal for each line wakes them all.                        *)
(***************************************************************************)
EXTENDS Sns, FiniteSetTheorems, SequenceTheorems, TLAPS

USE DEF shared, objects, sharedQueueVars, feedVars, modifiedQueueVars,
        simVars, pushVars, readVars

\* The types hold initially.
LEMMA TypeInit == Init => TypeOK
BY GraphAssumption, ThreadAssumption
DEF Init, TypeOK, LogType, QueueType, MutexType, SimType, PushType, ReadType,
    Busy, PushIn, SimLabels, PushLabels, ReadLabels, Modification, Created, Threads

\* A step that leaves the objects and the log alone keeps their types.
LEMMA LogSame ==
  ASSUME LogType, UNCHANGED <<clock, heap, creationPrinted, pushPrinted, readPrinted>>
  PROVE  LogType'
BY DEF LogType, Created

\* A step that leaves the queues alone keeps their types.
LEMMA QueueSame ==
  ASSUME QueueType, UNCHANGED <<heap, sharedQueue, feed, modifiedQueue, lastUpdated>>
  PROVE  QueueType'
BY DEF QueueType, Created

\* A step that leaves the mutexes alone keeps their types.
LEMMA MutexSame ==
  ASSUME MutexType, UNCHANGED <<sharedQueueMutex, feedMutex, modifiedQueueMutex,
                                writeToFileMutex>>
  PROVE  MutexType'
BY DEF MutexType

\* A step that leaves userSimulator alone keeps its types.
LEMMA SimSame ==
  ASSUME SimType, UNCHANGED <<heap, simPc, simNode, temp, printed>>
  PROVE  SimType'
BY DEF SimType, Created

\* A step that leaves the pushers alone keeps their types.
LEMMA PushSame ==
  ASSUME PushType, UNCHANGED <<heap, pushPc, popped, nbr>>
  PROVE  PushType'
BY DEF PushType, Created, Busy, PushIn, User

\* A step that leaves the readers alone keeps their types.
LEMMA ReadSame ==
  ASSUME ReadType, UNCHANGED <<heap, readPc, elem, batch, top>>
  PROVE  ReadType'
BY DEF ReadType, Created

\* A signal moves at most one of the waiters W, to label.
SignalMoves(pcs, W, label, S, new) ==
  \A t \in S : new[t] = pcs[t] \/ (t \in W /\ new[t] = label)

\* The labels of the pushers after a signal.
LEMMA SignalPushers ==
  ASSUME PushType, NEW W, W \subseteq Pushers, NEW label \in PushLabels,
         pushPc' \in Signalled(pushPc, W, label)
  PROVE  /\ pushPc' \in [Pushers -> PushLabels]
         /\ SignalMoves(pushPc, W, label, Pushers, pushPc')
BY DEF Signalled, SignalMoves, PushType

\* The labels of the readers after a signal.
LEMMA SignalReaders ==
  ASSUME NEW pcs \in [Readers -> ReadLabels], NEW W, W \subseteq Readers,
         NEW label \in ReadLabels, readPc' \in Signalled(pcs, W, label)
  PROVE  /\ readPc' \in [Readers -> ReadLabels]
         /\ SignalMoves(pcs, W, label, Readers, readPc')
BY DEF Signalled, SignalMoves

\* A sequence over S is one over any larger set.
LEMMA SeqWiden ==
  ASSUME NEW S, NEW T, S \subseteq T, NEW s \in Seq(S)
  PROVE  s \in Seq(T)
OBVIOUS

\* SimPushShared moves at most one pusher, and only one that waits for work.
LEMMA SharedSignal ==
  ASSUME PushType, SimPushShared
  PROVE  /\ pushPc' \in [Pushers -> PushLabels]
         /\ SignalMoves(pushPc, sharedQueueCond, "lock_shared", Pushers, pushPc')
<1>1. sharedQueueCond \subseteq Pushers /\ "lock_shared" \in PushLabels
  BY DEF sharedQueueCond, PushLabels
<1>2. pushPc' \in Signalled(pushPc, sharedQueueCond, "lock_shared")
  BY DEF SimPushShared
<1> QED
  BY <1>1, <1>2, SignalPushers

\* SimPrint moves at most one pusher, and only one that waits for a creation.
LEMMA CreatedSignal ==
  ASSUME PushType, SimPrint
  PROVE  /\ pushPc' \in [Pushers -> PushLabels]
         /\ \E u : SignalMoves(pushPc, actionPrintedCond(u), "lock_file",
                               Pushers, pushPc')
<1> DEFINE u == heap[temp[printed + 1]].user_id
<1>1. actionPrintedCond(u) \subseteq Pushers /\ "lock_file" \in PushLabels
  BY DEF actionPrintedCond, PushLabels
<1>2. pushPc' \in Signalled(pushPc, actionPrintedCond(u), "lock_file")
  BY DEF SimPrint
<1> HIDE DEF u
<1> QED
  BY <1>1, <1>2, SignalPushers

\* PushModified moves at most one reader, and only one that waits for work.
LEMMA ModifiedSignal ==
  ASSUME ReadType, NEW p \in Pushers, PushModified(p)
  PROVE  /\ readPc' \in [Readers -> ReadLabels]
         /\ SignalMoves(readPc, modifiedQueueCond, "lock_modified", Readers, readPc')
<1>1. modifiedQueueCond \subseteq Readers /\ "lock_modified" \in ReadLabels
  BY DEF modifiedQueueCond, ReadLabels
<1>2. readPc' \in Signalled(readPc, modifiedQueueCond, "lock_modified")
  BY DEF PushModified
<1> QED
  BY <1>1, <1>2, SignalReaders DEF ReadType

\* PushPrint moves at most one reader, and only one that waits for its flag.
LEMMA FlagSignal ==
  ASSUME ReadType, NEW p \in Pushers, PushPrint(p)
  PROVE  /\ readPc' \in [Readers -> ReadLabels]
         /\ SignalMoves(readPc, feedPushPrintedCond(Neighbour(p)), "lock_file",
                        Readers, readPc')
<1>1. feedPushPrintedCond(Neighbour(p)) \subseteq Readers /\ "lock_file" \in ReadLabels
  BY DEF feedPushPrintedCond, ReadLabels
<1>2. readPc' \in Signalled(readPc, feedPushPrintedCond(Neighbour(p)), "lock_file")
  BY DEF PushPrint
<1> QED
  BY <1>1, <1>2, SignalReaders DEF ReadType

\* ReadPopModified moves its reader, and at most one that waits for work.
LEMMA PopSignal ==
  ASSUME ReadType, NEW r \in Readers, ReadPopModified(r)
  PROVE  /\ readPc' \in [Readers -> ReadLabels]
         /\ SignalMoves([readPc EXCEPT ![r] = "check"], modifiedQueueCond,
                        "lock_modified", Readers, readPc')
<1>1. [readPc EXCEPT ![r] = "check"] \in [Readers -> ReadLabels]
  BY DEF ReadType, ReadLabels
<1>2. modifiedQueueCond \subseteq Readers /\ "lock_modified" \in ReadLabels
  BY DEF modifiedQueueCond, ReadLabels
<1>3. readPc' \in Signalled([readPc EXCEPT ![r] = "check"], modifiedQueueCond,
                            "lock_modified")
  BY DEF ReadPopModified
<1> QED
  BY <1>1, <1>2, <1>3, SignalReaders

\* The labels at which a pusher works on one of its neighbours.
PushOnNode == PushLabels \ {"lock_shared", "pop_shared", "wait_shared", "next"}

\* A pusher at work on a neighbour has an action of a user of the graph, and the
\* neighbour is one of that user's.
LEMMA NeighbourOK ==
  ASSUME TypeOK, NEW p \in Pushers, pushPc[p] \in PushOnNode
  PROVE  /\ popped[p] \in Created
         /\ User(p) \in Nodes
         /\ Neighbour(p) \in NeighbourSet(User(p))
         /\ Neighbour(p) \in Nodes
<1>1. p \in Busy
  BY DEF Busy, PushIn, PushOnNode
<1>2. popped[p] \in Created /\ nbr[p] \in 1..Len(Neighbours[User(p)])
  BY <1>1 DEF TypeOK, PushType, PushOnNode
<1>3. heap[popped[p]] \in ActionFields
  BY <1>2 DEF TypeOK, LogType, Created
<1>4. User(p) \in Nodes
  BY <1>3 DEF User, ActionFields
<1> QED
  BY <1>2, <1>4, GraphAssumption DEF Neighbour, NeighbourSet

\* createAction adds an object and changes none.
LEMMA HeapGrows ==
  ASSUME TypeOK, SimCreate
  PROVE  /\ heap' \in Seq(ActionFields)
         /\ Created' = Created \cup {Len(heap) + 1}
         /\ \A a \in Created : heap'[a] = heap[a]
BY DEF TypeOK, LogType, SimType, SimCreate, ActionFields, Created

\* Every step of userSimulator, pushUpdate and readPost keeps the types.
LEMMA TypeSim ==
  ASSUME TypeOK, UserSimulator
  PROVE  TypeOK'
<1> USE ThreadAssumption DEF TypeOK
<1>1. CASE SimSelect
  BY <1>1, LogSame, QueueSame, MutexSame, PushSame, ReadSame
  DEF SimSelect, SimType, SimLabels, Created
<1>2. CASE SimCreate
  <2>1. Created \subseteq Created' /\ Len(heap) + 1 \in Created'
    BY <1>2, HeapGrows
  <2>2. sharedQueue \in Seq(Created') /\ temp \in Seq(Created')
    BY <2>1, SeqWiden DEF QueueType, SimType
  <2>3. LogType' /\ QueueType'
    BY <1>2, <2>1, <2>2, HeapGrows DEF SimCreate, LogType, QueueType
  <2>4. MutexType'
    BY <1>2, MutexSame DEF SimCreate
  <2>5. SimType'
    BY <1>2, <2>1, <2>2 DEF SimCreate, SimType, SimLabels
  <2>6. PushType'
    BY <1>2, <2>1, HeapGrows DEF SimCreate, PushType, Busy, PushIn, User
  <2>7. ReadType'
    BY <1>2, <2>1 DEF SimCreate, ReadType
  <2> QED
    BY <2>3, <2>4, <2>5, <2>6, <2>7
<1>3. CASE SimLockShared
  BY <1>3, LogSame, QueueSame, PushSame, ReadSame
  DEF SimLockShared, MutexType, SimType, Threads, SimLabels, Created
<1>4. CASE SimPushShared
  <2>1. PushType'
    BY <1>4, SharedSignal DEF SimPushShared, SignalMoves, sharedQueueCond, PushType,
                               Busy, PushIn, User, Created
  <2>2. QueueType'
    BY <1>4 DEF SimPushShared, QueueType, SimType, Created
  <2>3. MutexType' /\ SimType'
    BY <1>4 DEF SimPushShared, MutexType, SimType, SimLabels, Created
  <2> QED
    BY <1>4, <2>1, <2>2, <2>3, LogSame, ReadSame DEF SimPushShared
<1>5. CASE SimLockFile
  BY <1>5, LogSame, QueueSame, PushSame, ReadSame
  DEF SimLockFile, MutexType, SimType, Threads, SimLabels, Created
<1>6. CASE SimPrint
  <2>1. PushType'
    BY <1>6, CreatedSignal DEF SimPrint, SignalMoves, actionPrintedCond, PushType,
                                Busy, PushIn, User, Created
  <2>2. LogType'
    <3>1. temp[printed + 1] \in Created
      BY <1>6 DEF SimPrint, SimType
    <3> QED
      BY <1>6, <3>1 DEF SimPrint, LogType, Created
  <2>3. SimType'
    BY <1>6 DEF SimPrint, SimType, Created
  <2> QED
    BY <1>6, <2>1, <2>2, <2>3, QueueSame, MutexSame, ReadSame DEF SimPrint
<1>7. CASE SimUnlockFile
  BY <1>7, LogSame, QueueSame, PushSame, ReadSame
  DEF SimUnlockFile, MutexType, SimType, Threads, SimLabels, Created
<1> QED
  BY <1>1, <1>2, <1>3, <1>4, <1>5, <1>6, <1>7
  DEF UserSimulator

\* The types, for the steps of a pusher.
LEMMA TypePush ==
  ASSUME TypeOK, NEW p \in Pushers,
         PushUpdate(p) \/ WakePusher(p)
  PROVE  TypeOK'
<1> USE ThreadAssumption DEF TypeOK
<1>1. CASE PushLockShared(p)
  BY <1>1, LogSame, QueueSame, SimSame, ReadSame
  DEF PushLockShared, MutexType, PushType, Threads, PushLabels, Busy, PushIn,
      User, PushGoto, Created
<1>2. CASE PushWaitShared(p)
  BY <1>2, LogSame, QueueSame, SimSame, ReadSame
  DEF PushWaitShared, MutexType, PushType, Threads, PushLabels, Busy, PushIn,
      User, PushGoto, Created
<1>3. CASE PushPopShared(p)
  <2>1. Head(sharedQueue) \in Created /\ QueueType'
    BY <1>3 DEF PushPopShared, QueueType, Created
  <2>2. PushType'
    BY <1>3, <2>1 DEF PushPopShared, PushGoto, PushType, PushLabels, Busy, PushIn,
                     User, Created
  <2>3. MutexType'
    BY <1>3 DEF PushPopShared, MutexType, Threads
  <2> QED
    BY <1>3, <2>1, <2>2, <2>3, LogSame, SimSame, ReadSame DEF PushPopShared
<1>4. CASE PushNextNeighbour(p)
  BY <1>4, LogSame, QueueSame, MutexSame, SimSame, ReadSame
  DEF PushNextNeighbour, PushType, PushLabels, Busy, PushIn, User, PushGoto,
      Created
<1>5. CASE PushLockFeed(p)
  BY <1>5, LogSame, QueueSame, SimSame, ReadSame
  DEF PushLockFeed, MutexType, PushType, Threads, PushLabels, Busy, PushIn,
      User, PushGoto, Created
<1>6. CASE PushFeed(p)
  BY <1>6, LogSame, MutexSame, SimSame, ReadSame
  DEF PushFeed, QueueType, PushType, PushLabels, Busy, PushIn, User, PushGoto,
      Created
<1>7. CASE PushLockModified(p)
  BY <1>7, LogSame, QueueSame, SimSame, ReadSame
  DEF PushLockModified, MutexType, PushType, Threads, PushLabels, Busy, PushIn,
      User, PushGoto, Created
<1>8. CASE PushModified(p)
  <2>1. ReadType'
    BY <1>8, ModifiedSignal DEF PushModified, ReadType, Created
  <2>2. Neighbour(p) \in Nodes
    BY <1>8, NeighbourOK DEF PushModified, PushGoto, PushOnNode, PushLabels
  <2>3. QueueType'
    BY <1>8, <2>2 DEF PushModified, QueueType, LogType, Modification, Created
  <2>4. MutexType' /\ PushType'
    BY <1>8 DEF PushModified, PushGoto, MutexType, Threads, PushType, PushLabels,
               Busy, PushIn, User, Created
  <2> QED
    BY <1>8, <2>1, <2>3, <2>4, LogSame, SimSame DEF PushModified
<1>9. CASE PushUnlockFeed(p)
  BY <1>9, LogSame, QueueSame, SimSame, ReadSame
  DEF PushUnlockFeed, MutexType, PushType, Threads, PushLabels, Busy, PushIn,
      User, PushGoto, Created
<1>10. CASE PushLockFile(p)
  BY <1>10, LogSame, QueueSame, SimSame, ReadSame
  DEF PushLockFile, MutexType, PushType, Threads, PushLabels, Busy, PushIn,
      User, PushGoto, Created
<1>11. CASE PushWaitCreated(p)
  BY <1>11, LogSame, QueueSame, SimSame, ReadSame
  DEF PushWaitCreated, MutexType, PushType, Threads, PushLabels, Busy, PushIn,
      User, PushGoto, Created
<1>12. CASE PushPrint(p)
  <2>1. Neighbour(p) \in Nodes /\ popped[p] \in Created
    BY <1>12, NeighbourOK DEF PushPrint, PushGoto, PushOnNode, PushLabels
  <2>2. ReadType'
    BY <1>12, FlagSignal DEF PushPrint, ReadType, Created
  <2>3. LogType'
    BY <1>12, <2>1 DEF PushPrint, LogType, Created
  <2>4. MutexType'
    BY <1>12 DEF PushPrint, MutexType, Threads
  <2>5. PushType'
    BY <1>12 DEF PushPrint, PushGoto, PushType, PushLabels, Busy, PushIn, User, Created
  <2> QED
    BY <1>12, <2>2, <2>3, <2>4, <2>5, QueueSame, SimSame DEF PushPrint
<1>13. CASE WakePusher(p)
  BY <1>13, LogSame, QueueSame, MutexSame, SimSame, ReadSame
  DEF WakePusher, PushType, PushLabels, Busy, PushIn, User, PushGoto, Created
<1> QED
  BY <1>1, <1>2, <1>3, <1>4, <1>5, <1>6, <1>7, <1>8, <1>9, <1>10, <1>11, <1>12,
     <1>13
  DEF PushUpdate

\* The types, for the steps of a reader.
LEMMA TypeRead ==
  ASSUME TypeOK, NEW r \in Readers,
         ReadPost(r) \/ WakeReader(r)
  PROVE  TypeOK'
<1> USE ThreadAssumption DEF TypeOK
<1>1. CASE ReadLockModified(r)
  BY <1>1, LogSame, QueueSame, SimSame, PushSame
  DEF ReadLockModified, MutexType, ReadType, Threads, ReadLabels, ReadGoto,
      Created
<1>2. CASE ReadWaitModified(r)
  BY <1>2, LogSame, QueueSame, SimSame, PushSame
  DEF ReadWaitModified, MutexType, ReadType, Threads, ReadLabels, ReadGoto,
      Created
<1>3. CASE ReadPopModified(r)
  <2>1. Head(modifiedQueue) \in Modification /\ QueueType'
    BY <1>3 DEF ReadPopModified, QueueType, Created
  <2>2. ReadType'
    BY <1>3, PopSignal, <2>1 DEF ReadPopModified, ReadType, Created
  <2>3. MutexType'
    BY <1>3 DEF ReadPopModified, MutexType, Threads
  <2> QED
    BY <1>3, <2>1, <2>2, <2>3, LogSame, SimSame, PushSame DEF ReadPopModified
<1>4. CASE ReadCheck(r)
  BY <1>4, LogSame, QueueSame, MutexSame, SimSame, PushSame
  DEF ReadCheck, ReadType, ReadLabels, ReadGoto, Created
<1>5. CASE ReadLockFeed(r)
  BY <1>5, LogSame, QueueSame, SimSame, PushSame
  DEF ReadLockFeed, MutexType, ReadType, Threads, ReadLabels, ReadGoto, Created
<1>6. CASE ReadDrain(r)
  <2>1. elem[r].node \in Nodes /\ feed[elem[r].node] \subseteq Created
    BY DEF ReadType, QueueType, Modification
  <2>2. QueueType'
    BY <1>6, <2>1 DEF ReadDrain, QueueType, LogType, Created
  <2>3. ReadType'
    BY <1>6, <2>1 DEF ReadDrain, ReadGoto, ReadType, ReadLabels, Created
  <2> QED
    BY <1>6, <2>2, <2>3, LogSame, MutexSame, SimSame, PushSame DEF ReadDrain
<1>7. CASE ReadLockFile(r)
  BY <1>7, LogSame, QueueSame, SimSame, PushSame
  DEF ReadLockFile, MutexType, ReadType, Threads, ReadLabels, ReadGoto, Created
<1>8. CASE ReadAction(r)
  BY <1>8, QueueSame, MutexSame, SimSame, PushSame
  DEF ReadAction, LogType, ReadType, ReadLabels, ReadGoto, Created
<1>9. CASE ReadWaitFlag(r)
  <2>1. Upcoming(r) \subseteq Nat \cup {NoAction}
    BY DEF Upcoming, Tops, ReadType, Created
  <2>2. ReadType'
    BY <1>9, <2>1 DEF ReadWaitFlag, ReadGoto, ReadType, ReadLabels, Created
  <2>3. MutexType'
    BY <1>9 DEF ReadWaitFlag, MutexType, Threads
  <2> QED
    BY <1>9, <2>2, <2>3, LogSame, QueueSame, SimSame, PushSame DEF ReadWaitFlag
<1>10. CASE ReadUnlockFile(r)
  BY <1>10, LogSame, QueueSame, SimSame, PushSame
  DEF ReadUnlockFile, MutexType, ReadType, Threads, ReadLabels, ReadGoto,
      Created
<1>11. CASE ReadUnlockFeed(r)
  BY <1>11, LogSame, QueueSame, SimSame, PushSame
  DEF ReadUnlockFeed, MutexType, ReadType, Threads, ReadLabels, ReadGoto,
      Created
<1>12. CASE WakeReader(r)
  BY <1>12, LogSame, QueueSame, MutexSame, SimSame, PushSame
  DEF WakeReader, ReadType, ReadLabels, ReadGoto, Created
<1> QED
  BY <1>1, <1>2, <1>3, <1>4, <1>5, <1>6, <1>7, <1>8, <1>9, <1>10, <1>11, <1>12
  DEF ReadPost

\* The type invariant holds in every behaviour: no pusher ever uses an action
\* that was not created, or an index beyond the neighbours of its user.
THEOREM TypeCorrect == Spec => []TypeOK
<1>1. TypeOK /\ [Next]_vars => TypeOK'
  <2> SUFFICES ASSUME TypeOK, [Next]_vars PROVE TypeOK'
    OBVIOUS
  <2>1. CASE Tick
    BY <2>1, QueueSame, MutexSame, SimSame, PushSame, ReadSame
    DEF Tick, TypeOK, LogType, Created
  <2>2. CASE UNCHANGED vars
    BY <2>2, LogSame, QueueSame, MutexSame, SimSame, PushSame, ReadSame
    DEF vars, TypeOK
  <2> QED
    BY <2>1, <2>2, TypeSim, TypePush, TypeRead DEF Next
<1> QED
  BY <1>1, TypeInit, PTL DEF Spec

-----------------------------------------------------------------------------
(* Mutual exclusion *)

\* Creating an action moves no pusher from the neighbour it works on.
LEMMA NeighbourStable ==
  ASSUME TypeOK, SimCreate, NEW p \in Pushers, pushPc[p] \in PushOnNode
  PROVE  Neighbour(p)' = Neighbour(p)
<1>1. heap'[popped[p]] = heap[popped[p]]
  BY NeighbourOK, HeapGrows
<1> QED
  BY <1>1 DEF SimCreate, pushVars, Neighbour, User

\* Every step keeps the owners of the mutexes and the threads inside in agreement.
LEMMA MutexSim ==
  ASSUME TypeOK, MutualExclusion, UserSimulator
  PROVE  MutualExclusion'
<1> USE ThreadAssumption
        DEF TypeOK, MutexType, SimType, PushType, ReadType, Threads, MutualExclusion,
            HeldBy, SharedHolders, ModifiedHolders, FileHolders, FeedHolders,
            SimIn, PushIn, ReadIn, PushOnFeed, ReadOnFeed, PushOnNode,
            PushLabels, Neighbour, User, PushGoto, ReadGoto
<1>1. CASE SimSelect
  BY <1>1 DEF SimSelect
<1>2. CASE SimCreate
  <2>1. HeldBy(sharedQueueMutex, SharedHolders)'
    BY <1>2 DEF SimCreate
  <2>2. HeldBy(modifiedQueueMutex, ModifiedHolders)'
    BY <1>2 DEF SimCreate
  <2>3. HeldBy(writeToFileMutex, FileHolders)'
    BY <1>2 DEF SimCreate
  <2>4. (\A n \in Nodes : HeldBy(feedMutex[n], FeedHolders(n)))'
    <3>1. \A n \in Nodes : FeedHolders(n)' = FeedHolders(n)
      <4> SUFFICES ASSUME NEW n \in Nodes PROVE FeedHolders(n)' = FeedHolders(n)
        OBVIOUS
      <4>1. \A p \in PushIn(PushOnFeed) : Neighbour(p)' = Neighbour(p)
        BY <1>2, NeighbourStable
      <4>2. UNCHANGED <<PushIn(PushOnFeed), ReadIn(ReadOnFeed)>>
        BY <1>2 DEF SimCreate
      <4> HIDE DEF Neighbour, PushIn, ReadIn
      <4> QED
        BY <1>2, <4>1, <4>2 DEF SimCreate
    <3> QED
      BY <1>2, <3>1 DEF SimCreate
  <2> QED
    BY <2>1, <2>2, <2>3, <2>4
<1>3. CASE SimLockShared
  BY <1>3 DEF SimLockShared
<1>4. CASE SimPushShared
  <2>1. \A p \in Pushers : \/ pushPc'[p] = pushPc[p]
                           \/ pushPc[p] = "wait_shared" /\ pushPc'[p] = "lock_shared"
    BY <1>4, SharedSignal DEF SignalMoves, sharedQueueCond
  <2>2. HeldBy(sharedQueueMutex, SharedHolders)'
    BY <1>4, <2>1 DEF SimPushShared
  <2>3. HeldBy(modifiedQueueMutex, ModifiedHolders)'
    BY <1>4, <2>1 DEF SimPushShared
  <2>4. HeldBy(writeToFileMutex, FileHolders)'
    BY <1>4, <2>1 DEF SimPushShared
  <2>5. (\A n \in Nodes : HeldBy(feedMutex[n], FeedHolders(n)))'
    <3>1. UNCHANGED <<PushIn(PushOnFeed), ReadIn(ReadOnFeed)>>
      BY <1>4, <2>1 DEF SimPushShared
    <3>2. \A q \in PushIn(PushOnFeed) : Neighbour(q)' = Neighbour(q)
      BY <1>4 DEF SimPushShared
    <3> HIDE DEF PushIn, ReadIn, Neighbour
    <3> QED
      BY <1>4, <3>1, <3>2 DEF SimPushShared
  <2> QED
    BY <2>2, <2>3, <2>4, <2>5
<1>5. CASE SimLockFile
  BY <1>5 DEF SimLockFile
<1>6. CASE SimPrint
  <2>1. \A p \in Pushers : \/ pushPc'[p] = pushPc[p]
                           \/ pushPc[p] = "wait_created" /\ pushPc'[p] = "lock_file"
    BY <1>6, CreatedSignal DEF SignalMoves, actionPrintedCond
  <2>2. HeldBy(sharedQueueMutex, SharedHolders)'
    BY <1>6, <2>1 DEF SimPrint
  <2>3. HeldBy(modifiedQueueMutex, ModifiedHolders)'
    BY <1>6, <2>1 DEF SimPrint
  <2>4. HeldBy(writeToFileMutex, FileHolders)'
    BY <1>6, <2>1 DEF SimPrint
  <2>5. (\A n \in Nodes : HeldBy(feedMutex[n], FeedHolders(n)))'
    BY <1>6, <2>1 DEF SimPrint
  <2> QED
    BY <2>2, <2>3, <2>4, <2>5
<1>7. CASE SimUnlockFile
  BY <1>7 DEF SimUnlockFile
<1> QED
  BY <1>1, <1>2, <1>3, <1>4, <1>5, <1>6, <1>7
  DEF UserSimulator

\* Mutual exclusion, for the steps of a pusher.
LEMMA MutexPush ==
  ASSUME TypeOK, MutualExclusion, NEW p \in Pushers,
         PushUpdate(p) \/ WakePusher(p)
  PROVE  MutualExclusion'
<1> USE ThreadAssumption
        DEF TypeOK, MutexType, SimType, PushType, ReadType, Threads, MutualExclusion,
            HeldBy, SharedHolders, ModifiedHolders, FileHolders, FeedHolders,
            SimIn, PushIn, ReadIn, PushOnFeed, ReadOnFeed, PushOnNode,
            PushLabels, Neighbour, User, PushGoto, ReadGoto
<1>1. CASE PushLockShared(p)
  BY <1>1 DEF PushLockShared
<1>2. CASE PushWaitShared(p)
  BY <1>2 DEF PushWaitShared
<1>3. CASE PushPopShared(p)
  <2>1. HeldBy(sharedQueueMutex, SharedHolders)'
    BY <1>3 DEF PushPopShared
  <2>2. HeldBy(modifiedQueueMutex, ModifiedHolders)'
    BY <1>3 DEF PushPopShared
  <2>3. HeldBy(writeToFileMutex, FileHolders)'
    BY <1>3 DEF PushPopShared
  <2>4. (\A n \in Nodes : HeldBy(feedMutex[n], FeedHolders(n)))'
    BY <1>3 DEF PushPopShared
  <2> QED
    BY <2>1, <2>2, <2>3, <2>4
<1>4. CASE PushNextNeighbour(p)
  BY <1>4 DEF PushNextNeighbour
<1>5. CASE PushLockFeed(p)
  BY <1>5 DEF PushLockFeed
<1>6. CASE PushFeed(p)
  BY <1>6 DEF PushFeed
<1>7. CASE PushLockModified(p)
  BY <1>7 DEF PushLockModified
<1>8. CASE PushModified(p)
  <2>1. \A r \in Readers : \/ readPc'[r] = readPc[r]
                           \/ readPc[r] = "wait_modified" /\ readPc'[r] = "lock_modified"
    BY <1>8, ModifiedSignal DEF SignalMoves, modifiedQueueCond
  <2> QED
    BY <1>8, <2>1 DEF PushModified
<1>9. CASE PushUnlockFeed(p)
  BY <1>9 DEF PushUnlockFeed
<1>10. CASE PushLockFile(p)
  BY <1>10 DEF PushLockFile
<1>11. CASE PushWaitCreated(p)
  BY <1>11 DEF PushWaitCreated
<1>12. CASE PushPrint(p)
  <2>1. \A r \in Readers : \/ readPc'[r] = readPc[r]
                           \/ readPc[r] = "wait_flag" /\ readPc'[r] = "lock_file"
    BY <1>12, FlagSignal DEF SignalMoves, feedPushPrintedCond
  <2>2. HeldBy(sharedQueueMutex, SharedHolders)'
    BY <1>12, <2>1 DEF PushPrint
  <2>3. HeldBy(modifiedQueueMutex, ModifiedHolders)'
    BY <1>12, <2>1 DEF PushPrint
  <2>4. HeldBy(writeToFileMutex, FileHolders)'
    BY <1>12, <2>1 DEF PushPrint
  <2>5. (\A n \in Nodes : HeldBy(feedMutex[n], FeedHolders(n)))'
    <3>1. UNCHANGED <<PushIn(PushOnFeed), ReadIn(ReadOnFeed)>>
      BY <1>12, <2>1 DEF PushPrint
    <3>2. \A q \in PushIn(PushOnFeed) : Neighbour(q)' = Neighbour(q)
      BY <1>12 DEF PushPrint
    <3> HIDE DEF PushIn, ReadIn, Neighbour
    <3> QED
      BY <1>12, <3>1, <3>2 DEF PushPrint
  <2> QED
    BY <2>2, <2>3, <2>4, <2>5
<1>13. CASE WakePusher(p)
  <2>1. HeldBy(sharedQueueMutex, SharedHolders)'
    BY <1>13 DEF WakePusher
  <2>2. HeldBy(modifiedQueueMutex, ModifiedHolders)'
    BY <1>13 DEF WakePusher
  <2>3. HeldBy(writeToFileMutex, FileHolders)'
    BY <1>13 DEF WakePusher
  <2>4. (\A n \in Nodes : HeldBy(feedMutex[n], FeedHolders(n)))'
    BY <1>13 DEF WakePusher
  <2> QED
    BY <2>1, <2>2, <2>3, <2>4
<1> QED
  BY <1>1, <1>2, <1>3, <1>4, <1>5, <1>6, <1>7, <1>8, <1>9, <1>10, <1>11, <1>12,
     <1>13
  DEF PushUpdate

\* Mutual exclusion, for the steps of a reader.
LEMMA MutexRead ==
  ASSUME TypeOK, MutualExclusion, NEW r \in Readers,
         ReadPost(r) \/ WakeReader(r)
  PROVE  MutualExclusion'
<1> USE ThreadAssumption
        DEF TypeOK, MutexType, SimType, PushType, ReadType, Threads, MutualExclusion,
            HeldBy, SharedHolders, ModifiedHolders, FileHolders, FeedHolders,
            SimIn, PushIn, ReadIn, PushOnFeed, ReadOnFeed, PushOnNode,
            PushLabels, Neighbour, User, PushGoto, ReadGoto
<1>1. CASE ReadLockModified(r)
  BY <1>1 DEF ReadLockModified
<1>2. CASE ReadWaitModified(r)
  BY <1>2 DEF ReadWaitModified
<1>3. CASE ReadPopModified(r)
  <2>1. \A q \in Readers :
          IF q = r THEN readPc'[q] = "check"
          ELSE \/ readPc'[q] = readPc[q]
               \/ readPc[q] = "wait_modified" /\ readPc'[q] = "lock_modified"
    BY PopSignal, <1>3 DEF SignalMoves, modifiedQueueCond, ReadPopModified
  <2>2. HeldBy(sharedQueueMutex, SharedHolders)'
    BY <1>3, <2>1 DEF ReadPopModified
  <2>3. HeldBy(modifiedQueueMutex, ModifiedHolders)'
    BY <1>3, <2>1 DEF ReadPopModified
  <2>4. HeldBy(writeToFileMutex, FileHolders)'
    BY <1>3, <2>1 DEF ReadPopModified
  <2>5. (\A n \in Nodes : HeldBy(feedMutex[n], FeedHolders(n)))'
    BY <1>3, <2>1 DEF ReadPopModified
  <2> QED
    BY <2>2, <2>3, <2>4, <2>5
<1>4. CASE ReadCheck(r)
  BY <1>4 DEF ReadCheck
<1>5. CASE ReadLockFeed(r)
  BY <1>5 DEF ReadLockFeed
<1>6. CASE ReadDrain(r)
  BY <1>6 DEF ReadDrain
<1>7. CASE ReadLockFile(r)
  BY <1>7 DEF ReadLockFile
<1>8. CASE ReadAction(r)
  BY <1>8 DEF ReadAction
<1>9. CASE ReadWaitFlag(r)
  BY <1>9 DEF ReadWaitFlag
<1>10. CASE ReadUnlockFile(r)
  BY <1>10 DEF ReadUnlockFile
<1>11. CASE ReadUnlockFeed(r)
  BY <1>11 DEF ReadUnlockFeed
<1>12. CASE WakeReader(r)
  BY <1>12 DEF WakeReader
<1> QED
  BY <1>1, <1>2, <1>3, <1>4, <1>5, <1>6, <1>7, <1>8, <1>9, <1>10, <1>11, <1>12
  DEF ReadPost

\* Mutual exclusion in every behaviour: the queues, the feeds and the log are
\* each used by one thread at a time, whatever the number of threads.
THEOREM MutexCorrect == Spec => []MutualExclusion
<1>1. Init => MutualExclusion
  BY ThreadAssumption
  DEF Init, MutualExclusion, HeldBy, SharedHolders, ModifiedHolders, FileHolders,
      FeedHolders, SimIn, PushIn, ReadIn, PushOnFeed, ReadOnFeed, Threads
<1>2. TypeOK /\ MutualExclusion /\ [Next]_vars => MutualExclusion'
  <2> SUFFICES ASSUME TypeOK, MutualExclusion, [Next]_vars PROVE MutualExclusion'
    OBVIOUS
  <2>1. CASE UNCHANGED vars \/ Tick
    BY <2>1 DEF vars, Tick, MutualExclusion, HeldBy,
                SharedHolders, ModifiedHolders, FileHolders, FeedHolders, SimIn,
                PushIn, ReadIn, Neighbour, User
  <2> QED
    BY <2>1, MutexSim, MutexPush, MutexRead DEF Next
<1> QED
  BY <1>1, <1>2, TypeCorrect, PTL DEF Spec

-----------------------------------------------------------------------------
(* The order of the log *)

\* Every step keeps the log in order.
LEMMA LogSim ==
  ASSUME TypeOK, LogOrder, UserSimulator
  PROVE  LogOrder'
<1> USE DEF TypeOK, LogOrder, Deliveries, Created, PushGoto, ReadGoto
<1>1. CASE SimSelect
  BY <1>1 DEF SimSelect
<1>2. CASE SimCreate
  <2>1. Deliveries \subseteq Deliveries'
    BY <1>2, HeapGrows DEF Deliveries
  <2> HIDE DEF Deliveries
  <2> QED
    BY <1>2, <2>1 DEF SimCreate
<1>3. CASE SimLockShared
  BY <1>3 DEF SimLockShared
<1>4. CASE SimPushShared
  BY <1>4 DEF SimPushShared
<1>5. CASE SimLockFile
  BY <1>5 DEF SimLockFile
<1>6. CASE SimPrint
  BY <1>6 DEF SimPrint
<1>7. CASE SimUnlockFile
  BY <1>7 DEF SimUnlockFile
<1> QED
  BY <1>1, <1>2, <1>3, <1>4, <1>5, <1>6, <1>7
  DEF UserSimulator

\* The order of the log, for the steps of a pusher.
LEMMA LogPush ==
  ASSUME TypeOK, LogOrder, NEW p \in Pushers,
         PushUpdate(p) \/ WakePusher(p)
  PROVE  LogOrder'
<1> USE DEF TypeOK, LogOrder, Deliveries, Created, PushGoto, ReadGoto
<1>1. CASE PushLockShared(p)
  BY <1>1 DEF PushLockShared
<1>2. CASE PushWaitShared(p)
  BY <1>2 DEF PushWaitShared
<1>3. CASE PushPopShared(p)
  BY <1>3 DEF PushPopShared
<1>4. CASE PushNextNeighbour(p)
  BY <1>4 DEF PushNextNeighbour
<1>5. CASE PushLockFeed(p)
  BY <1>5 DEF PushLockFeed
<1>6. CASE PushFeed(p)
  BY <1>6 DEF PushFeed
<1>7. CASE PushLockModified(p)
  BY <1>7 DEF PushLockModified
<1>8. CASE PushModified(p)
  BY <1>8 DEF PushModified
<1>9. CASE PushUnlockFeed(p)
  BY <1>9 DEF PushUnlockFeed
<1>10. CASE PushLockFile(p)
  BY <1>10 DEF PushLockFile
<1>11. CASE PushWaitCreated(p)
  BY <1>11 DEF PushWaitCreated
<1>12. CASE PushPrint(p)
  <2>1. /\ popped[p] \in Created
        /\ Neighbour(p) \in Nodes
        /\ Neighbour(p) \in NeighbourSet(User(p))
    BY <1>12, NeighbourOK DEF PushPrint, PushOnNode, PushLabels
  <2>2. <<popped[p], Neighbour(p)>> \in Deliveries
    BY <2>1 DEF Deliveries, User
  <2>3. Deliveries' = Deliveries
    BY <1>12 DEF PushPrint, Deliveries
  <2> HIDE DEF Deliveries
  <2> QED
    BY <1>12, <2>2, <2>3 DEF PushPrint
<1>13. CASE WakePusher(p)
  BY <1>13 DEF WakePusher
<1> QED
  BY <1>1, <1>2, <1>3, <1>4, <1>5, <1>6, <1>7, <1>8, <1>9, <1>10, <1>11, <1>12,
     <1>13
  DEF PushUpdate

\* The order of the log, for the steps of a reader.
LEMMA LogRead ==
  ASSUME TypeOK, LogOrder, NEW r \in Readers,
         ReadPost(r) \/ WakeReader(r)
  PROVE  LogOrder'
<1> USE DEF TypeOK, LogOrder, Deliveries, Created, PushGoto, ReadGoto
<1>1. CASE ReadLockModified(r)
  BY <1>1 DEF ReadLockModified
<1>2. CASE ReadWaitModified(r)
  BY <1>2 DEF ReadWaitModified
<1>3. CASE ReadPopModified(r)
  BY <1>3 DEF ReadPopModified
<1>4. CASE ReadCheck(r)
  BY <1>4 DEF ReadCheck
<1>5. CASE ReadLockFeed(r)
  BY <1>5 DEF ReadLockFeed
<1>6. CASE ReadDrain(r)
  BY <1>6 DEF ReadDrain
<1>7. CASE ReadLockFile(r)
  BY <1>7 DEF ReadLockFile
<1>8. CASE ReadAction(r)
  BY <1>8 DEF ReadAction
<1>9. CASE ReadWaitFlag(r)
  BY <1>9 DEF ReadWaitFlag
<1>10. CASE ReadUnlockFile(r)
  BY <1>10 DEF ReadUnlockFile
<1>11. CASE ReadUnlockFeed(r)
  BY <1>11 DEF ReadUnlockFeed
<1>12. CASE WakeReader(r)
  BY <1>12 DEF WakeReader
<1> QED
  BY <1>1, <1>2, <1>3, <1>4, <1>5, <1>6, <1>7, <1>8, <1>9, <1>10, <1>11, <1>12
  DEF ReadPost

\* In every behaviour sns.log tells each delivery in order: created, pushed, read.
THEOREM LogCorrect == Spec => []LogOrder
<1>1. Init => LogOrder
  BY DEF Init, LogOrder
<1>2. TypeOK /\ LogOrder /\ [Next]_vars => LogOrder'
  <2> SUFFICES ASSUME TypeOK, LogOrder, [Next]_vars PROVE LogOrder'
    OBVIOUS
  <2>1. CASE UNCHANGED vars \/ Tick
    BY <2>1 DEF vars, Tick, LogOrder, Deliveries, Created
  <2> QED
    BY <2>1, LogSim, LogPush, LogRead DEF Next
<1> QED
  BY <1>1, <1>2, TypeCorrect, PTL DEF Spec

-----------------------------------------------------------------------------
(* No feed is forgotten *)

\* What FeedTracked rests on: no feed was drained in the future, so the time of
\* a push is never before lastUpdated.
LastUpdatedPast == \A n \in Nodes : lastUpdated[n] <= clock

\* Every step keeps a reader to come for each feed that is not empty.
LEMMA FeedSim ==
  ASSUME TypeOK, FeedTracked, LastUpdatedPast, UserSimulator
  PROVE  FeedTracked' /\ LastUpdatedPast'
<1> USE DEF TypeOK, LogType, QueueType, PushType, ReadType, Modification, FeedTracked,
            LastUpdatedPast, Tracked, Stale, PushIn, Neighbour, User, PushGoto,
            ReadGoto
<1>1. CASE SimSelect
  BY <1>1 DEF SimSelect
<1>2. CASE SimCreate
  <2>1. \A p \in PushIn({"lock_modified", "push_modified"}) :
          Neighbour(p)' = Neighbour(p)
    BY <1>2, NeighbourStable DEF PushOnNode, PushLabels
  <2> HIDE DEF Neighbour
  <2> QED
    BY <1>2, <2>1 DEF SimCreate
<1>3. CASE SimLockShared
  BY <1>3 DEF SimLockShared
<1>4. CASE SimPushShared
  <2>1. \A p \in Pushers : \/ pushPc'[p] = pushPc[p]
                           \/ pushPc[p] = "wait_shared" /\ pushPc'[p] = "lock_shared"
    BY <1>4, SharedSignal DEF SignalMoves, sharedQueueCond
  <2> QED
    BY <1>4, <2>1 DEF SimPushShared
<1>5. CASE SimLockFile
  BY <1>5 DEF SimLockFile
<1>6. CASE SimPrint
  <2>1. \A p \in Pushers : \/ pushPc'[p] = pushPc[p]
                           \/ pushPc[p] = "wait_created" /\ pushPc'[p] = "lock_file"
    BY <1>6, CreatedSignal DEF SignalMoves, actionPrintedCond
  <2> QED
    BY <1>6, <2>1 DEF SimPrint
<1>7. CASE SimUnlockFile
  BY <1>7 DEF SimUnlockFile
<1> QED
  BY <1>1, <1>2, <1>3, <1>4, <1>5, <1>6, <1>7
  DEF UserSimulator

\* Tracked feeds, for the steps of a pusher.
LEMMA FeedPush ==
  ASSUME TypeOK, FeedTracked, LastUpdatedPast, NEW p \in Pushers,
         PushUpdate(p) \/ WakePusher(p)
  PROVE  FeedTracked' /\ LastUpdatedPast'
<1> USE DEF TypeOK, LogType, QueueType, PushType, ReadType, Modification, FeedTracked,
            LastUpdatedPast, Tracked, Stale, PushIn, Neighbour, User, PushGoto,
            ReadGoto
<1>1. CASE PushLockShared(p)
  BY <1>1 DEF PushLockShared
<1>2. CASE PushWaitShared(p)
  BY <1>2 DEF PushWaitShared
<1>3. CASE PushPopShared(p)
  BY <1>3 DEF PushPopShared
<1>4. CASE PushNextNeighbour(p)
  BY <1>4 DEF PushNextNeighbour
<1>5. CASE PushLockFeed(p)
  BY <1>5 DEF PushLockFeed
<1>6. CASE PushFeed(p)
  BY <1>6 DEF PushFeed
<1>7. CASE PushLockModified(p)
  BY <1>7 DEF PushLockModified
<1>8. CASE PushModified(p)
  <2>1. \A r \in Readers : \/ readPc'[r] = readPc[r]
                           \/ readPc[r] = "wait_modified" /\ readPc'[r] = "lock_modified"
    BY <1>8, ModifiedSignal DEF SignalMoves, modifiedQueueCond
  <2> DEFINE new == [node |-> Neighbour(p), time |-> clock]
  <2>2. /\ Neighbour(p) \in Nodes
        /\ modifiedQueue' = Append(modifiedQueue, new)
    BY <1>8, NeighbourOK DEF PushModified, PushOnNode, PushLabels
  <2>3. modifiedQueue'[Len(modifiedQueue')] = new /\ Len(modifiedQueue') \in Nat \ {0}
    BY <2>2
  <2>4. \A i \in 1..Len(modifiedQueue) :
          i \in 1..Len(modifiedQueue') /\ modifiedQueue'[i] = modifiedQueue[i]
    BY <2>2
  <2>5. ASSUME NEW n \in Nodes, feed'[n] # {}
        PROVE  Tracked(n)'
    <3>1. feed[n] # {} /\ lastUpdated' = lastUpdated
      BY <1>8, <2>5 DEF PushModified
    <3>2. CASE n = Neighbour(p)
      <4> DEFINE k == Len(modifiedQueue')
      <4>1. modifiedQueue'[k].node = n /\ modifiedQueue'[k].time = clock
        BY <2>3, <3>2
      <4>2. k \in 1..Len(modifiedQueue')
        BY <2>3
      <4>3. ~(clock < lastUpdated'[n])
        BY <3>1
      <4> QED
        BY <4>1, <4>2, <4>3
    <3>3. CASE n # Neighbour(p)
      <4>1. CASE \E i \in 1..Len(modifiedQueue) :
                   modifiedQueue[i].node = n /\ ~Stale(modifiedQueue[i])
        BY <2>4, <3>1, <4>1 DEF Tracked, Stale
      <4>2. CASE \E r \in Readers :
                   /\ elem[r].node = n
                   /\ \/ readPc[r] = "check" /\ ~Stale(elem[r])
                      \/ readPc[r] \in {"lock_feed", "drain"}
        BY <1>8, <2>1, <3>1, <4>2 DEF PushModified, Tracked, Stale
      <4>3. CASE \E q \in PushIn({"lock_modified", "push_modified"}) : Neighbour(q) = n
        BY <1>8, <3>3, <4>3 DEF PushModified, Tracked
      <4> QED
        BY <3>1, <4>1, <4>2, <4>3 DEF Tracked
    <3> QED
      BY <3>2, <3>3
  <2> QED
    BY <1>8, <2>5 DEF PushModified
<1>9. CASE PushUnlockFeed(p)
  BY <1>9 DEF PushUnlockFeed
<1>10. CASE PushLockFile(p)
  BY <1>10 DEF PushLockFile
<1>11. CASE PushWaitCreated(p)
  BY <1>11 DEF PushWaitCreated
<1>12. CASE PushPrint(p)
  <2>1. \A r \in Readers : \/ readPc'[r] = readPc[r]
                           \/ readPc[r] = "wait_flag" /\ readPc'[r] = "lock_file"
    BY <1>12, FlagSignal DEF SignalMoves, feedPushPrintedCond
  <2>2. /\ PushIn({"lock_modified", "push_modified"})'
             = PushIn({"lock_modified", "push_modified"})
        /\ \A q \in PushIn({"lock_modified", "push_modified"}) :
             Neighbour(q)' = Neighbour(q)
    BY <1>12 DEF PushPrint
  <2> HIDE DEF PushIn, Neighbour
  <2> QED
    BY <1>12, <2>1, <2>2 DEF PushPrint
<1>13. CASE WakePusher(p)
  BY <1>13 DEF WakePusher
<1> QED
  BY <1>1, <1>2, <1>3, <1>4, <1>5, <1>6, <1>7, <1>8, <1>9, <1>10, <1>11, <1>12,
     <1>13
  DEF PushUpdate

\* Tracked feeds, for the steps of a reader.
LEMMA FeedRead ==
  ASSUME TypeOK, FeedTracked, LastUpdatedPast, NEW r \in Readers,
         ReadPost(r) \/ WakeReader(r)
  PROVE  FeedTracked' /\ LastUpdatedPast'
<1> USE DEF TypeOK, LogType, QueueType, PushType, ReadType, Modification, FeedTracked,
            LastUpdatedPast, Tracked, Stale, PushIn, Neighbour, User, PushGoto,
            ReadGoto
<1>1. CASE ReadLockModified(r)
  BY <1>1 DEF ReadLockModified
<1>2. CASE ReadWaitModified(r)
  BY <1>2 DEF ReadWaitModified
<1>3. CASE ReadPopModified(r)
  <2>1. \A q \in Readers :
          IF q = r THEN readPc'[q] = "check"
          ELSE \/ readPc'[q] = readPc[q]
               \/ readPc[q] = "wait_modified" /\ readPc'[q] = "lock_modified"
    BY PopSignal, <1>3 DEF SignalMoves, modifiedQueueCond, ReadPopModified
  <2>2. /\ modifiedQueue # <<>>
        /\ elem'[r] = modifiedQueue[1]
        /\ \A i \in 1..Len(modifiedQueue) : i = 1 \/
             (i - 1 \in 1..Len(modifiedQueue') /\ modifiedQueue'[i - 1] = modifiedQueue[i])
    BY <1>3 DEF ReadPopModified
  <2>3. ASSUME NEW n \in Nodes, feed'[n] # {}
        PROVE  Tracked(n)'
    <3>1. feed[n] # {} /\ lastUpdated' = lastUpdated
      BY <1>3, <2>3 DEF ReadPopModified
    <3>2. CASE \E i \in 1..Len(modifiedQueue) :
                 modifiedQueue[i].node = n /\ ~Stale(modifiedQueue[i])
      <4>1. PICK i \in 1..Len(modifiedQueue) :
              modifiedQueue[i].node = n /\ ~Stale(modifiedQueue[i])
        BY <3>2
      <4>2. CASE i = 1
        BY <2>1, <2>2, <3>1, <4>1, <4>2 DEF Tracked, Stale
      <4>3. CASE i # 1
        BY <2>2, <3>1, <4>1, <4>3 DEF Tracked, Stale
      <4> QED
        BY <4>2, <4>3
    <3>3. CASE \E q \in Readers :
                 /\ elem[q].node = n
                 /\ \/ readPc[q] = "check" /\ ~Stale(elem[q])
                    \/ readPc[q] \in {"lock_feed", "drain"}
      BY <1>3, <2>1, <3>1, <3>3 DEF ReadPopModified, Tracked, Stale
    <3>4. CASE \E p \in PushIn({"lock_modified", "push_modified"}) : Neighbour(p) = n
      BY <1>3, <3>4 DEF ReadPopModified, Tracked
    <3> QED
      BY <3>1, <3>2, <3>3, <3>4 DEF Tracked
  <2> QED
    BY <1>3, <2>3 DEF ReadPopModified
<1>4. CASE ReadCheck(r)
  BY <1>4 DEF ReadCheck
<1>5. CASE ReadLockFeed(r)
  BY <1>5 DEF ReadLockFeed
<1>6. CASE ReadDrain(r)
  <2>1. /\ elem[r].node \in Nodes
        /\ feed' = [feed EXCEPT ![elem[r].node] = {}]
        /\ lastUpdated' = [lastUpdated EXCEPT ![elem[r].node] = clock]
        /\ UNCHANGED <<clock, heap, modifiedQueue, pushVars, elem>>
        /\ readPc' = [readPc EXCEPT ![r] = "lock_file"]
    BY <1>6 DEF ReadDrain
  <2>2. LastUpdatedPast'
    BY <2>1
  <2>3. ASSUME NEW n \in Nodes, feed'[n] # {}
        PROVE  Tracked(n)'
    <3>1. n # elem[r].node /\ feed[n] # {} /\ lastUpdated'[n] = lastUpdated[n]
      BY <2>1, <2>3
    <3> QED
      BY <2>1, <3>1
  <2> QED
    BY <2>2, <2>3
<1>7. CASE ReadLockFile(r)
  BY <1>7 DEF ReadLockFile
<1>8. CASE ReadAction(r)
  BY <1>8 DEF ReadAction
<1>9. CASE ReadWaitFlag(r)
  BY <1>9 DEF ReadWaitFlag
<1>10. CASE ReadUnlockFile(r)
  BY <1>10 DEF ReadUnlockFile
<1>11. CASE ReadUnlockFeed(r)
  BY <1>11 DEF ReadUnlockFeed
<1>12. CASE WakeReader(r)
  BY <1>12 DEF WakeReader
<1> QED
  BY <1>1, <1>2, <1>3, <1>4, <1>5, <1>6, <1>7, <1>8, <1>9, <1>10, <1>11, <1>12
  DEF ReadPost

\* In every behaviour an action in a feed has a reader to come: skipping the stale
\* modifications of a node, a check made without its lock, loses no action.
THEOREM FeedCorrect == Spec => []FeedTracked
<1> DEFINE FeedInv == FeedTracked /\ LastUpdatedPast
<1>1. Init => FeedInv
  BY DEF Init, FeedTracked, LastUpdatedPast
<1>2. TypeOK /\ FeedInv /\ [Next]_vars => FeedInv'
  <2> SUFFICES ASSUME TypeOK, FeedTracked, LastUpdatedPast, [Next]_vars
               PROVE  FeedTracked' /\ LastUpdatedPast'
    OBVIOUS
  <2>1. CASE UNCHANGED vars
    BY <2>1 DEF vars, FeedTracked, LastUpdatedPast, Tracked, Stale, PushIn, Neighbour, User
  <2>2. CASE Tick
    <3>1. LastUpdatedPast'
      BY <2>2 DEF Tick, LastUpdatedPast, TypeOK, LogType, QueueType
    <3>2. FeedTracked'
      BY <2>2 DEF Tick, FeedTracked, Tracked, Stale,
                  PushIn, Neighbour, User
    <3> QED
      BY <3>1, <3>2
  <2> QED
    BY <2>1, <2>2, FeedSim, FeedPush, FeedRead DEF Next
<1> QED
  BY <1>1, <1>2, TypeCorrect, PTL DEF Spec

-----------------------------------------------------------------------------
(* 2. Deliveries *)

Idle == {"lock_shared", "pop_shared", "wait_shared"}
Early == {"next", "lock_feed", "push_feed"}
BatchLabels == {"lock_file", "read", "wait_flag"}

\* The simulator has an action in hand, the last of the heap.
Creating == simPc \in {"lock_shared", "push_shared"}

\* The first neighbour whose feed pusher p has not touched.
First(p) == IF pushPc[p] \in Early THEN nbr[p] ELSE nbr[p] + 1

\* Action a is, or has been, at node n.
Had(a, n) == \/ a \in feed[n] \/ <<a, n>> \in readPrinted
             \/ \E r \in Readers : elem[r].node = n /\ a \in batch[r]

HandsInv ==
  /\ \A i, j \in 1..Len(sharedQueue) : sharedQueue[i] = sharedQueue[j] => i = j
  /\ \A p, q \in Busy : popped[p] = popped[q] => p = q
  /\ \A p \in Busy : \A i \in 1..Len(sharedQueue) : popped[p] # sharedQueue[i]
  /\ Creating => /\ temp[Len(temp)] = Len(heap)
                 /\ \A i \in 1..Len(sharedQueue) : sharedQueue[i] # Len(heap)
                 /\ \A p \in Busy : popped[p] # Len(heap)

UntouchedInv == \A n \in Nodes :
  /\ \A i \in 1..Len(sharedQueue) : ~Had(sharedQueue[i], n)
  /\ Creating => ~Had(Len(heap), n)
  /\ \A p \in Busy : \A i \in 1..Len(Neighbours[User(p)]) :
       i >= First(p) /\ n = Neighbours[User(p)][i] => ~Had(popped[p], n)

BatchInv ==
  /\ \A r \in Readers : /\ batch[r] # {} => readPc[r] \in BatchLabels
                        /\ top[r] # NoAction => top[r] \in batch[r]
  /\ \A n \in Nodes : \A a \in feed[n] : <<a, n>> \notin readPrinted
  /\ \A r \in Readers : \A a \in batch[r] :
       a \notin feed[elem[r].node] /\ <<a, elem[r].node>> \notin readPrinted

-----------------------------------------------------------------------------
(* An action is in one hand at a time *)

\* What keeps an action in one hand: nobody takes one, nobody puts one back.
LEMMA HandsSame ==
  ASSUME HandsInv, UNCHANGED <<heap, sharedQueue, popped>>, Busy' \subseteq Busy,
         Creating' => Creating /\ temp' = temp
  PROVE  HandsInv'
BY DEF HandsInv, Creating

\* The hands, for the steps of the simulator.
LEMMA HandsSim ==
  ASSUME TypeOK, HandsInv, UserSimulator
  PROVE  HandsInv'
<1>1. CASE SimSelect
  BY <1>1, HandsSame DEF SimSelect, Creating, Busy, PushIn
<1>2. CASE SimCreate
  <2>1. /\ sharedQueue' = sharedQueue /\ popped' = popped /\ Busy' = Busy
        /\ Len(heap') = Len(heap) + 1 /\ temp' = Append(temp, Len(heap) + 1)
    BY <1>2 DEF SimCreate, Busy, PushIn, TypeOK, LogType
  <2>2. temp'[Len(temp')] = Len(heap')
    BY <2>1 DEF TypeOK, SimType
  <2>3. \A i \in 1..Len(sharedQueue) : sharedQueue[i] # Len(heap')
    BY <2>1 DEF TypeOK, QueueType, LogType, Created
  <2>4. \A p \in Busy : popped[p] # Len(heap')
    BY <2>1 DEF TypeOK, PushType, LogType, Created
  <2> QED
    BY <2>1, <2>2, <2>3, <2>4 DEF HandsInv
<1>3. CASE SimLockShared
  BY <1>3, HandsSame DEF SimLockShared, Creating, Busy, PushIn
<1>4. CASE SimPushShared
  <2> DEFINE a == Len(heap)
  <2>1. Creating /\ temp[Len(temp)] = a /\ ~Creating'
    BY <1>4 DEF SimPushShared, Creating, HandsInv
  <2>2. sharedQueue' = Append(sharedQueue, a) /\ UNCHANGED <<heap, popped>>
    BY <1>4, <2>1 DEF SimPushShared
  <2>3. Busy' \subseteq Busy
    BY <1>4, SharedSignal DEF TypeOK, SignalMoves, sharedQueueCond, Busy, PushIn
  <2>4. \A i \in 1..Len(sharedQueue') :
          \/ i \in 1..Len(sharedQueue) /\ sharedQueue'[i] = sharedQueue[i]
          \/ i = Len(sharedQueue) + 1 /\ sharedQueue'[i] = a
    BY <2>2 DEF TypeOK, QueueType
  <2> QED
    BY <2>1, <2>2, <2>3, <2>4 DEF HandsInv
<1>5. CASE SimLockFile
  BY <1>5, HandsSame DEF SimLockFile, Creating, Busy, PushIn
<1>6. CASE SimPrint
  <2>1. Busy' \subseteq Busy
    BY <1>6, CreatedSignal DEF TypeOK, SignalMoves, actionPrintedCond, Busy, PushIn
  <2> QED
    BY <1>6, <2>1, HandsSame DEF SimPrint, Creating
<1>7. CASE SimUnlockFile
  BY <1>7, HandsSame DEF SimUnlockFile, Creating, Busy, PushIn
<1> QED
  BY <1>1, <1>2, <1>3, <1>4, <1>5, <1>6, <1>7 DEF UserSimulator

\* The hands, for the steps of a pusher.
LEMMA HandsPush ==
  ASSUME TypeOK, HandsInv, NEW p \in Pushers, PushUpdate(p) \/ WakePusher(p)
  PROVE  HandsInv'
<1>1. CASE PushPopShared(p)
  <2> DEFINE q == sharedQueue
  <2>1. /\ q # <<>> /\ q' = Tail(q) /\ popped' = [popped EXCEPT ![p] = q[1]]
        /\ p \notin Busy /\ Busy' = Busy \cup {p}
        /\ UNCHANGED <<heap, simPc, temp>>
    BY <1>1 DEF PushPopShared, PushGoto, Busy, PushIn, TypeOK, PushType, QueueType
  <2>2. /\ 1 \in 1..Len(q)
        /\ \A i \in 1..Len(q') : i + 1 \in 1..Len(q) /\ q'[i] = q[i + 1]
    BY <2>1 DEF TypeOK, QueueType
  <2>3. \A t \in Busy : popped'[t] = popped[t]
    BY <2>1 DEF TypeOK, PushType, Busy
  <2>4. popped'[p] = q[1]
    BY <2>1 DEF TypeOK, PushType
  <2>5. \A i, j \in 1..Len(q') : q'[i] = q'[j] => i = j
    BY <2>2 DEF HandsInv
  <2>6. \A i \in 1..Len(q') : q'[i] # q[1]
    BY <2>2 DEF HandsInv
  <2>7. \A s, t \in Busy' : popped'[s] = popped'[t] => s = t
    BY <2>1, <2>2, <2>3, <2>4 DEF HandsInv
  <2>8. \A t \in Busy' : \A i \in 1..Len(q') : popped'[t] # q'[i]
    BY <2>1, <2>2, <2>3, <2>4, <2>6 DEF HandsInv
  <2>9. Creating' => /\ temp'[Len(temp')] = Len(heap')
                     /\ \A i \in 1..Len(q') : q'[i] # Len(heap')
                     /\ \A t \in Busy' : popped'[t] # Len(heap')
    BY <2>1, <2>2, <2>3, <2>4 DEF HandsInv, Creating
  <2> QED
    BY <2>5, <2>7, <2>8, <2>9 DEF HandsInv
<1>2. CASE ~PushPopShared(p)
  <2>1. /\ UNCHANGED <<heap, sharedQueue, popped, simPc, temp>>
        /\ Busy' \subseteq Busy
    BY <1>2 DEF PushUpdate, WakePusher, PushGoto, Busy, PushIn, TypeOK, PushType,
       PushLockShared, PushWaitShared, PushNextNeighbour, PushLockFeed, PushFeed,
       PushLockModified, PushModified, PushUnlockFeed, PushLockFile,
       PushWaitCreated, PushPrint
  <2> QED
    BY <2>1, HandsSame DEF Creating
<1> QED
  BY <1>1, <1>2

\* A step of a reader leaves the simulator, the pushers and the shared queue alone.
LEMMA ReadQuiet ==
  ASSUME NEW r \in Readers, ReadPost(r) \/ WakeReader(r)
  PROVE  UNCHANGED <<heap, creationPrinted, sharedQueue, simVars, pushVars>>
BY DEF ReadPost, WakeReader, ReadLockModified, ReadWaitModified, ReadPopModified,
   ReadCheck, ReadLockFeed, ReadDrain, ReadLockFile, ReadAction, ReadWaitFlag,
   ReadUnlockFile, ReadUnlockFeed

\* The hands, for every step.
LEMMA HandsNext ==
  ASSUME TypeOK, HandsInv, [Next]_vars
  PROVE  HandsInv'
<1>1. ASSUME NEW r \in Readers, ReadPost(r) \/ WakeReader(r)
      PROVE  HandsInv'
  BY <1>1, ReadQuiet, HandsSame DEF Creating, Busy, PushIn
<1>2. CASE Tick \/ UNCHANGED vars
  BY <1>2, HandsSame DEF Tick, vars, Creating, Busy, PushIn
<1> QED
  BY <1>1, <1>2, HandsSim, HandsPush DEF Next

-----------------------------------------------------------------------------
(* The neighbours still to come never had the action *)

\* The types say that only actions that exist are at a node.
LEMMA HadCreated ==
  ASSUME TypeOK, NEW n \in Nodes, NEW a, Had(a, n)
  PROVE  a \in Created
BY DEF Had, TypeOK, LogType, QueueType, ReadType

\* What keeps the neighbours to come untouched: the nodes get nothing new.
LEMMA UntouchedSame ==
  ASSUME TypeOK, UntouchedInv, UNCHANGED <<heap, sharedQueue, popped>>,
         Creating' => Creating,
         \A q \in Busy' : q \in Busy /\ First(q)' = First(q),
         \A a : \A n \in Nodes : Had(a, n)' => Had(a, n)
  PROVE  UntouchedInv'
<1> SUFFICES ASSUME NEW n \in Nodes
             PROVE  /\ \A i \in 1..Len(sharedQueue) : ~Had(sharedQueue[i], n)'
                    /\ Creating' => ~Had(Len(heap), n)'
                    /\ \A q \in Busy' : \A i \in 1..Len(Neighbours[User(q)]) :
                         i >= First(q)' /\ n = Neighbours[User(q)][i]
                           => ~Had(popped[q], n)'
  BY DEF UntouchedInv, Had, User
<1>1. ASSUME NEW q \in Busy', NEW i \in 1..Len(Neighbours[User(q)]),
             i >= First(q)', n = Neighbours[User(q)][i]
      PROVE  ~Had(popped[q], n)'
  BY <1>1 DEF UntouchedInv
<1> QED
  BY <1>1 DEF UntouchedInv

\* Untouched neighbours, for the steps of the simulator.
LEMMA UntouchedSim ==
  ASSUME TypeOK, HandsInv, UntouchedInv, UserSimulator
  PROVE  UntouchedInv'
<1>1. CASE SimCreate
  <2>1. /\ UNCHANGED <<sharedQueue, popped, nbr, pushPc, feed, readPrinted, readVars>>
        /\ Busy' = Busy /\ Len(heap') = Len(heap) + 1
    BY <1>1 DEF SimCreate, Busy, PushIn, TypeOK, LogType
  <2>2. \A q \in Busy : User(q)' = User(q)
    BY <1>1, <2>1, HeapGrows DEF TypeOK, PushType, User
  <2>3. \A n \in Nodes : ~Had(Len(heap) + 1, n)
    <3>1. Len(heap) + 1 \notin Created
      BY DEF Created, TypeOK, LogType
    <3> QED
      BY <3>1, HadCreated
  <2>4. \A a : \A n \in Nodes : Had(a, n)' <=> Had(a, n)
    BY <2>1 DEF Had
  <2>5. \A q \in Busy : First(q)' = First(q)
    BY <2>1 DEF First
  <2>6. ASSUME NEW n \in Nodes, NEW i \in 1..Len(sharedQueue')
        PROVE  ~Had(sharedQueue[i], n)'
    BY <2>1 DEF UntouchedInv, Had
  <2>7. ASSUME NEW n \in Nodes
        PROVE  ~Had(Len(heap), n)'
    BY <2>1, <2>3 DEF Had
  <2>8. ASSUME NEW n \in Nodes, NEW q \in Busy', NEW i \in 1..Len(Neighbours[User(q)']),
               i >= First(q)', n = Neighbours[User(q)'][i]
        PROVE  ~Had(popped[q], n)
    BY <2>1, <2>2, <2>5, <2>8 DEF UntouchedInv
  <2>9. \A n \in Nodes : \A q \in Busy' : \A i \in 1..Len(Neighbours[User(q)']) :
           i >= First(q)' /\ n = Neighbours[User(q)'][i] => ~Had(popped[q], n)'
    BY <2>1, <2>4, <2>8 DEF Had
  <2> QED
    BY <2>6, <2>7, <2>9 DEF UntouchedInv
<1>2. CASE SimPushShared
  <2>1. UNCHANGED <<heap, popped, nbr, feed, readPrinted, readVars>>
    BY <1>2 DEF SimPushShared
  <2>2. \A a : \A n \in Nodes : Had(a, n)' <=> Had(a, n)
    BY <2>1 DEF Had
  <2>3. Creating /\ ~Creating' /\ sharedQueue' = Append(sharedQueue, Len(heap))
    BY <1>2 DEF SimPushShared, Creating, HandsInv
  <2>4. \A i \in 1..Len(sharedQueue') :
          sharedQueue'[i] = Len(heap)
            \/ (i \in 1..Len(sharedQueue) /\ sharedQueue'[i] = sharedQueue[i])
    BY <2>3 DEF TypeOK, QueueType
  <2>5. \A q \in Busy' : q \in Busy /\ pushPc'[q] = pushPc[q]
    BY <1>2, SharedSignal DEF TypeOK, SignalMoves, sharedQueueCond, Busy, PushIn
  <2>6. \A q \in Busy' : q \in Busy /\ First(q)' = First(q) /\ User(q)' = User(q)
    BY <2>1, <2>5 DEF First, User
  <2>7. ASSUME NEW n \in Nodes, NEW i \in 1..Len(sharedQueue')
        PROVE  ~Had(sharedQueue'[i], n)
    BY <2>3, <2>4 DEF UntouchedInv
  <2>8. ASSUME NEW n \in Nodes, NEW q \in Busy', NEW i \in 1..Len(Neighbours[User(q)']),
               i >= First(q)', n = Neighbours[User(q)'][i]
        PROVE  ~Had(popped'[q], n)
    BY <2>1, <2>6, <2>8 DEF UntouchedInv
  <2>9. ASSUME NEW n \in Nodes, NEW i \in 1..Len(sharedQueue')
        PROVE  ~Had(sharedQueue[i], n)'
    BY <2>1, <2>7 DEF Had
  <2>10. \A n \in Nodes : \A q \in Busy' : \A i \in 1..Len(Neighbours[User(q)']) :
           i >= First(q)' /\ n = Neighbours[User(q)'][i] => ~Had(popped[q], n)'
    BY <2>2, <2>8 DEF Had
  <2> QED
    BY <2>3, <2>9, <2>10 DEF UntouchedInv
<1>3. CASE SimPrint
  <2>1. \A q \in Busy' : /\ q \in Busy
                         /\ \/ pushPc'[q] = pushPc[q]
                            \/ pushPc[q] = "wait_created" /\ pushPc'[q] = "lock_file"
    BY <1>3, CreatedSignal DEF TypeOK, SignalMoves, actionPrintedCond, Busy, PushIn
  <2>2. UNCHANGED <<heap, sharedQueue, popped, nbr, feed, readPrinted, readVars, simPc>>
    BY <1>3 DEF SimPrint
  <2>3. \A q \in Busy' : q \in Busy /\ First(q)' = First(q)
    BY <2>1, <2>2 DEF First, Early, Busy, TypeOK, PushType
  <2>4. \A a : \A n \in Nodes : Had(a, n)' => Had(a, n)
    BY <2>2 DEF Had
  <2> QED
    BY <2>2, <2>3, <2>4, UntouchedSame DEF Creating
<1>4. CASE SimSelect \/ SimLockShared \/ SimLockFile \/ SimUnlockFile
  <2>1. UNCHANGED <<heap, sharedQueue, pushVars, feed, readPrinted, readVars>>
    BY <1>4 DEF SimSelect, SimLockShared, SimLockFile, SimUnlockFile
  <2>2. Creating' => Creating
    BY <1>4 DEF SimSelect, SimLockShared, SimLockFile, SimUnlockFile, Creating
  <2>3. \A q \in Busy' : q \in Busy /\ First(q)' = First(q)
    BY <2>1 DEF First, Busy, PushIn, TypeOK, PushType
  <2>4. \A a : \A n \in Nodes : Had(a, n)' => Had(a, n)
    BY <2>1 DEF Had
  <2> QED
    BY <2>1, <2>2, <2>3, <2>4, UntouchedSame
<1> QED
  BY <1>1, <1>2, <1>3, <1>4 DEF UserSimulator

\* Untouched neighbours, for the steps of a pusher.
LEMMA UntouchedPush ==
  ASSUME TypeOK, HandsInv, UntouchedInv, NEW p \in Pushers,
         PushUpdate(p) \/ WakePusher(p)
  PROVE  UntouchedInv'
<1>1. CASE PushPopShared(p)
  <2> DEFINE q == sharedQueue
  <2>1. /\ q # <<>> /\ q' = Tail(q) /\ popped' = [popped EXCEPT ![p] = q[1]]
        /\ p \notin Busy /\ Busy' = Busy \cup {p}
        /\ UNCHANGED <<heap, simPc, feed, readPrinted, readVars>>
    BY <1>1 DEF PushPopShared, PushGoto, Busy, PushIn, TypeOK, PushType, QueueType
  <2>2. /\ 1 \in 1..Len(q)
        /\ \A i \in 1..Len(q') : i + 1 \in 1..Len(q) /\ q'[i] = q[i + 1]
    BY <2>1 DEF TypeOK, QueueType
  <2>3. \A t \in Busy : /\ popped'[t] = popped[t] /\ User(t)' = User(t)
                        /\ First(t)' = First(t)
    BY <1>1, <2>1 DEF PushPopShared, PushGoto, TypeOK, PushType, Busy, User, First
  <2>4. popped'[p] = q[1]
    BY <2>1 DEF TypeOK, PushType
  <2>5. ASSUME NEW n \in Nodes, NEW i \in 1..Len(q')
        PROVE  ~Had(q[i], n)'
    <3>1. ~Had(q'[i], n)
      BY <2>2 DEF UntouchedInv
    <3> QED
      BY <2>1, <3>1 DEF Had
  <2>6. ASSUME NEW n \in Nodes, Creating'
        PROVE  ~Had(Len(heap), n)'
    <3>1. ~Had(Len(heap), n)
      BY <2>1, <2>6 DEF UntouchedInv, Creating
    <3> QED
      BY <2>1, <3>1 DEF Had
  <2>7. ASSUME NEW n \in Nodes, NEW t \in Busy', NEW i \in 1..Len(Neighbours[User(t)']),
               i >= First(t)', n = Neighbours[User(t)'][i]
        PROVE  ~Had(popped'[t], n)
    <3>1. CASE t = p
      BY <2>2, <2>4, <3>1 DEF UntouchedInv
    <3>2. CASE t # p
      BY <2>1, <2>3, <2>7, <3>2 DEF UntouchedInv
    <3> QED
      BY <3>1, <3>2
  <2>8. \A n \in Nodes : \A t \in Busy' : \A i \in 1..Len(Neighbours[User(t)']) :
           i >= First(t)' /\ n = Neighbours[User(t)'][i] => ~Had(popped[t], n)'
    BY <2>1, <2>7 DEF Had
  <2> QED
    BY <2>5, <2>6, <2>8 DEF UntouchedInv
<1>2. CASE PushFeed(p)
  <2> DEFINE m == Neighbour(p)
  <2>1. /\ p \in Busy /\ m \in Nodes /\ User(p) \in Nodes
        /\ m = Neighbours[User(p)][nbr[p]] /\ nbr[p] \in 1..Len(Neighbours[User(p)])
    <3>1. pushPc[p] = "push_feed" /\ pushPc[p] \in PushOnNode
      BY <1>2 DEF PushFeed, PushGoto, PushOnNode, PushLabels
    <3>2. p \in Busy
      BY <3>1 DEF Busy, PushIn
    <3>3. nbr[p] \in 1..Len(Neighbours[User(p)])
      BY <3>1, <3>2 DEF TypeOK, PushType
    <3> QED
      BY <3>1, <3>2, <3>3, NeighbourOK DEF Neighbour
  <2>2. /\ UNCHANGED <<heap, sharedQueue, popped, nbr, simPc, readPrinted, elem, batch>>
        /\ feed' = [feed EXCEPT ![m] = @ \cup {popped[p]}]
        /\ pushPc[p] = "push_feed"
        /\ pushPc' = [pushPc EXCEPT ![p] = "lock_modified"]
    BY <1>2 DEF PushFeed, PushGoto
  <2>3. Busy' = Busy
    BY <2>2 DEF Busy, PushIn, TypeOK, PushType
  <2>4. /\ First(p) = nbr[p] /\ First(p)' = nbr[p] + 1
        /\ \A t \in Busy \ {p} : First(t)' = First(t)
        /\ \A t \in Busy : User(t)' = User(t)
    BY <2>2 DEF First, Early, TypeOK, PushType, Busy, User
  <2>5. \A a : \A n \in Nodes : Had(a, n)' => Had(a, n) \/ (a = popped[p] /\ n = m)
    BY <2>2 DEF Had, TypeOK, QueueType
  <2>6. ASSUME NEW n \in Nodes, NEW i \in 1..Len(sharedQueue)
        PROVE  ~Had(sharedQueue[i], n)'
    <3> DEFINE a == sharedQueue[i]
    <3>1. ~Had(a, n) /\ a # popped[p]
      BY <2>1 DEF UntouchedInv, HandsInv
    <3> QED
      BY <2>2, <2>5, <3>1 DEF Had, TypeOK, QueueType
  <2>7. ASSUME NEW n \in Nodes, Creating'
        PROVE  ~Had(Len(heap), n)'
    <3>1. ~Had(Len(heap), n) /\ Len(heap) # popped[p]
      BY <2>1, <2>2, <2>7 DEF UntouchedInv, HandsInv, Creating
    <3> QED
      BY <2>2, <2>5, <3>1 DEF Had, TypeOK, QueueType
  <2>8. ASSUME NEW n \in Nodes, NEW t \in Busy, NEW i \in 1..Len(Neighbours[User(t)]),
               i >= First(t)', n = Neighbours[User(t)][i]
        PROVE  ~Had(popped[t], n)'
    <3>1. CASE t = p
      <4>1. i \in Int /\ nbr[p] \in Int
        BY <2>1, <3>1, GraphAssumption
      <4>2. i >= First(p) /\ i # nbr[p]
        BY <2>4, <2>8, <3>1, <4>1
      <4>3. n # m
        BY <2>1, <2>8, <3>1, <4>2, GraphAssumption
      <4>4. ~Had(popped[p], n)
        BY <2>1, <2>8, <3>1, <4>2 DEF UntouchedInv
      <4> QED
        BY <2>2, <3>1, <4>3, <4>4 DEF Had, TypeOK, QueueType
    <3>2. CASE t # p
      <4>1. popped[t] # popped[p]
        BY <2>1, <3>2 DEF HandsInv
      <4>2. ~Had(popped[t], n)
        BY <2>4, <2>8, <3>2 DEF UntouchedInv
      <4> QED
        BY <2>2, <4>1, <4>2 DEF Had, TypeOK, QueueType
    <3> QED
      BY <3>1, <3>2
  <2>9. \A n \in Nodes : \A t \in Busy' : \A i \in 1..Len(Neighbours[User(t)']) :
           i >= First(t)' /\ n = Neighbours[User(t)'][i] => ~Had(popped[t], n)'
    BY <2>3, <2>4, <2>8
  <2> QED
    BY <2>2, <2>6, <2>7, <2>9 DEF UntouchedInv
<1>3. CASE ~PushPopShared(p) /\ ~PushFeed(p)
  <2>1. UNCHANGED <<heap, sharedQueue, popped, simPc, feed, readPrinted, elem, batch>>
    BY <1>3 DEF PushUpdate, WakePusher, PushGoto,
       PushLockShared, PushWaitShared, PushNextNeighbour, PushLockFeed,
       PushLockModified, PushModified, PushUnlockFeed, PushLockFile,
       PushWaitCreated, PushPrint
  <2>2. \A t \in Busy' : t \in Busy /\ First(t)' = First(t)
    BY <1>3 DEF PushUpdate, WakePusher, PushGoto, Busy, PushIn, TypeOK, PushType,
       First, Early, PushLockShared, PushWaitShared, PushNextNeighbour, PushLockFeed,
       PushLockModified, PushModified, PushUnlockFeed, PushLockFile,
       PushWaitCreated, PushPrint
  <2>3. \A a : \A n \in Nodes : Had(a, n)' => Had(a, n)
    BY <2>1 DEF Had
  <2> QED
    BY <2>1, <2>2, <2>3, UntouchedSame DEF Creating
<1> QED
  BY <1>1, <1>2, <1>3

\* The action a reader looks at is in its batch.
LEMMA UpcomingInBatch ==
  ASSUME BatchInv, NEW r \in Readers, NEW a \in Upcoming(r)
  PROVE  a \in batch[r]
BY DEF BatchInv, Upcoming, Tops

\* A reader moves an action from the feed to its batch, and from there to the log:
\* what was at a node was there before.
LEMMA HadRead ==
  ASSUME TypeOK, BatchInv, NEW r \in Readers, ReadPost(r) \/ WakeReader(r)
  PROVE  \A a : \A n \in Nodes : Had(a, n)' <=> Had(a, n)
<1>1. CASE ReadPopModified(r)
  <2>1. batch[r] = {}
    BY <1>1 DEF ReadPopModified, BatchInv, BatchLabels
  <2>2. /\ UNCHANGED <<feed, readPrinted, batch>>
        /\ \A q \in Readers \ {r} : elem'[q] = elem[q]
    BY <1>1 DEF ReadPopModified, TypeOK, ReadType
  <2> QED
    BY <2>1, <2>2 DEF Had
<1>2. CASE ReadDrain(r)
  <2>1. batch[r] = {}
    BY <1>2 DEF ReadDrain, ReadGoto, BatchInv, BatchLabels
  <2> QED
    BY <1>2, <2>1 DEF ReadDrain, Had, TypeOK, QueueType, ReadType
<1>3. CASE ReadAction(r)
  <2>1. PICK a \in Upcoming(r) :
          /\ readPrinted' = readPrinted \cup {<<a, elem[r].node>>}
          /\ batch' = [batch EXCEPT ![r] = @ \ {a}]
    BY <1>3 DEF ReadAction
  <2>2. a \in batch[r] /\ UNCHANGED <<feed, elem>>
    BY <1>3, UpcomingInBatch DEF ReadAction
  <2> QED
    BY <2>1, <2>2 DEF Had, TypeOK, ReadType
<1>4. CASE ~ReadPopModified(r) /\ ~ReadDrain(r) /\ ~ReadAction(r)
  <2>1. UNCHANGED <<feed, readPrinted, elem, batch>>
    BY <1>4 DEF ReadPost, WakeReader, ReadLockModified, ReadWaitModified, ReadCheck,
       ReadLockFeed, ReadLockFile, ReadWaitFlag, ReadUnlockFile, ReadUnlockFeed
  <2> QED
    BY <2>1 DEF Had
<1> QED
  BY <1>1, <1>2, <1>3, <1>4

\* Untouched neighbours, for the steps of a reader.
LEMMA UntouchedRead ==
  ASSUME TypeOK, UntouchedInv, BatchInv, NEW r \in Readers,
         ReadPost(r) \/ WakeReader(r)
  PROVE  UntouchedInv'
<1>1. \A a : \A n \in Nodes : Had(a, n)' => Had(a, n)
  BY HadRead
<1>2. UNCHANGED <<heap, sharedQueue, popped, nbr, pushPc, simPc>>
  BY ReadQuiet
<1>3. \A q \in Busy' : q \in Busy /\ First(q)' = First(q)
  BY <1>2 DEF Busy, PushIn, First
<1> QED
  BY <1>1, <1>2, <1>3, UntouchedSame DEF Creating

\* Untouched neighbours, for every step.
LEMMA UntouchedNext ==
  ASSUME TypeOK, HandsInv, UntouchedInv, BatchInv, [Next]_vars
  PROVE  UntouchedInv'
<1>1. CASE Tick \/ UNCHANGED vars
  <2>1. UNCHANGED <<heap, sharedQueue, popped, nbr, pushPc, simPc, feed, readPrinted,
                    elem, batch>>
    BY <1>1 DEF Tick, vars
  <2>2. \A q \in Busy' : q \in Busy /\ First(q)' = First(q)
    BY <2>1 DEF Busy, PushIn, First
  <2>3. \A a : \A n \in Nodes : Had(a, n)' => Had(a, n)
    BY <2>1 DEF Had
  <2> QED
    BY <2>1, <2>2, <2>3, UntouchedSame DEF Creating
<1> QED
  BY <1>1, UntouchedSim, UntouchedPush, UntouchedRead DEF Next

-----------------------------------------------------------------------------
(* What a reader has in its batch is nowhere else *)

\* What keeps the batches apart from the feeds and the log.
LEMMA BatchSame ==
  ASSUME BatchInv, UNCHANGED <<feed, readPrinted, elem, batch, top>>,
         \A r \in Readers : readPc[r] \in BatchLabels => readPc'[r] \in BatchLabels
  PROVE  BatchInv'
BY DEF BatchInv

\* The batches, for the steps of a pusher.
LEMMA BatchPush ==
  ASSUME TypeOK, UntouchedInv, BatchInv, NEW p \in Pushers,
         PushUpdate(p) \/ WakePusher(p)
  PROVE  BatchInv'
<1>1. CASE PushFeed(p)
  <2> DEFINE m == Neighbour(p)
  <2>1. pushPc[p] = "push_feed" /\ pushPc[p] \in PushOnNode
    BY <1>1 DEF PushFeed, PushGoto, PushOnNode, PushLabels
  <2>2. p \in Busy /\ First(p) = nbr[p]
    BY <2>1 DEF Busy, PushIn, First, Early
  <2>3. nbr[p] \in 1..Len(Neighbours[User(p)]) /\ nbr[p] >= First(p) /\ m \in Nodes
    BY <2>1, <2>2, NeighbourOK DEF TypeOK, PushType
  <2>4. ~Had(popped[p], m)
    BY <2>2, <2>3 DEF UntouchedInv, Neighbour
  <2>5. /\ UNCHANGED <<readPrinted, elem, batch, top, readPc>>
        /\ feed' = [feed EXCEPT ![m] = @ \cup {popped[p]}]
    BY <1>1 DEF PushFeed
  <2> HIDE DEF m
  <2>6. \A n \in Nodes : \A a \in feed'[n] :
          a \in feed[n] \/ (a = popped[p] /\ n = m)
    BY <2>3, <2>5 DEF TypeOK, QueueType
  <2>7. \A r \in Readers : elem[r].node \in Nodes
    BY DEF TypeOK, ReadType, Modification
  <2>8. \A n \in Nodes : \A a \in feed'[n] : <<a, n>> \notin readPrinted
    BY <2>4, <2>6 DEF BatchInv, Had
  <2>9. ASSUME NEW r \in Readers, NEW a \in batch[r]
        PROVE  a \notin feed'[elem[r].node]
    <3>1. a \notin feed[elem[r].node]
      BY DEF BatchInv
    <3>2. ~(a = popped[p] /\ elem[r].node = m)
      BY <2>4 DEF Had
    <3> QED
      BY <2>6, <2>7, <3>1, <3>2
  <2> QED
    BY <2>5, <2>8, <2>9 DEF BatchInv
<1>2. CASE PushModified(p)
  <2>1. \A r \in Readers : readPc[r] \in BatchLabels => readPc'[r] \in BatchLabels
    BY <1>2, ModifiedSignal DEF SignalMoves, modifiedQueueCond, BatchLabels, TypeOK
  <2> QED
    BY <1>2, <2>1, BatchSame DEF PushModified
<1>3. CASE PushPrint(p)
  <2>1. \A r \in Readers : readPc[r] \in BatchLabels => readPc'[r] \in BatchLabels
    BY <1>3, FlagSignal DEF SignalMoves, BatchLabels, TypeOK
  <2> QED
    BY <1>3, <2>1, BatchSame DEF PushPrint
<1>4. CASE ~PushFeed(p) /\ ~PushModified(p) /\ ~PushPrint(p)
  <2>1. UNCHANGED <<feed, readPrinted, readVars>>
    BY <1>4 DEF PushUpdate, WakePusher, PushLockShared, PushWaitShared, PushPopShared,
       PushNextNeighbour, PushLockFeed, PushLockModified, PushUnlockFeed, PushLockFile,
       PushWaitCreated
  <2> QED
    BY <2>1, BatchSame
<1> QED
  BY <1>1, <1>2, <1>3, <1>4

\* Two readers at work on the same feed are the same reader.
LEMMA OneReader ==
  ASSUME MutualExclusion, NEW r \in Readers, NEW q \in Readers,
         elem[r].node \in Nodes, elem[q].node = elem[r].node,
         readPc[r] \in ReadOnFeed, readPc[q] \in ReadOnFeed
  PROVE  q = r
BY DEF MutualExclusion, HeldBy, FeedHolders, ReadIn

\* The batches, for the steps of a reader.
LEMMA BatchRead ==
  ASSUME TypeOK, MutualExclusion, BatchInv, NEW r \in Readers,
         ReadPost(r) \/ WakeReader(r)
  PROVE  BatchInv'
<1> DEFINE m == elem[r].node
<1>0. m \in Nodes
  BY DEF TypeOK, ReadType, Modification
<1>1. CASE ReadPopModified(r)
  <2>1. batch[r] = {} /\ UNCHANGED <<feed, readPrinted, batch, top>>
    BY <1>1 DEF ReadPopModified, BatchInv, BatchLabels
  <2>2. \A q \in Readers \ {r} :
          /\ elem'[q] = elem[q]
          /\ readPc[q] \in BatchLabels => readPc'[q] \in BatchLabels
    BY <1>1, PopSignal DEF ReadPopModified, TypeOK, ReadType, SignalMoves,
                           modifiedQueueCond, BatchLabels
  <2> QED
    BY <2>1, <2>2 DEF BatchInv
<1>2. CASE ReadDrain(r)
  <2>1. /\ batch[r] = {} /\ readPc[r] = "drain"
        /\ batch' = [batch EXCEPT ![r] = feed[m]]
        /\ feed' = [feed EXCEPT ![m] = {}]
        /\ readPc' = [readPc EXCEPT ![r] = "lock_file"]
        /\ UNCHANGED <<readPrinted, elem, top>>
    BY <1>2 DEF ReadDrain, ReadGoto, BatchInv, BatchLabels
  <2> HIDE DEF m
  <2> QED
    BY <1>0, <2>1 DEF BatchInv, BatchLabels, TypeOK, QueueType, ReadType, m
<1>3. CASE ReadAction(r)
  <2>1. PICK a \in Upcoming(r) :
          /\ readPrinted' = readPrinted \cup {<<a, m>>}
          /\ batch' = [batch EXCEPT ![r] = @ \ {a}]
    BY <1>3 DEF ReadAction
  <2>2. /\ a \in batch[r] /\ a \notin feed[m] /\ readPc[r] = "read"
        /\ top' = [top EXCEPT ![r] = NoAction] /\ UNCHANGED <<feed, elem, readPc>>
    BY <1>3, UpcomingInBatch DEF ReadAction, BatchInv
  <2>3. \A q \in Readers : batch[q] # {} /\ elem[q].node = m => q = r
    BY <1>0, <2>2, OneReader DEF BatchInv, BatchLabels, ReadOnFeed
  <2>4. /\ batch'[r] = batch[r] \ {a} /\ top'[r] = NoAction
        /\ \A q \in Readers \ {r} : batch'[q] = batch[q] /\ top'[q] = top[q]
    BY <2>1, <2>2 DEF TypeOK, ReadType
  <2> QED
    BY <2>1, <2>2, <2>3, <2>4 DEF BatchInv, BatchLabels
<1>4. CASE ReadWaitFlag(r)
  <2>1. PICK a \in Upcoming(r) : top' = [top EXCEPT ![r] = a]
    BY <1>4 DEF ReadWaitFlag
  <2>2. /\ a \in batch[r] /\ readPc' = [readPc EXCEPT ![r] = "wait_flag"]
        /\ UNCHANGED <<feed, readPrinted, elem, batch>>
    BY <1>4, UpcomingInBatch DEF ReadWaitFlag, ReadGoto
  <2> QED
    BY <2>1, <2>2 DEF BatchInv, BatchLabels, TypeOK, ReadType
<1>5. CASE ReadUnlockFile(r)
  <2>1. /\ batch[r] = {} /\ readPc' = [readPc EXCEPT ![r] = "unlock_feed"]
        /\ UNCHANGED <<feed, readPrinted, elem, batch, top>>
    BY <1>5 DEF ReadUnlockFile, ReadGoto
  <2> QED
    BY <2>1 DEF BatchInv, TypeOK, ReadType
<1>6. CASE \/ ReadLockModified(r) \/ ReadWaitModified(r) \/ ReadCheck(r)
           \/ ReadLockFeed(r) \/ ReadLockFile(r) \/ ReadUnlockFeed(r) \/ WakeReader(r)
  <2>1. UNCHANGED <<feed, readPrinted, elem, batch, top>>
    BY <1>6 DEF ReadLockModified, ReadWaitModified, ReadCheck, ReadLockFeed,
                ReadLockFile, ReadUnlockFeed, WakeReader
  <2>2. \A q \in Readers : readPc[q] \in BatchLabels => readPc'[q] \in BatchLabels
    BY <1>6 DEF ReadGoto, BatchLabels, TypeOK, ReadType, ReadLockModified,
       ReadWaitModified, ReadCheck, ReadLockFeed, ReadLockFile, ReadUnlockFeed,
       WakeReader
  <2> QED
    BY <2>1, <2>2, BatchSame
<1> QED
  BY <1>1, <1>2, <1>3, <1>4, <1>5, <1>6 DEF ReadPost

\* The batches, for every step.
LEMMA BatchNext ==
  ASSUME TypeOK, MutualExclusion, UntouchedInv, BatchInv, [Next]_vars
  PROVE  BatchInv'
<1>1. CASE UserSimulator \/ Tick \/ UNCHANGED vars
  <2>1. UNCHANGED <<feed, readPrinted, readVars>>
    BY <1>1 DEF UserSimulator, SimSelect, SimCreate, SimLockShared, SimPushShared,
                SimLockFile, SimPrint, SimUnlockFile, Tick, vars
  <2> QED
    BY <2>1, BatchSame
<1> QED
  BY <1>1, BatchPush, BatchRead DEF Next

-----------------------------------------------------------------------------
(* No action is delivered twice *)

IInv == TypeOK /\ MutualExclusion /\ HandsInv /\ UntouchedInv /\ BatchInv

\* The inductive invariant holds in every behaviour.
THEOREM HandsCorrect == Spec => []IInv
<1>1. Init => HandsInv /\ UntouchedInv /\ BatchInv
  <2> SUFFICES ASSUME Init PROVE HandsInv /\ UntouchedInv /\ BatchInv
    OBVIOUS
  <2>1. /\ sharedQueue = <<>> /\ Busy = {} /\ ~Creating /\ readPrinted = {}
        /\ feed = [n \in Nodes |-> {}] /\ batch = [r \in Readers |-> {}]
        /\ top = [r \in Readers |-> NoAction]
    BY DEF Init, Busy, PushIn, Creating
  <2> QED
    BY <2>1 DEF HandsInv, UntouchedInv, BatchInv
<1>2. HandsInv /\ UntouchedInv /\ BatchInv /\ TypeOK /\ MutualExclusion /\ [Next]_vars
        => (HandsInv /\ UntouchedInv /\ BatchInv)'
  BY HandsNext, UntouchedNext, BatchNext
<1> QED
  BY <1>1, <1>2, TypeCorrect, MutexCorrect, PTL DEF Spec, IInv

\* In every behaviour, whatever the number of threads, an action has one pusher
\* and is at most once at every node.
THEOREM DeliveredOnceCorrect == Spec => []DeliveredOnce
<1>1. IInv => DeliveredOnce
  <2> SUFFICES ASSUME IInv PROVE DeliveredOnce
    OBVIOUS
  <2> USE DEF IInv
  <2>1. ASSUME NEW n \in Nodes
        PROVE  /\ feed[n] \cap ReadAt(n) = {}
               /\ \A r \in Readers :
                    /\ BatchAt(r, n) \cap (feed[n] \cup ReadAt(n)) = {}
                    /\ \A q \in Readers \ {r} : BatchAt(r, n) \cap BatchAt(q, n) = {}
    <3>1. feed[n] \cap ReadAt(n) = {}
      BY DEF BatchInv, ReadAt
    <3>2. ASSUME NEW r \in Readers
          PROVE  BatchAt(r, n) \cap (feed[n] \cup ReadAt(n)) = {}
      BY DEF BatchInv, BatchAt, ReadAt
    <3>3. ASSUME NEW r \in Readers, NEW q \in Readers \ {r}
          PROVE  BatchAt(r, n) \cap BatchAt(q, n) = {}
      BY OneReader DEF BatchInv, BatchAt, BatchLabels, ReadOnFeed
    <3> QED
      BY <3>1, <3>2, <3>3
  <2>2. ASSUME NEW p \in PushIn({"lock_feed", "push_feed"})
        PROVE  popped[p] \notin feed[Neighbour(p)] \cup ReadAt(Neighbour(p))
                                  \cup UNION {BatchAt(r, Neighbour(p)) : r \in Readers}
    <3>1. /\ p \in Pushers /\ p \in Busy /\ pushPc[p] \in PushOnNode
          /\ First(p) = nbr[p] /\ pushPc[p] # "next"
      BY DEF PushIn, Busy, PushOnNode, PushLabels, First, Early
    <3>2. /\ nbr[p] \in 1..Len(Neighbours[User(p)]) /\ nbr[p] >= First(p)
          /\ Neighbour(p) \in Nodes
      BY <3>1, NeighbourOK DEF TypeOK, PushType
    <3>3. ~Had(popped[p], Neighbour(p))
      BY <3>1, <3>2 DEF UntouchedInv, Neighbour
    <3> HIDE DEF IInv
    <3> QED
      BY <3>3 DEF Had, ReadAt, BatchAt
  <2> QED
    BY <2>1, <2>2 DEF DeliveredOnce, HandsInv
<1> QED
  BY <1>1, HandsCorrect, PTL

-----------------------------------------------------------------------------
(* The threads implement the delivery specification *)

Inbox(n) == feed[n] \cup UNION {BatchAt(r, n) : r \in Readers}

\* The inbox of a node that no step touches.
LEMMA InboxSame ==
  ASSUME UNCHANGED <<feed, elem, batch>>, NEW n
  PROVE  Inbox(n)' = Inbox(n)
BY DEF Inbox, BatchAt

\* Initially nobody has posted anything.
LEMMA DeliveryInit == Init => Users!Init
<1> SUFFICES ASSUME Init PROVE Users!Init
  OBVIOUS
<1>1. /\ heap = <<>> /\ creationPrinted = {} /\ readPrinted = {}
      /\ feed = [n \in Nodes |-> {}] /\ batch = [r \in Readers |-> {}]
  BY DEF Init
<1>2. [a \in Created |-> heap[a].user_id] = <<>>
  BY <1>1 DEF Created
<1>3. \A n \in Nodes : Inbox(n) = {} /\ ReadAt(n) = {}
  BY <1>1 DEF Inbox, BatchAt, ReadAt
<1> QED
  BY <1>1, <1>2, <1>3 DEF Users!Init, Inbox

\* A step that the users do not see.
LEMMA DeliverySame ==
  ASSUME UNCHANGED <<heap, creationPrinted, readPrinted>>,
         \A n \in Nodes : Inbox(n)' = Inbox(n)
  PROVE  UNCHANGED Users!vars
<1>1. UNCHANGED <<[a \in Created |-> heap[a].user_id], [n \in Nodes |-> ReadAt(n)]>>
  BY DEF Created, ReadAt
<1> QED
  BY <1>1 DEF Users!vars, Inbox

\* A function on 1..(k + 1) is its part on 1..k with one value appended.
LEMMA AppendValue ==
  ASSUME NEW S, NEW k \in Nat, NEW f \in [1..k -> S], NEW g \in [1..(k + 1) -> S],
         \A i \in 1..k : g[i] = f[i]
  PROVE  g = Append(f, g[k + 1])
<1>1. /\ Len(f) = k /\ Len(g) = k + 1 /\ g[k + 1] \in S
  OBVIOUS
<1>2. f \in Seq(S) /\ g \in Seq(S)
  BY <1>1
<1>3. Append(f, g[k + 1]) \in Seq(S) /\ Len(Append(f, g[k + 1])) = k + 1
  BY <1>1, <1>2
<1>4. \A i \in 1..(k + 1) : Append(f, g[k + 1])[i] = g[i]
  BY <1>1, <1>2
<1> QED
  BY <1>1, <1>2, <1>3, <1>4, SeqEqual

\* createAction is a post of its user.
LEMMA DeliveryCreate ==
  ASSUME TypeOK, SimCreate
  PROVE  \E u \in Nodes : Users!Post(u)
<1>0. PICK u \in Nodes : u = simNode
  BY DEF TypeOK, SimType
<1> DEFINE posts == [a \in Created |-> heap[a].user_id]
<1>1. /\ Len(heap) \in Nat /\ Created = 1..Len(heap) /\ heap \in Seq(ActionFields)
      /\ Len(heap') = Len(heap) + 1 /\ heap' \in Seq(ActionFields)
      /\ heap'[Len(heap) + 1].user_id = u
      /\ UNCHANGED <<creationPrinted, readPrinted, feed, elem, batch>>
  BY <1>0, HeapGrows DEF SimCreate, Created, TypeOK, LogType
<1>2. posts \in [1..Len(heap) -> Nodes] /\ posts' \in [1..(Len(heap) + 1) -> Nodes]
  <2>0. \A x \in ActionFields : x.user_id \in Nodes
    BY DEF ActionFields
  <2>1. \A a \in 1..Len(heap) : heap[a].user_id \in Nodes
    BY <1>1, <2>0, ElementOfSeq
  <2>2. \A a \in 1..(Len(heap) + 1) : heap'[a].user_id \in Nodes
    BY <1>1, <2>0, ElementOfSeq
  <2>3. Created' = 1..(Len(heap) + 1)
    BY <1>1 DEF Created
  <2> QED
    BY <1>1, <2>1, <2>2, <2>3
<1>3. posts' = Append(posts, u)
  <2>1. \A a \in 1..Len(heap) : posts'[a] = posts[a]
    BY <1>1, HeapGrows DEF Created
  <2>2. posts'[Len(heap) + 1] = u
    BY <1>1 DEF Created
  <2> HIDE DEF posts
  <2> QED
    BY <1>1, <1>2, <2>1, <2>2, AppendValue
<1>4. \A n \in Nodes : ReadAt(n)' = ReadAt(n)
  BY <1>1 DEF ReadAt, Created, TypeOK, LogType
<1>5. \A n \in Nodes : Inbox(n)' = Inbox(n)
  BY <1>1, InboxSame
<1> HIDE DEF posts
<1> QED
  BY <1>1, <1>3, <1>4, <1>5 DEF Users!Post, Inbox, posts

\* A line of sns.log that says an action is created announces it.
LEMMA DeliveryPrint ==
  ASSUME TypeOK, SimPrint
  PROVE  \E a \in Created : Users!Announce(a)
<1> DEFINE a == temp[printed + 1]
<1>1. a \in Created
  BY DEF SimPrint, TypeOK, SimType
<1>2. /\ creationPrinted' = creationPrinted \cup {a}
      /\ UNCHANGED <<heap, readPrinted, feed, elem, batch>>
  BY DEF SimPrint
<1> HIDE DEF a
<1>3. UNCHANGED <<[b \in Created |-> heap[b].user_id], [n \in Nodes |-> ReadAt(n)],
                  [n \in Nodes |-> Inbox(n)]>>
  BY <1>2 DEF Created, ReadAt, Inbox, BatchAt
<1> QED
  BY <1>1, <1>2, <1>3 DEF Users!Announce, Inbox

\* A push delivers its action to a neighbour who never had it.
LEMMA DeliveryFeed ==
  ASSUME IInv, NEW p \in Pushers, PushFeed(p)
  PROVE  \E a \in Created : \E n \in Nodes : Users!Deliver(a, n)
<1> DEFINE m == Neighbour(p)
           a == popped[p]
<1> USE DEF IInv
<1>1. /\ pushPc[p] = "push_feed" /\ p \in Busy /\ pushPc[p] \in PushOnNode
      /\ First(p) = nbr[p]
  BY DEF PushFeed, PushGoto, Busy, PushIn, PushOnNode, PushLabels, First, Early
<1>2. /\ a \in Created /\ m \in Nodes /\ User(p) \in Nodes
      /\ m \in NeighbourSet(User(p))
  BY <1>1, NeighbourOK
<1>3. nbr[p] \in 1..Len(Neighbours[User(p)]) /\ nbr[p] >= First(p)
  BY <1>1 DEF TypeOK, PushType
<1>4. ~Had(a, m)
  BY <1>1, <1>2, <1>3 DEF UntouchedInv, Neighbour
<1>5. a \notin Inbox(m) /\ a \notin ReadAt(m)
  BY <1>4 DEF Had, Inbox, BatchAt, ReadAt
<1>6. /\ feed' = [feed EXCEPT ![m] = @ \cup {a}]
      /\ UNCHANGED <<heap, creationPrinted, readPrinted, elem, batch>>
  BY DEF PushFeed
<1>7. m \in NeighbourSet(heap[a].user_id) /\ heap[a].user_id \in Nodes
  BY <1>2 DEF User
<1> HIDE DEF m, a, IInv
<1>8. \A n \in Nodes : Inbox(n)' = IF n = m THEN Inbox(n) \cup {a} ELSE Inbox(n)
  <2>1. /\ feed'[m] = feed[m] \cup {a}
        /\ \A n \in Nodes \ {m} : feed'[n] = feed[n]
    BY <1>2, <1>6 DEF IInv, TypeOK, QueueType
  <2>2. \A n \in Nodes : \A r \in Readers : BatchAt(r, n)' = BatchAt(r, n)
    BY <1>6 DEF BatchAt
  <2> QED
    BY <2>1, <2>2 DEF Inbox
<1>9. UNCHANGED <<[b \in Created |-> heap[b].user_id], [n \in Nodes |-> ReadAt(n)]>>
  BY <1>6 DEF Created, ReadAt
<1>10. [n \in Nodes |-> Inbox(n)]' = [[n \in Nodes |-> Inbox(n)] EXCEPT ![m] = @ \cup {a}]
  BY <1>2, <1>8
<1> QED
  BY <1>2, <1>5, <1>6, <1>7, <1>9, <1>10 DEF Users!Deliver, Inbox

\* The line that says an action is read takes it out of the inbox, announced.
LEMMA DeliveryAction ==
  ASSUME IInv, LogOrder, NEW r \in Readers, ReadAction(r)
  PROVE  \E a \in Created : \E n \in Nodes : Users!Read(a, n)
<1>0. PICK m : m = elem[r].node
  OBVIOUS
<1>1. PICK a \in Upcoming(r) :
        /\ <<a, m>> \in pushPrinted
        /\ readPrinted' = readPrinted \cup {<<a, m>>}
        /\ batch' = [batch EXCEPT ![r] = @ \ {a}]
  BY <1>0 DEF ReadAction
<1>2. /\ a \in batch[r] /\ a \notin feed[m] /\ readPc[r] = "read"
      /\ UNCHANGED <<heap, creationPrinted, feed, elem>>
  BY <1>0, UpcomingInBatch DEF ReadAction, IInv, BatchInv
<1>3. m \in Nodes /\ a \in Created /\ a \in creationPrinted
  BY <1>0, <1>1, <1>2 DEF IInv, TypeOK, ReadType, Modification, LogOrder
<1>4. \A q \in Readers \ {r} : BatchAt(q, m) = {}
  BY <1>0, <1>2, <1>3, OneReader DEF IInv, BatchInv, BatchLabels, ReadOnFeed, BatchAt
<1>5. BatchAt(r, m)' = BatchAt(r, m) \ {a}
  BY <1>0, <1>1, <1>2 DEF BatchAt, IInv, TypeOK, ReadType
<1>6. \A q \in Readers : \A n \in Nodes : q # r \/ n # m => BatchAt(q, n)' = BatchAt(q, n)
  BY <1>0, <1>1, <1>2 DEF BatchAt, IInv, TypeOK, ReadType
<1>7. a \in Inbox(m)
  BY <1>0, <1>2 DEF Inbox, BatchAt
<1>8. \A n \in Nodes : Inbox(n)' = IF n = m THEN Inbox(n) \ {a} ELSE Inbox(n)
  <2>1. Inbox(m)' = Inbox(m) \ {a}
    <3>1. \A x : x \in Inbox(m) <=> x \in feed[m] \/ x \in BatchAt(r, m)
      BY <1>4 DEF Inbox
    <3>2. \A q \in Readers \ {r} : BatchAt(q, m)' = {}
      BY <1>3, <1>4, <1>6
    <3>3. \A x : x \in Inbox(m)' <=> x \in feed[m] \/ x \in BatchAt(r, m)'
      BY <1>2, <3>2 DEF Inbox
    <3> QED
      BY <1>2, <1>5, <3>1, <3>3
  <2>2. ASSUME NEW n \in Nodes, n # m PROVE Inbox(n)' = Inbox(n)
    BY <1>2, <1>6, <2>2 DEF Inbox
  <2> QED
    BY <2>1, <2>2
<1>9. \A n \in Nodes : ReadAt(n)' = IF n = m THEN ReadAt(n) \cup {a} ELSE ReadAt(n)
  BY <1>1, <1>2, <1>3 DEF ReadAt, Created
<1>10. /\ [n \in Nodes |-> Inbox(n)]' = [[n \in Nodes |-> Inbox(n)] EXCEPT ![m] = @ \ {a}]
       /\ [n \in Nodes |-> ReadAt(n)]' = [[n \in Nodes |-> ReadAt(n)] EXCEPT ![m] = @ \cup {a}]
       /\ UNCHANGED [b \in Created |-> heap[b].user_id]
  BY <1>2, <1>3, <1>8, <1>9 DEF Created
<1> QED
  BY <1>2, <1>3, <1>7, <1>10 DEF Users!Read, Inbox

\* Taking a modification changes no inbox: the reader that takes it has no batch.
LEMMA DeliveryPop ==
  ASSUME IInv, NEW r \in Readers, ReadPopModified(r)
  PROVE  UNCHANGED Users!vars
<1>1. batch[r] = {} /\ UNCHANGED <<heap, creationPrinted, readPrinted, feed, batch>>
  BY DEF ReadPopModified, IInv, BatchInv, BatchLabels
<1>2. \A q \in Readers : \A n \in Nodes : BatchAt(q, n)' = BatchAt(q, n)
  BY <1>1 DEF ReadPopModified, BatchAt, IInv, TypeOK, ReadType
<1> QED
  BY <1>1, <1>2, DeliverySame DEF Inbox

\* Draining a feed changes no inbox: the actions go to the batch of its reader.
LEMMA DeliveryDrain ==
  ASSUME IInv, NEW r \in Readers, ReadDrain(r)
  PROVE  UNCHANGED Users!vars
<1>0. PICK m : m = elem[r].node
  OBVIOUS
<1>1. /\ batch[r] = {} /\ UNCHANGED <<heap, creationPrinted, readPrinted, elem>>
      /\ batch' = [batch EXCEPT ![r] = feed[m]]
      /\ feed' = [feed EXCEPT ![m] = {}]
      /\ m \in Nodes
  BY <1>0 DEF ReadDrain, ReadGoto, IInv, BatchInv, BatchLabels, TypeOK, ReadType, Modification
<1>2. BatchAt(r, m) = {} /\ BatchAt(r, m)' = feed[m]
  BY <1>0, <1>1 DEF BatchAt, IInv, TypeOK, ReadType
<1>3. \A q \in Readers : \A n \in Nodes : q # r \/ n # m => BatchAt(q, n)' = BatchAt(q, n)
  BY <1>0, <1>1 DEF BatchAt, IInv, TypeOK, ReadType
<1>4. feed'[m] = {} /\ \A n \in Nodes \ {m} : feed'[n] = feed[n]
  BY <1>1 DEF IInv, TypeOK, QueueType
<1>5. Inbox(m)' = Inbox(m)
  <2>1. \A x : x \in Inbox(m) <=> \/ x \in feed[m]
                                  \/ \E q \in Readers \ {r} : x \in BatchAt(q, m)
    BY <1>2 DEF Inbox
  <2>2. \A x : x \in Inbox(m)' <=> \/ x \in BatchAt(r, m)'
                                   \/ \E q \in Readers \ {r} : x \in BatchAt(q, m)'
    BY <1>4 DEF Inbox
  <2>3. \A q \in Readers \ {r} : BatchAt(q, m)' = BatchAt(q, m)
    BY <1>1, <1>3
  <2> QED
    BY <1>2, <2>1, <2>2, <2>3
<1>6. ASSUME NEW n \in Nodes, n # m PROVE Inbox(n)' = Inbox(n)
  BY <1>3, <1>4, <1>6 DEF Inbox
<1> QED
  BY <1>1, <1>5, <1>6, DeliverySame

\* Every step of the threads is one of the delivery specification, or unseen.
LEMMA DeliveryNext ==
  ASSUME IInv, LogOrder, [Next]_vars
  PROVE  [Users!Next]_(Users!vars)
<1> USE DEF IInv
<1>1. CASE SimCreate
  BY <1>1, DeliveryCreate DEF Users!Next
<1>2. CASE SimPrint
  BY <1>2, DeliveryPrint DEF Users!Next
<1>3. ASSUME NEW p \in Pushers, PushFeed(p)
      PROVE  [Users!Next]_(Users!vars)
  BY <1>3, DeliveryFeed DEF Users!Next
<1>4. ASSUME NEW r \in Readers, ReadAction(r)
      PROVE  [Users!Next]_(Users!vars)
  BY <1>4, DeliveryAction DEF Users!Next
<1>5. CASE UNCHANGED <<heap, creationPrinted, readPrinted, feed, elem, batch>>
  BY <1>5, InboxSame, DeliverySame
<1>6. ASSUME UserSimulator, ~SimCreate, ~SimPrint
      PROVE  UNCHANGED <<heap, creationPrinted, readPrinted, feed, elem, batch>>
  BY <1>6 DEF UserSimulator, SimSelect, SimLockShared, SimPushShared, SimLockFile,
              SimUnlockFile
<1>7. ASSUME NEW p \in Pushers, PushUpdate(p) \/ WakePusher(p), ~PushFeed(p)
      PROVE  UNCHANGED <<heap, creationPrinted, readPrinted, feed, elem, batch>>
  BY <1>7 DEF PushUpdate, WakePusher, PushLockShared, PushWaitShared, PushPopShared,
     PushNextNeighbour, PushLockFeed, PushLockModified, PushModified, PushUnlockFeed,
     PushLockFile, PushWaitCreated, PushPrint
<1>8. ASSUME NEW r \in Readers, ReadPost(r) \/ WakeReader(r),
             ~ReadAction(r), ~ReadPopModified(r), ~ReadDrain(r)
      PROVE  UNCHANGED <<heap, creationPrinted, readPrinted, feed, elem, batch>>
  BY <1>8 DEF ReadPost, WakeReader, ReadLockModified, ReadWaitModified, ReadCheck,
     ReadLockFeed, ReadLockFile, ReadWaitFlag, ReadUnlockFile, ReadUnlockFeed
<1>9. CASE Tick \/ UNCHANGED vars
  BY <1>5, <1>9 DEF Tick, vars
<1> HIDE DEF IInv
<1> QED
  BY <1>1, <1>2, <1>3, <1>4, <1>5, <1>6, <1>7, <1>8, <1>9, DeliveryPop, DeliveryDrain
  DEF Next

\* Whatever the number of threads, their steps are posts, announcements,
\* deliveries and reads: no action is lost, delivered twice or read unannounced.
THEOREM DeliveryCorrect == Spec => DeliversOnce
BY DeliveryInit, DeliveryNext, HandsCorrect, LogCorrect, PTL
DEF Spec, DeliversOnce, Users!Spec

-----------------------------------------------------------------------------
(* 3. Progress *)

AwaitCreated == PushIn({"wait_created"})

QueueAwake ==
  /\ sharedQueue # <<>> => \E p \in Pushers : pushPc[p] # "wait_shared"
  /\ modifiedQueue # <<>> => \E r \in Readers : readPc[r] # "wait_modified"

\* A round of the simulator: one node, its actions, and those still unprinted.
RoundInv ==
  /\ simPc = "select" => temp = <<>>
  /\ simPc # "print" => printed = 0
  /\ \A i \in 1..Len(temp) : heap[temp[i]].user_id = simNode
  /\ \A a \in Created \ creationPrinted : \E i \in (printed + 1)..Len(temp) : temp[i] = a

AwaitInv ==
  /\ \A p \in AwaitCreated : \E i \in 1..Len(temp) : temp[i] = popped[p]
  /\ simPc = "print" => Cardinality(AwaitCreated) <= Len(temp) - printed

\* Somebody still has action a to bring to node n.
Left(a, n) ==
  \/ \E i \in 1..Len(sharedQueue) : sharedQueue[i] = a
  \/ Creating /\ a = Len(heap)
  \/ \E p \in Busy : /\ popped[p] = a
                     /\ \E i \in 1..Len(Neighbours[User(p)]) :
                          i >= First(p) /\ n = Neighbours[User(p)][i]

CoverInv == \A d \in Deliveries : Left(d[1], d[2]) \/ Had(d[1], d[2])

\* Pusher p has brought action a to node n and has not logged it yet.
LogsNext(p, a, n) == pushPc[p] \notin Early /\ popped[p] = a /\ Neighbour(p) = n

LoggedInv == \A n \in Nodes : \A a \in Created :
  Had(a, n) /\ <<a, n>> \notin pushPrinted => \E p \in Busy : LogsNext(p, a, n)

FlagInv == \A r \in Readers : readPc[r] = "wait_flag" =>
  top[r] \in batch[r] /\ <<top[r], elem[r].node>> \notin pushPrinted

-----------------------------------------------------------------------------
(* The queues *)

\* A queue that is not empty has a thread awake, after every step of the simulator.
LEMMA AwakeSim ==
  ASSUME TypeOK, QueueAwake, UserSimulator
  PROVE  QueueAwake'
<1>1. CASE SimPushShared
  <2>1. \E p \in Pushers : pushPc'[p] # "wait_shared"
    BY <1>1, ThreadAssumption DEF SimPushShared, Signalled, sharedQueueCond, TypeOK, PushType
  <2> QED
    BY <1>1, <2>1 DEF SimPushShared, QueueAwake
<1>2. CASE SimPrint
  <2>1. \A p \in Pushers : pushPc[p] # "wait_shared" => pushPc'[p] # "wait_shared"
    BY <1>2, CreatedSignal DEF TypeOK, SignalMoves
  <2> QED
    BY <1>2, <2>1 DEF SimPrint, QueueAwake
<1>3. CASE ~SimPushShared /\ ~SimPrint
  BY <1>3 DEF UserSimulator, SimSelect, SimCreate, SimLockShared, SimLockFile,
              SimUnlockFile, QueueAwake
<1> QED
  BY <1>1, <1>2, <1>3

\* The same after every step of a pusher.
LEMMA AwakePush ==
  ASSUME TypeOK, QueueAwake, NEW p \in Pushers, PushUpdate(p) \/ WakePusher(p)
  PROVE  QueueAwake'
<1>1. sharedQueue' # <<>> => \E q \in Pushers : pushPc'[q] # "wait_shared"
  <2>1. CASE PushWaitShared(p)
    BY <2>1 DEF PushWaitShared
  <2>2. CASE ~PushWaitShared(p)
    <3>1. pushPc'[p] # "wait_shared"
      BY <2>2 DEF PushUpdate, WakePusher, PushGoto, TypeOK, PushType,
         PushLockShared, PushPopShared, PushNextNeighbour, PushLockFeed, PushFeed,
         PushLockModified, PushModified, PushUnlockFeed, PushLockFile,
         PushWaitCreated, PushPrint
    <3> QED
      BY <3>1
  <2> QED
    BY <2>1, <2>2
<1>2. modifiedQueue' # <<>> => \E r \in Readers : readPc'[r] # "wait_modified"
  <2>1. CASE PushModified(p)
    BY <2>1, ThreadAssumption DEF PushModified, Signalled, modifiedQueueCond, TypeOK, ReadType
  <2>2. CASE PushPrint(p)
    <3>1. \A r \in Readers : readPc[r] # "wait_modified" => readPc'[r] # "wait_modified"
      BY <2>2, FlagSignal DEF TypeOK, SignalMoves
    <3> QED
      BY <2>2, <3>1 DEF PushPrint, QueueAwake
  <2>3. CASE ~PushModified(p) /\ ~PushPrint(p)
    BY <2>3 DEF QueueAwake, PushUpdate, WakePusher, PushLockShared, PushWaitShared,
       PushPopShared, PushNextNeighbour, PushLockFeed, PushFeed, PushLockModified,
       PushUnlockFeed, PushLockFile, PushWaitCreated
  <2> QED
    BY <2>1, <2>2, <2>3
<1> QED
  BY <1>1, <1>2 DEF QueueAwake

\* The same after every step of a reader.
LEMMA AwakeRead ==
  ASSUME TypeOK, QueueAwake, NEW r \in Readers, ReadPost(r) \/ WakeReader(r)
  PROVE  QueueAwake'
<1>1. modifiedQueue' # <<>> => \E q \in Readers : readPc'[q] # "wait_modified"
  <2>1. CASE ReadWaitModified(r)
    BY <2>1 DEF ReadWaitModified
  <2>2. CASE ReadPopModified(r)
    <3>1. readPc'[r] # "wait_modified"
      BY <2>2, PopSignal DEF TypeOK, ReadType, SignalMoves
    <3> QED
      BY <3>1
  <2>3. CASE ReadAction(r)
    BY <2>3 DEF ReadAction, QueueAwake
  <2>4. CASE ~ReadWaitModified(r) /\ ~ReadPopModified(r) /\ ~ReadAction(r)
    <3>1. readPc'[r] # "wait_modified"
      BY <2>4 DEF ReadPost, WakeReader, ReadGoto, TypeOK, ReadType, ReadLockModified,
         ReadCheck, ReadLockFeed, ReadDrain, ReadLockFile, ReadWaitFlag,
         ReadUnlockFile, ReadUnlockFeed
    <3> QED
      BY <3>1
  <2> QED
    BY <2>1, <2>2, <2>3, <2>4
<1> QED
  BY <1>1, ReadQuiet DEF QueueAwake

-----------------------------------------------------------------------------
(* The creation lines *)

\* The rounds of the simulator, for its own steps.
LEMMA RoundSim ==
  ASSUME TypeOK, RoundInv, UserSimulator
  PROVE  RoundInv'
<1> USE DEF RoundInv
<1>1. CASE SimSelect
  BY <1>1 DEF SimSelect, Created
<1>2. CASE SimCreate
  <2>1. /\ Created' = Created \cup {Len(heap) + 1}
        /\ \A a \in Created : heap'[a] = heap[a]
        /\ Len(temp') = Len(temp) + 1 /\ temp'[Len(temp) + 1] = Len(heap) + 1
        /\ \A i \in 1..Len(temp) : temp'[i] = temp[i] /\ temp[i] \in Created
        /\ printed' = printed /\ printed \in Nat /\ Len(temp) \in Nat
        /\ simPc = "create" /\ simPc' = "lock_shared"
        /\ UNCHANGED <<creationPrinted, simNode>>
    <3>1. temp \in Seq(Created) /\ temp' = Append(temp, Len(heap) + 1)
      BY <1>2 DEF SimCreate, TypeOK, SimType
    <3>2. /\ Len(temp) \in Nat /\ Len(temp') = Len(temp) + 1
          /\ temp'[Len(temp) + 1] = Len(heap) + 1
          /\ \A i \in 1..Len(temp) : temp'[i] = temp[i] /\ temp[i] \in Created
      BY <3>1
    <3>3. /\ printed \in Nat /\ printed' = printed
          /\ simPc = "create" /\ simPc' = "lock_shared"
          /\ UNCHANGED <<creationPrinted, simNode>>
      BY <1>2 DEF SimCreate, TypeOK, SimType
    <3> QED
      BY <1>2, <3>2, <3>3, HeapGrows
  <2>2. heap'[Len(heap) + 1].user_id = simNode
    BY <1>2 DEF SimCreate, TypeOK, LogType
  <2>3. \A i \in 1..Len(temp') : heap'[temp'[i]].user_id = simNode'
    BY <2>1, <2>2
  <2>4. ASSUME NEW a \in Created' \ creationPrinted'
        PROVE  \E i \in (printed' + 1)..Len(temp') : temp'[i] = a
    <3>1. CASE a \in Created
      <4>1. PICK i \in (printed + 1)..Len(temp) : temp[i] = a
        BY <2>1, <3>1
      <4> QED
        BY <2>1, <4>1
    <3>2. CASE a = Len(heap) + 1
      BY <2>1, <3>2
    <3> QED
      BY <2>1, <3>1, <3>2
  <2> QED
    BY <2>1, <2>3, <2>4
<1>3. CASE SimLockShared
  BY <1>3 DEF SimLockShared, Created
<1>4. CASE SimPushShared
  BY <1>4 DEF SimPushShared, Created
<1>5. CASE SimLockFile
  BY <1>5 DEF SimLockFile, Created
<1>6. CASE SimPrint
  <2>1. /\ printed' = printed + 1 /\ printed \in Nat /\ Len(temp) \in Nat
        /\ creationPrinted' = creationPrinted \cup {temp[printed + 1]}
        /\ simPc = "print"
        /\ UNCHANGED <<heap, temp, simPc, simNode>>
    BY <1>6 DEF SimPrint, TypeOK, SimType
  <2>2. ASSUME NEW a \in Created \ creationPrinted'
        PROVE  \E i \in (printed' + 1)..Len(temp) : temp[i] = a
    <3>1. PICK i \in (printed + 1)..Len(temp) : temp[i] = a
      BY <2>1
    <3>2. i # printed + 1
      BY <2>1, <3>1
    <3> QED
      BY <2>1, <3>1, <3>2
  <2> QED
    BY <2>1, <2>2 DEF Created
<1>7. CASE SimUnlockFile
  <2>1. /\ printed = Len(temp) /\ Len(temp) \in Nat /\ simPc' = "select"
        /\ temp' = <<>> /\ printed' = 0 /\ UNCHANGED <<heap, creationPrinted, simNode>>
    BY <1>7 DEF SimUnlockFile, TypeOK, SimType
  <2>2. Created \ creationPrinted = {}
    BY <2>1
  <2> QED
    BY <2>1, <2>2 DEF Created
<1> QED
  BY <1>1, <1>2, <1>3, <1>4, <1>5, <1>6, <1>7 DEF UserSimulator

\* The rounds of the simulator, for every step.
LEMMA RoundNext ==
  ASSUME TypeOK, RoundInv, [Next]_vars
  PROVE  RoundInv'
<1>1. ASSUME UNCHANGED <<heap, creationPrinted, simVars>> PROVE RoundInv'
  BY <1>1 DEF RoundInv, Created
<1>2. ASSUME NEW p \in Pushers, PushUpdate(p) \/ WakePusher(p)
      PROVE  UNCHANGED <<heap, creationPrinted, simVars>>
  BY <1>2 DEF PushUpdate, WakePusher, PushLockShared, PushWaitShared, PushPopShared,
     PushNextNeighbour, PushLockFeed, PushFeed, PushLockModified, PushModified,
     PushUnlockFeed, PushLockFile, PushWaitCreated, PushPrint
<1>3. CASE Tick \/ UNCHANGED vars
  BY <1>1, <1>3 DEF Tick, vars
<1> QED
  BY <1>1, <1>2, <1>3, RoundSim, ReadQuiet DEF Next

\* Nobody begins to wait for a creation line: the others keep waiting for one.
LEMMA AwaitSame ==
  ASSUME AwaitInv, IsFiniteSet(AwaitCreated), Len(temp) \in Nat, printed \in Nat,
         AwaitCreated' \subseteq AwaitCreated, UNCHANGED <<temp, popped, printed>>,
         simPc' = "print" => simPc = "print"
  PROVE  AwaitInv'
<1>1. \A p \in AwaitCreated' : \E i \in 1..Len(temp') : temp'[i] = popped'[p]
  BY DEF AwaitInv
<1>2. ASSUME simPc' = "print"
      PROVE  Cardinality(AwaitCreated)' <= Len(temp') - printed'
  <2>1. /\ Cardinality(AwaitCreated') <= Cardinality(AwaitCreated)
        /\ Cardinality(AwaitCreated') \in Nat /\ Cardinality(AwaitCreated) \in Nat
    BY FS_Subset, FS_CardinalityType
  <2>2. Cardinality(AwaitCreated) <= Len(temp) - printed
    BY <1>2 DEF AwaitInv
  <2> QED
    BY <2>1, <2>2
<1> QED
  BY <1>1, <1>2 DEF AwaitInv

\* The pushers that wait are finitely many.
LEMMA AwaitFinite == IsFiniteSet(AwaitCreated)
<1>1. AwaitCreated \subseteq Pushers
  BY DEF AwaitCreated, PushIn
<1> QED
  BY <1>1, ThreadAssumption, FS_Subset

\* The pushers that wait for a creation line, for the steps of the simulator.
LEMMA AwaitSim ==
  ASSUME TypeOK, HandsInv, RoundInv, AwaitInv, UserSimulator
  PROVE  AwaitInv'
<1>0. Len(temp) \in Nat /\ printed \in Nat
  BY DEF TypeOK, SimType
<1>1. CASE SimSelect
  BY <1>0, <1>1, AwaitSame, AwaitFinite DEF SimSelect, AwaitCreated, PushIn
<1>2. CASE SimCreate
  <2>1. /\ AwaitCreated' = AwaitCreated /\ popped' = popped /\ simPc' # "print"
        /\ Len(temp') = Len(temp) + 1 /\ \A i \in 1..Len(temp) : temp'[i] = temp[i]
    BY <1>2 DEF SimCreate, AwaitCreated, PushIn, TypeOK, SimType
  <2> QED
    BY <1>0, <2>1 DEF AwaitInv
<1>3. CASE SimLockShared
  BY <1>0, <1>3, AwaitSame, AwaitFinite DEF SimLockShared, AwaitCreated, PushIn
<1>4. CASE SimPushShared
  <2>1. AwaitCreated' \subseteq AwaitCreated
    BY <1>4, SharedSignal DEF TypeOK, SignalMoves, sharedQueueCond, AwaitCreated, PushIn
  <2> QED
    BY <1>0, <1>4, <2>1, AwaitSame, AwaitFinite DEF SimPushShared
<1>5. CASE SimLockFile
  <2>1. /\ printed = 0 /\ AwaitCreated' = AwaitCreated
        /\ UNCHANGED <<popped, temp, printed>>
    BY <1>5 DEF SimLockFile, RoundInv, AwaitCreated, PushIn
  <2> DEFINE line == [p \in AwaitCreated |-> CHOOSE i \in 1..Len(temp) : temp[i] = popped[p]]
  <2>2. \A p \in AwaitCreated : line[p] \in 1..Len(temp) /\ temp[line[p]] = popped[p]
    BY DEF AwaitInv
  <2>3. line \in Injection(AwaitCreated, 1..Len(temp))
    <3>1. line \in [AwaitCreated -> 1..Len(temp)]
      BY <2>2
    <3>2. AwaitCreated \subseteq Busy
      BY DEF AwaitCreated, Busy, PushIn
    <3>3. \A p, q \in AwaitCreated : line[p] = line[q] => p = q
      BY <2>2, <3>2 DEF HandsInv
    <3> HIDE DEF line
    <3> QED
      BY <3>1, <3>3 DEF Injection, IsInjective
  <2>4. Cardinality(AwaitCreated) <= Cardinality(1..Len(temp))
    <3>1. IsFiniteSet(1..Len(temp))
      BY <1>0, FS_Interval
    <3> HIDE DEF line
    <3> QED
      BY <2>3, <3>1, FS_Injection
  <2>5. Cardinality(1..Len(temp)) = Len(temp)
    BY <1>0, FS_Interval
  <2>6. Cardinality(AwaitCreated)' = Cardinality(AwaitCreated)
    BY <2>1
  <2>7. Cardinality(AwaitCreated)' <= Len(temp') - printed'
    BY <1>0, <2>1, <2>4, <2>5, <2>6
  <2> QED
    BY <2>1, <2>7 DEF AwaitInv
<1>6. CASE SimPrint
  <2> DEFINE a == temp[printed + 1]
  <2>1. /\ printed < Len(temp) /\ printed' = printed + 1 /\ simPc = "print"
        /\ pushPc' \in Signalled(pushPc, actionPrintedCond(simNode), "lock_file")
        /\ UNCHANGED <<temp, popped>>
    BY <1>0, <1>6 DEF SimPrint, RoundInv
  <2>2. actionPrintedCond(simNode) = AwaitCreated
    BY DEF actionPrintedCond, AwaitCreated, PushIn, AwaitInv, RoundInv
  <2>3. \/ AwaitCreated = {} /\ pushPc' = pushPc
        \/ \E w \in AwaitCreated : pushPc' = [pushPc EXCEPT ![w] = "lock_file"]
    BY <2>1, <2>2 DEF Signalled
  <2>4. \/ AwaitCreated = {} /\ AwaitCreated' = {}
        \/ \E w \in AwaitCreated : AwaitCreated' = AwaitCreated \ {w}
    BY <2>3 DEF AwaitCreated, PushIn, TypeOK, PushType
  <2>5. Cardinality(AwaitCreated) <= Len(temp) - printed
    BY <2>1 DEF AwaitInv
  <2>6. Cardinality(AwaitCreated') <= Len(temp) - printed - 1
    <3>1. CASE AwaitCreated' = {}
      BY <1>0, <2>1, <3>1, FS_EmptySet
    <3>2. CASE \E w \in AwaitCreated : AwaitCreated' = AwaitCreated \ {w}
      <4>1. Cardinality(AwaitCreated') = Cardinality(AwaitCreated) - 1
        BY <3>2, AwaitFinite, FS_RemoveElement
      <4>2. Cardinality(AwaitCreated) \in Nat
        BY AwaitFinite, FS_CardinalityType
      <4> QED
        BY <1>0, <2>5, <4>1, <4>2
    <3> QED
      BY <2>4, <3>1, <3>2
  <2>7. AwaitCreated' \subseteq AwaitCreated
    BY <2>4
  <2>8. Cardinality(AwaitCreated)' <= Len(temp') - printed'
    BY <1>0, <2>1, <2>6
  <2> QED
    BY <2>1, <2>7, <2>8 DEF AwaitInv
<1>7. CASE SimUnlockFile
  <2>1. /\ simPc = "print" /\ printed = Len(temp) /\ simPc' = "select"
        /\ AwaitCreated' = AwaitCreated
    BY <1>7 DEF SimUnlockFile, AwaitCreated, PushIn
  <2>2. Cardinality(AwaitCreated) <= 0 /\ Cardinality(AwaitCreated) \in Nat
    BY <1>0, <2>1, AwaitFinite, FS_CardinalityType DEF AwaitInv
  <2>3. AwaitCreated = {}
    BY <2>2, AwaitFinite, FS_EmptySet
  <2> QED
    BY <2>1, <2>3 DEF AwaitInv
<1> QED
  BY <1>1, <1>2, <1>3, <1>4, <1>5, <1>6, <1>7 DEF UserSimulator

\* The same, for every step: a pusher begins to wait only while the simulator does
\* not print, for it holds writeToFileMutex.
LEMMA AwaitNext ==
  ASSUME TypeOK, MutualExclusion, HandsInv, RoundInv, AwaitInv, [Next]_vars
  PROVE  AwaitInv'
<1>0. Len(temp) \in Nat /\ printed \in Nat
  BY DEF TypeOK, SimType
<1>1. ASSUME NEW p \in Pushers, PushUpdate(p) \/ WakePusher(p)
      PROVE  AwaitInv'
  <2>1. CASE PushWaitCreated(p)
    <3>1. /\ pushPc[p] = "print" /\ popped[p] \notin creationPrinted
          /\ UNCHANGED <<simPc, temp, popped, printed>>
          /\ AwaitCreated' = AwaitCreated \cup {p}
      BY <2>1 DEF PushWaitCreated, PushGoto, AwaitCreated, PushIn, TypeOK, PushType
    <3>2. popped[p] \in Created
      BY <3>1, NeighbourOK DEF PushOnNode, PushLabels
    <3>3. \E i \in 1..Len(temp) : temp[i] = popped[p]
      BY <1>0, <3>1, <3>2 DEF RoundInv
    <3>4. simPc # "print"
      BY <3>1, ThreadAssumption DEF MutualExclusion, HeldBy, FileHolders, SimIn, PushIn
    <3> QED
      BY <3>1, <3>3, <3>4 DEF AwaitInv
  <2>2. CASE PushPopShared(p)
    <3>1. /\ p \notin AwaitCreated /\ AwaitCreated' = AwaitCreated
          /\ \A q \in AwaitCreated : popped'[q] = popped[q]
          /\ UNCHANGED <<simPc, temp, printed>>
      BY <2>2 DEF PushPopShared, PushGoto, AwaitCreated, PushIn, TypeOK, PushType
    <3>2. Cardinality(AwaitCreated)' = Cardinality(AwaitCreated)
      BY <3>1
    <3> QED
      BY <3>1, <3>2 DEF AwaitInv
  <2>3. CASE ~PushWaitCreated(p) /\ ~PushPopShared(p)
    <3>1. /\ AwaitCreated' \subseteq AwaitCreated
          /\ UNCHANGED <<simPc, temp, popped, printed>>
      BY <1>1, <2>3 DEF PushUpdate, WakePusher, PushGoto, AwaitCreated, PushIn, TypeOK,
         PushType, PushLockShared, PushWaitShared, PushNextNeighbour, PushLockFeed,
         PushFeed, PushLockModified, PushModified, PushUnlockFeed, PushLockFile, PushPrint
    <3> QED
      BY <1>0, <3>1, AwaitSame, AwaitFinite
  <2> QED
    BY <2>1, <2>2, <2>3
<1>2. ASSUME UNCHANGED <<simVars, pushVars>> PROVE AwaitInv'
  BY <1>0, <1>2, AwaitSame, AwaitFinite DEF AwaitCreated, PushIn
<1>3. CASE Tick \/ UNCHANGED vars
  BY <1>2, <1>3 DEF Tick, vars
<1> QED
  BY <1>1, <1>2, <1>3, AwaitSim, ReadQuiet DEF Next

-----------------------------------------------------------------------------
(* Nothing is lost on the way *)

\* What a step leaves alone stays at its node.
LEMMA HadSame ==
  ASSUME UNCHANGED <<feed, readPrinted, elem, batch>>
  PROVE  \A a : \A n \in Nodes : Had(a, n)' <=> Had(a, n)
BY DEF Had

\* Every delivery is still to be made or made, if nobody drops an action.
LEMMA CoverSame ==
  ASSUME CoverInv, UNCHANGED <<heap, sharedQueue, popped>>, Creating => Creating',
         \A q \in Busy : q \in Busy' /\ First(q)' = First(q),
         \A a : \A n \in Nodes : Had(a, n) => Had(a, n)'
  PROVE  CoverInv'
<1>1. Deliveries' = Deliveries
  BY DEF Deliveries, Created
<1>2. ASSUME NEW d \in Deliveries, Left(d[1], d[2])
      PROVE  Left(d[1], d[2])'
  BY <1>2 DEF Left, User
<1>3. ASSUME NEW d \in Deliveries, Had(d[1], d[2])
      PROVE  Had(d[1], d[2])'
  BY <1>3 DEF Deliveries
<1> QED
  BY <1>1, <1>2, <1>3 DEF CoverInv

\* Deliveries still to be made, for the steps of the simulator.
LEMMA CoverSim ==
  ASSUME TypeOK, HandsInv, CoverInv, UserSimulator
  PROVE  CoverInv'
<1>1. CASE SimCreate
  <2>1. /\ UNCHANGED <<sharedQueue, popped, nbr, pushPc, feed, readPrinted, readVars>>
        /\ Busy' = Busy /\ ~Creating /\ Creating' /\ Len(heap') = Len(heap) + 1
    BY <1>1 DEF SimCreate, Busy, PushIn, Creating, TypeOK, LogType
  <2>2. \A q \in Busy : User(q)' = User(q) /\ First(q)' = First(q)
    BY <1>1, <2>1, HeapGrows DEF TypeOK, PushType, User, First
  <2>3. ASSUME NEW d \in Deliveries'
        PROVE  Left(d[1], d[2])' \/ Had(d[1], d[2])'
    <3>1. CASE d[1] = Len(heap')
      BY <2>1, <3>1 DEF Left
    <3>2. CASE d[1] # Len(heap')
      <4>1. /\ d[1] \in Created /\ d[2] \in Nodes
            /\ d[2] \in NeighbourSet(heap'[d[1]].user_id) /\ d = <<d[1], d[2]>>
        BY <1>1, <2>1, <3>2, HeapGrows DEF Deliveries
      <4>2. d \in Deliveries
        BY <1>1, <4>1, HeapGrows DEF Deliveries
      <4>3. CASE Left(d[1], d[2])
        BY <2>1, <2>2, <4>3 DEF Left
      <4>4. CASE Had(d[1], d[2])
        BY <2>1, <4>4 DEF Had
      <4> QED
        BY <4>2, <4>3, <4>4 DEF CoverInv
    <3> QED
      BY <3>1, <3>2
  <2> QED
    BY <2>3 DEF CoverInv
<1>2. CASE SimPushShared
  <2>1. UNCHANGED <<heap, popped, nbr, feed, readPrinted, readVars>>
    BY <1>2 DEF SimPushShared
  <2>2. Creating /\ ~Creating' /\ sharedQueue' = Append(sharedQueue, Len(heap))
    BY <1>2 DEF SimPushShared, Creating, HandsInv
  <2>3. /\ \A i \in 1..Len(sharedQueue) :
             i \in 1..Len(sharedQueue') /\ sharedQueue'[i] = sharedQueue[i]
        /\ Len(sharedQueue) + 1 \in 1..Len(sharedQueue')
        /\ sharedQueue'[Len(sharedQueue) + 1] = Len(heap)
    BY <2>2 DEF TypeOK, QueueType
  <2>4. \A q \in Busy : q \in Busy' /\ pushPc'[q] = pushPc[q]
    BY <1>2, SharedSignal DEF TypeOK, SignalMoves, sharedQueueCond, Busy, PushIn
  <2>5. \A q \in Busy : q \in Busy' /\ First(q)' = First(q) /\ User(q)' = User(q)
    BY <2>1, <2>4 DEF First, User
  <2>6. ASSUME NEW d \in Deliveries
        PROVE  Left(d[1], d[2])' \/ Had(d[1], d[2])'
    <3>1. CASE Left(d[1], d[2])
      BY <2>1, <2>3, <2>5, <3>1 DEF Left
    <3>2. CASE Had(d[1], d[2])
      BY <2>1, <3>2 DEF Had
    <3> QED
      BY <3>1, <3>2 DEF CoverInv
  <2> QED
    BY <2>1, <2>6 DEF CoverInv, Deliveries, Created
<1>3. CASE SimPrint
  <2>1. \A q \in Busy : /\ q \in Busy'
                        /\ \/ pushPc'[q] = pushPc[q]
                           \/ pushPc[q] = "wait_created" /\ pushPc'[q] = "lock_file"
    BY <1>3, CreatedSignal DEF TypeOK, SignalMoves, actionPrintedCond, Busy, PushIn
  <2>2. UNCHANGED <<heap, sharedQueue, popped, nbr, feed, readPrinted, readVars, simPc>>
    BY <1>3 DEF SimPrint
  <2>3. \A q \in Busy : q \in Busy' /\ First(q)' = First(q)
    BY <2>1, <2>2 DEF First, Early
  <2> QED
    BY <2>2, <2>3, HadSame, CoverSame DEF Creating
<1>4. CASE SimSelect \/ SimLockShared \/ SimLockFile \/ SimUnlockFile
  <2>1. UNCHANGED <<heap, sharedQueue, pushVars, feed, readPrinted, readVars>>
    BY <1>4 DEF SimSelect, SimLockShared, SimLockFile, SimUnlockFile
  <2>2. Creating => Creating'
    BY <1>4 DEF SimSelect, SimLockShared, SimLockFile, SimUnlockFile, Creating
  <2>3. \A q \in Busy : q \in Busy' /\ First(q)' = First(q)
    BY <2>1 DEF First, Busy, PushIn
  <2> QED
    BY <2>1, <2>2, <2>3, HadSame, CoverSame
<1> QED
  BY <1>1, <1>2, <1>3, <1>4 DEF UserSimulator

\* Deliveries still to be made, for the steps of a pusher.
LEMMA CoverPush ==
  ASSUME TypeOK, CoverInv, NEW p \in Pushers, PushUpdate(p) \/ WakePusher(p)
  PROVE  CoverInv'
<1>1. CASE PushPopShared(p)
  <2> DEFINE q == sharedQueue
  <2>1. /\ q # <<>> /\ q' = Tail(q) /\ popped' = [popped EXCEPT ![p] = q[1]]
        /\ nbr' = [nbr EXCEPT ![p] = 1] /\ pushPc' = [pushPc EXCEPT ![p] = "next"]
        /\ p \notin Busy /\ Busy' = Busy \cup {p}
        /\ UNCHANGED <<heap, simPc, feed, readPrinted, readVars>>
    BY <1>1 DEF PushPopShared, PushGoto, Busy, PushIn, TypeOK, PushType, QueueType
  <2>2. \A i \in 1..Len(q) : i = 1 \/ (i - 1 \in 1..Len(q') /\ q'[i - 1] = q[i])
    BY <2>1 DEF TypeOK, QueueType
  <2>3. \A t \in Busy : /\ popped'[t] = popped[t] /\ User(t)' = User(t)
                        /\ First(t)' = First(t)
    BY <2>1 DEF TypeOK, PushType, Busy, User, First
  <2>4. popped'[p] = q[1] /\ First(p)' = 1
    BY <2>1 DEF TypeOK, PushType, First, Early
  <2>5. ASSUME NEW d \in Deliveries
        PROVE  Left(d[1], d[2])' \/ Had(d[1], d[2])'
    <3>1. CASE \E i \in 1..Len(q) : q[i] = d[1]
      <4>1. PICK i \in 1..Len(q) : q[i] = d[1]
        BY <3>1
      <4>2. CASE i = 1
        <5>1. User(p)' = heap[d[1]].user_id
          BY <2>1, <2>4, <4>1, <4>2 DEF User
        <5>2. d[2] \in NeighbourSet(heap[d[1]].user_id)
          BY DEF Deliveries
        <5>3. PICK j \in 1..Len(Neighbours[heap[d[1]].user_id]) :
                d[2] = Neighbours[heap[d[1]].user_id][j]
          BY <5>2 DEF NeighbourSet
        <5>4. j >= First(p)'
          BY <2>4
        <5> QED
          BY <2>1, <2>4, <4>1, <4>2, <5>1, <5>3, <5>4 DEF Left
      <4>3. CASE i # 1
        BY <2>2, <4>1, <4>3 DEF Left
      <4> QED
        BY <4>2, <4>3
    <3>2. CASE Creating /\ d[1] = Len(heap)
      BY <2>1, <3>2 DEF Left, Creating
    <3>3. CASE \E t \in Busy : /\ popped[t] = d[1]
                               /\ \E i \in 1..Len(Neighbours[User(t)]) :
                                    i >= First(t) /\ d[2] = Neighbours[User(t)][i]
      BY <2>1, <2>3, <3>3 DEF Left
    <3>4. CASE Had(d[1], d[2])
      BY <2>1, <3>4 DEF Had
    <3> QED
      BY <3>1, <3>2, <3>3, <3>4 DEF CoverInv, Left
  <2> QED
    BY <2>1, <2>5 DEF CoverInv, Deliveries, Created
<1>2. CASE PushFeed(p)
  <2>1. /\ pushPc[p] = "push_feed" /\ pushPc' = [pushPc EXCEPT ![p] = "lock_modified"]
        /\ feed' = [feed EXCEPT ![Neighbour(p)] = @ \cup {popped[p]}]
        /\ UNCHANGED <<heap, sharedQueue, popped, nbr, simPc, readPrinted, elem, batch>>
    BY <1>2 DEF PushFeed, PushGoto
  <2>2. Busy' = Busy /\ Neighbour(p) \in Nodes
    BY <2>1, NeighbourOK DEF Busy, PushIn, TypeOK, PushType, PushOnNode, PushLabels
  <2>3. \A t \in Busy : /\ User(t)' = User(t)
                        /\ t # p => First(t)' = First(t)
    BY <2>1 DEF User, First, TypeOK, PushType, Busy
  <2>4. First(p) = nbr[p] /\ First(p)' = nbr[p] + 1 /\ nbr[p] \in Nat
    BY <2>1 DEF First, Early, TypeOK, PushType
  <2>5. \A a : \A n \in Nodes : Had(a, n) => Had(a, n)'
    BY <2>1 DEF Had, TypeOK, QueueType
  <2>6. popped[p] \in feed'[Neighbour(p)]
    BY <2>1, <2>2 DEF TypeOK, QueueType
  <2>7. ASSUME NEW d \in Deliveries
        PROVE  Left(d[1], d[2])' \/ Had(d[1], d[2])'
    <3>1. CASE \E i \in 1..Len(sharedQueue) : sharedQueue[i] = d[1]
      BY <2>1, <3>1 DEF Left
    <3>2. CASE Creating /\ d[1] = Len(heap)
      BY <2>1, <3>2 DEF Left, Creating
    <3>3. ASSUME NEW t \in Busy, popped[t] = d[1],
                 NEW i \in 1..Len(Neighbours[User(t)]),
                 i >= First(t), d[2] = Neighbours[User(t)][i]
          PROVE  Left(d[1], d[2])' \/ Had(d[1], d[2])'
      <4>1. CASE t = p /\ i = nbr[p]
        BY <2>6, <3>3, <4>1 DEF Had, Neighbour
      <4>2. CASE t = p /\ i # nbr[p]
        <5>1. i >= First(p)'
          BY <2>4, <3>3, <4>2
        <5> QED
          BY <2>1, <2>2, <2>3, <3>3, <4>2, <5>1 DEF Left
      <4>3. CASE t # p
        BY <2>1, <2>2, <2>3, <3>3, <4>3 DEF Left
      <4> QED
        BY <4>1, <4>2, <4>3
    <3>4. CASE Had(d[1], d[2])
      BY <2>5, <3>4 DEF Deliveries
    <3> QED
      BY <3>1, <3>2, <3>3, <3>4 DEF CoverInv, Left
  <2> QED
    BY <2>1, <2>7 DEF CoverInv, Deliveries, Created
<1>3. CASE PushNextNeighbour(p) /\ pushPc'[p] = "lock_shared"
  <2>1. /\ pushPc[p] = "next" /\ nbr[p] > Len(Neighbours[User(p)])
        /\ pushPc' = [pushPc EXCEPT ![p] = "lock_shared"]
        /\ UNCHANGED <<heap, sharedQueue, popped, nbr, simPc, feed, readPrinted,
                       elem, batch>>
    BY <1>3 DEF PushNextNeighbour, PushGoto, TypeOK, PushType
  <2>2. \A t \in Busy : /\ User(t)' = User(t)
                        /\ t # p => t \in Busy' /\ First(t)' = First(t)
    BY <2>1 DEF User, First, Busy, PushIn, TypeOK, PushType
  <2>3. First(p) = nbr[p] /\ nbr[p] \in Nat /\ Len(Neighbours[User(p)]) \in Nat
    <3>1. popped[p] \in Created
      BY <2>1 DEF TypeOK, PushType, Busy, PushIn
    <3>2. User(p) \in Nodes
      <4>1. heap[popped[p]] \in ActionFields
        BY <3>1 DEF TypeOK, LogType, Created
      <4> QED
        BY <4>1 DEF User, ActionFields
    <3> QED
      BY <2>1, <3>2, GraphAssumption DEF First, Early, TypeOK, PushType
  <2>4. ASSUME NEW d \in Deliveries, Left(d[1], d[2])
        PROVE  Left(d[1], d[2])'
    BY <2>1, <2>2, <2>3, <2>4 DEF Left, Creating
  <2>5. ASSUME NEW d \in Deliveries, Had(d[1], d[2])
        PROVE  Had(d[1], d[2])'
    BY <2>1, <2>5 DEF Had
  <2> QED
    BY <2>1, <2>4, <2>5 DEF CoverInv, Deliveries, Created
<1>4. CASE ~PushPopShared(p) /\ ~PushFeed(p)
             /\ ~(PushNextNeighbour(p) /\ pushPc'[p] = "lock_shared")
  <2>1. UNCHANGED <<heap, sharedQueue, popped, simPc, feed, readPrinted, elem, batch>>
    BY <1>4 DEF PushUpdate, WakePusher, PushGoto,
       PushLockShared, PushWaitShared, PushNextNeighbour, PushLockFeed,
       PushLockModified, PushModified, PushUnlockFeed, PushLockFile,
       PushWaitCreated, PushPrint
  <2>2. \A t \in Busy : t \in Busy' /\ First(t)' = First(t)
    BY <1>4 DEF PushUpdate, WakePusher, PushGoto, Busy, PushIn, TypeOK, PushType,
       First, Early, PushLockShared, PushWaitShared, PushNextNeighbour, PushLockFeed,
       PushLockModified, PushModified, PushUnlockFeed, PushLockFile,
       PushWaitCreated, PushPrint
  <2> QED
    BY <2>1, <2>2, HadSame, CoverSame DEF Creating
<1> QED
  BY <1>1, <1>2, <1>3, <1>4

\* Deliveries still to be made, for every step.
LEMMA CoverNext ==
  ASSUME TypeOK, HandsInv, BatchInv, CoverInv, [Next]_vars
  PROVE  CoverInv'
<1>1. ASSUME NEW r \in Readers, ReadPost(r) \/ WakeReader(r)
      PROVE  CoverInv'
  <2>1. UNCHANGED <<heap, sharedQueue, popped, nbr, pushPc, simPc>>
    BY <1>1, ReadQuiet
  <2>2. \A q \in Busy : q \in Busy' /\ First(q)' = First(q)
    BY <2>1 DEF Busy, PushIn, First
  <2>3. \A a : \A n \in Nodes : Had(a, n) => Had(a, n)'
    BY <1>1, HadRead
  <2> QED
    BY <2>1, <2>2, <2>3, CoverSame DEF Creating
<1>2. CASE Tick \/ UNCHANGED vars
  <2>1. UNCHANGED <<heap, sharedQueue, popped, nbr, pushPc, simPc, feed, readPrinted,
                    elem, batch>>
    BY <1>2 DEF Tick, vars
  <2>2. \A q \in Busy : q \in Busy' /\ First(q)' = First(q)
    BY <2>1 DEF Busy, PushIn, First
  <2> QED
    BY <2>1, <2>2, HadSame, CoverSame DEF Creating
<1> QED
  BY <1>1, <1>2, CoverSim, CoverPush DEF Next

-----------------------------------------------------------------------------
(* The flags *)

\* A pusher that has brought an action to a node goes on towards its log line.
LogsOn(p) == /\ p \in Busy' /\ pushPc'[p] \notin Early
             /\ popped'[p] = popped[p] /\ Neighbour(p)' = Neighbour(p)

\* No node gets an action, no line is written, no pusher turns away.
LEMMA LoggedSame ==
  ASSUME TypeOK, LoggedInv, UNCHANGED pushPrinted,
         \A a : \A n \in Nodes : Had(a, n)' => Had(a, n),
         \A p \in Busy : pushPc[p] \notin Early => LogsOn(p)
  PROVE  LoggedInv'
<1> SUFFICES ASSUME NEW n \in Nodes, NEW a \in Created', Had(a, n)',
                    <<a, n>> \notin pushPrinted'
             PROVE  \E p \in Busy' : LogsNext(p, a, n)'
  BY DEF LoggedInv
<1>1. Had(a, n) /\ a \in Created
  BY HadCreated
<1>2. PICK p \in Busy : LogsNext(p, a, n)
  BY <1>1 DEF LoggedInv
<1> QED
  BY <1>2 DEF LogsNext, LogsOn

\* What is at a node and not logged, for the steps of the simulator.
LEMMA LoggedSim ==
  ASSUME TypeOK, LoggedInv, UserSimulator
  PROVE  LoggedInv'
<1>1. UNCHANGED <<pushPrinted, popped, nbr, feed, readPrinted, elem, batch>>
  BY DEF UserSimulator, SimSelect, SimCreate, SimLockShared, SimPushShared,
         SimLockFile, SimPrint, SimUnlockFile
<1>2. ASSUME NEW p \in Busy, pushPc[p] \notin Early
      PROVE  p \in Busy' /\ pushPc'[p] \notin Early
  <2>1. CASE SimPushShared
    <3>1. pushPc'[p] = pushPc[p]
      BY <2>1, SharedSignal DEF TypeOK, SignalMoves, sharedQueueCond, Busy, PushIn
    <3> QED
      BY <1>2, <3>1 DEF Busy, PushIn
  <2>2. CASE SimPrint
    <3>1. pushPc'[p] = pushPc[p] \/ pushPc'[p] = "lock_file"
      BY <2>2, CreatedSignal DEF TypeOK, SignalMoves, Busy
    <3> QED
      BY <1>2, <3>1 DEF Busy, PushIn, Early
  <2>3. CASE ~SimPushShared /\ ~SimPrint
    BY <1>2, <2>3 DEF UserSimulator, SimSelect, SimCreate, SimLockShared,
       SimLockFile, SimUnlockFile, Busy, PushIn
  <2> QED
    BY <2>1, <2>2, <2>3
<1>3. ASSUME NEW p \in Busy, pushPc[p] \notin Early
      PROVE  Neighbour(p)' = Neighbour(p)
  <2>1. CASE SimCreate
    <3>1. pushPc[p] \in PushOnNode
      BY <1>3 DEF Busy, PushIn, Early, TypeOK, PushType, PushOnNode, PushLabels
    <3> QED
      BY <2>1, <3>1, NeighbourStable DEF Busy
  <2>2. CASE ~SimCreate
    BY <1>1, <2>2 DEF UserSimulator, SimSelect, SimLockShared, SimPushShared,
       SimLockFile, SimPrint, SimUnlockFile, Neighbour, User
  <2> QED
    BY <2>1, <2>2
<1> QED
  BY <1>1, <1>2, <1>3, HadSame, LoggedSame DEF LogsOn

\* The same for the steps of a pusher: it goes on to the log after it pushed.
LEMMA LoggedPush ==
  ASSUME TypeOK, LoggedInv, NEW p \in Pushers, PushUpdate(p) \/ WakePusher(p)
  PROVE  LoggedInv'
<1>1. CASE PushFeed(p)
  <2>1. /\ pushPc[p] = "push_feed" /\ pushPc' = [pushPc EXCEPT ![p] = "lock_modified"]
        /\ feed' = [feed EXCEPT ![Neighbour(p)] = @ \cup {popped[p]}]
        /\ UNCHANGED <<heap, pushPrinted, readPrinted, popped, nbr, elem, batch>>
    BY <1>1 DEF PushFeed, PushGoto
  <2>2. \A q \in Pushers : Neighbour(q)' = Neighbour(q)
    BY <2>1 DEF Neighbour, User
  <2>3. p \in Busy' /\ \A q \in Busy \ {p} : q \in Busy' /\ pushPc'[q] = pushPc[q]
    BY <2>1 DEF Busy, PushIn, TypeOK, PushType
  <2>4. pushPc'[p] \notin Early
    BY <2>1 DEF TypeOK, PushType, Early
  <2> SUFFICES ASSUME NEW n \in Nodes, NEW a \in Created, Had(a, n)',
                      <<a, n>> \notin pushPrinted
               PROVE  \E q \in Busy' : LogsNext(q, a, n)'
    BY <2>1 DEF LoggedInv, Created
  <2>5. CASE a = popped[p] /\ n = Neighbour(p)
    BY <2>1, <2>2, <2>3, <2>4, <2>5 DEF LogsNext
  <2>6. CASE ~(a = popped[p] /\ n = Neighbour(p))
    <3>1. Had(a, n)
      BY <2>1, <2>6 DEF Had, TypeOK, QueueType
    <3>2. PICK q \in Busy : LogsNext(q, a, n)
      BY <3>1 DEF LoggedInv
    <3>3. q # p
      BY <2>1, <3>2 DEF LogsNext, Early
    <3> QED
      BY <2>1, <2>2, <2>3, <3>2, <3>3 DEF LogsNext, Busy
  <2> QED
    BY <2>5, <2>6
<1>2. CASE PushPrint(p)
  <2>1. /\ pushPc[p] = "print" /\ pushPc' = [pushPc EXCEPT ![p] = "next"]
        /\ pushPrinted' = pushPrinted \cup {<<popped[p], Neighbour(p)>>}
        /\ nbr' = [nbr EXCEPT ![p] = @ + 1]
        /\ UNCHANGED <<heap, readPrinted, feed, popped, elem, batch>>
    BY <1>2 DEF PushPrint, PushGoto
  <2>2. \A q \in Busy \ {p} : /\ q \in Busy' /\ pushPc'[q] = pushPc[q]
                             /\ Neighbour(q)' = Neighbour(q)
    BY <2>1 DEF Busy, PushIn, TypeOK, PushType, Neighbour, User
  <2> SUFFICES ASSUME NEW n \in Nodes, NEW a \in Created, Had(a, n)',
                      <<a, n>> \notin pushPrinted'
               PROVE  \E q \in Busy' : LogsNext(q, a, n)'
    BY <2>1 DEF LoggedInv, Created
  <2>3. PICK q \in Busy : LogsNext(q, a, n)
    BY <2>1, HadSame DEF LoggedInv
  <2>4. q # p
    BY <2>1, <2>3 DEF LogsNext
  <2> QED
    BY <2>1, <2>2, <2>3, <2>4 DEF LogsNext
<1>3. CASE ~PushFeed(p) /\ ~PushPrint(p)
  <2>1. UNCHANGED <<heap, pushPrinted, readPrinted, feed, elem, batch>>
    BY <1>3 DEF PushUpdate, WakePusher, PushLockShared, PushWaitShared,
       PushPopShared, PushNextNeighbour, PushLockFeed, PushLockModified,
       PushModified, PushUnlockFeed, PushLockFile, PushWaitCreated
  <2>2. ASSUME NEW q \in Busy, pushPc[q] \notin Early
        PROVE  /\ q \in Busy' /\ pushPc'[q] \notin Early
               /\ popped'[q] = popped[q] /\ nbr'[q] = nbr[q]
    BY <1>3, <2>2 DEF PushUpdate, WakePusher, PushGoto, Busy, PushIn, Early, TypeOK,
       PushType, PushLockShared, PushWaitShared, PushPopShared, PushNextNeighbour,
       PushLockFeed, PushLockModified, PushModified, PushUnlockFeed, PushLockFile,
       PushWaitCreated
  <2>3. \A q \in Busy : pushPc[q] \notin Early => LogsOn(q)
    BY <2>1, <2>2 DEF LogsOn, Neighbour, User
  <2> QED
    BY <2>1, <2>3, HadSame, LoggedSame
<1> QED
  BY <1>1, <1>2, <1>3

\* The same for every step.
LEMMA LoggedNext ==
  ASSUME TypeOK, BatchInv, LoggedInv, [Next]_vars
  PROVE  LoggedInv'
<1>1. ASSUME NEW r \in Readers, ReadPost(r) \/ WakeReader(r)
      PROVE  LoggedInv'
  <2>1. UNCHANGED <<heap, pushVars, pushPrinted>>
    BY <1>1 DEF ReadPost, WakeReader, ReadLockModified, ReadWaitModified,
       ReadPopModified, ReadCheck, ReadLockFeed, ReadDrain, ReadLockFile, ReadAction,
       ReadWaitFlag, ReadUnlockFile, ReadUnlockFeed
  <2>2. \A p \in Busy : pushPc[p] \notin Early => LogsOn(p)
    BY <2>1 DEF LogsOn, Busy, PushIn, Neighbour, User
  <2>3. \A a : \A n \in Nodes : Had(a, n)' => Had(a, n)
    BY <1>1, HadRead
  <2> QED
    BY <2>1, <2>2, <2>3, LoggedSame
<1>2. CASE Tick \/ UNCHANGED vars
  <2>1. UNCHANGED <<heap, pushVars, pushPrinted, feed, readPrinted, elem, batch>>
    BY <1>2 DEF Tick, vars
  <2>2. \A p \in Busy : pushPc[p] \notin Early => LogsOn(p)
    BY <2>1 DEF LogsOn, Busy, PushIn, Neighbour, User
  <2> QED
    BY <2>1, <2>2, HadSame, LoggedSame
<1> QED
  BY <1>1, <1>2, LoggedSim, LoggedPush DEF Next

\* No reader begins to wait, no line is written.
LEMMA FlagSame ==
  ASSUME FlagInv, UNCHANGED pushPrinted,
         \A r \in Readers : readPc'[r] = "wait_flag" =>
           /\ readPc[r] = "wait_flag" /\ top'[r] = top[r]
           /\ elem'[r] = elem[r] /\ batch'[r] = batch[r]
  PROVE  FlagInv'
BY DEF FlagInv

\* The line a reader waits for is not written, for the steps of a pusher: the one
\* that writes it wakes the only reader that can wait for it.
LEMMA FlagPush ==
  ASSUME TypeOK, MutualExclusion, FlagInv, NEW p \in Pushers,
         PushUpdate(p) \/ WakePusher(p)
  PROVE  FlagInv'
<1>1. CASE PushPrint(p)
  <2>0. PICK m \in Nodes : m = Neighbour(p)
    BY <1>1, NeighbourOK DEF PushPrint, PushGoto, PushOnNode, PushLabels
  <2>1. /\ pushPrinted' = pushPrinted \cup {<<popped[p], m>>}
        /\ readPc' \in Signalled(readPc, feedPushPrintedCond(m), "lock_file")
        /\ UNCHANGED <<elem, batch, top>>
    BY <1>1, <2>0 DEF PushPrint
  <2> SUFFICES ASSUME NEW r \in Readers, readPc'[r] = "wait_flag"
               PROVE  top[r] \in batch[r] /\ <<top[r], elem[r].node>> \notin pushPrinted'
    BY <2>1 DEF FlagInv
  <2>2. readPc[r] = "wait_flag"
    BY <2>1 DEF Signalled, TypeOK, ReadType
  <2>3. elem[r].node # m
    <3>1. SUFFICES ASSUME elem[r].node = m PROVE FALSE
      OBVIOUS
    <3>2. r \in feedPushPrintedCond(m)
      BY <2>2, <3>1 DEF feedPushPrintedCond
    <3>3. PICK w \in feedPushPrintedCond(m) : readPc' = [readPc EXCEPT ![w] = "lock_file"]
      BY <2>1, <3>2 DEF Signalled
    <3>4. w = r
      BY <2>2, <3>1, <3>3, OneReader DEF feedPushPrintedCond, ReadOnFeed
    <3> QED
      BY <3>3, <3>4 DEF TypeOK, ReadType
  <2> QED
    BY <2>1, <2>2, <2>3 DEF FlagInv
<1>2. CASE PushModified(p)
  <2>1. UNCHANGED <<pushPrinted, elem, batch, top>>
    BY <1>2 DEF PushModified
  <2>2. \A r \in Readers : readPc'[r] = "wait_flag" => readPc[r] = "wait_flag"
    BY <1>2, ModifiedSignal DEF TypeOK, SignalMoves
  <2> QED
    BY <2>1, <2>2, FlagSame
<1>3. CASE ~PushPrint(p) /\ ~PushModified(p)
  <2>1. UNCHANGED <<pushPrinted, readVars>>
    BY <1>3 DEF PushUpdate, WakePusher, PushLockShared, PushWaitShared,
       PushPopShared, PushNextNeighbour, PushLockFeed, PushFeed, PushLockModified,
       PushUnlockFeed, PushLockFile, PushWaitCreated
  <2> QED
    BY <2>1, FlagSame
<1> QED
  BY <1>1, <1>2, <1>3

\* The same for the steps of a reader.
LEMMA FlagRead ==
  ASSUME TypeOK, BatchInv, FlagInv, NEW r \in Readers, ReadPost(r) \/ WakeReader(r)
  PROVE  FlagInv'
<1>1. CASE ReadWaitFlag(r)
  <2>1. PICK a \in Upcoming(r) : /\ <<a, elem[r].node>> \notin pushPrinted
                                 /\ top' = [top EXCEPT ![r] = a]
    BY <1>1 DEF ReadWaitFlag
  <2>2. a \in batch[r]
    BY UpcomingInBatch
  <2>3. /\ readPc' = [readPc EXCEPT ![r] = "wait_flag"]
        /\ UNCHANGED <<pushPrinted, elem, batch>>
    BY <1>1 DEF ReadWaitFlag, ReadGoto
  <2> QED
    BY <2>1, <2>2, <2>3 DEF FlagInv, TypeOK, ReadType
<1>2. CASE ReadPopModified(r)
  <2>1. /\ UNCHANGED <<pushPrinted, batch, top>>
        /\ elem' = [elem EXCEPT ![r] = Head(modifiedQueue)]
    BY <1>2 DEF ReadPopModified
  <2>2. \A q \in Readers : readPc'[q] = "wait_flag" => q # r /\ readPc[q] = "wait_flag"
    BY <1>2, PopSignal DEF TypeOK, ReadType, SignalMoves
  <2> QED
    BY <2>1, <2>2, FlagSame DEF TypeOK, ReadType
<1>3. CASE ReadAction(r)
  <2>1. /\ readPc[r] = "read" /\ UNCHANGED <<pushPrinted, readPc, elem>>
        /\ top' = [top EXCEPT ![r] = NoAction]
        /\ \E a : batch' = [batch EXCEPT ![r] = @ \ {a}]
    BY <1>3 DEF ReadAction
  <2> QED
    BY <2>1, FlagSame DEF TypeOK, ReadType
<1>4. CASE ~ReadWaitFlag(r) /\ ~ReadPopModified(r) /\ ~ReadAction(r)
  <2>1. /\ UNCHANGED <<pushPrinted, elem, top>>
        /\ \E label \in ReadLabels \ {"wait_flag"} : readPc' = [readPc EXCEPT ![r] = label]
        /\ \A q \in Readers \ {r} : batch'[q] = batch[q]
    BY <1>4 DEF ReadPost, WakeReader, ReadGoto, ReadLabels, TypeOK, ReadType,
       ReadLockModified, ReadWaitModified, ReadCheck, ReadLockFeed, ReadDrain,
       ReadLockFile, ReadUnlockFile, ReadUnlockFeed
  <2> QED
    BY <2>1, FlagSame DEF TypeOK, ReadType
<1> QED
  BY <1>1, <1>2, <1>3, <1>4

\* The same for every step.
LEMMA FlagNext ==
  ASSUME TypeOK, MutualExclusion, BatchInv, FlagInv, [Next]_vars
  PROVE  FlagInv'
<1>1. CASE UserSimulator \/ Tick \/ UNCHANGED vars
  <2>1. UNCHANGED <<pushPrinted, readVars>>
    BY <1>1 DEF UserSimulator, SimSelect, SimCreate, SimLockShared, SimPushShared,
                SimLockFile, SimPrint, SimUnlockFile, Tick, vars
  <2> QED
    BY <2>1, FlagSame
<1> QED
  BY <1>1, FlagPush, FlagRead DEF Next

-----------------------------------------------------------------------------
(* Nobody waits in a circle *)

PInv == QueueAwake /\ RoundInv /\ AwaitInv /\ CoverInv /\ LoggedInv /\ FlagInv

\* The invariants of the condition variables hold initially.
LEMMA ProgressInit == Init => PInv
<1> SUFFICES ASSUME Init PROVE PInv
  OBVIOUS
<1>1. /\ heap = <<>> /\ sharedQueue = <<>> /\ modifiedQueue = <<>> /\ temp = <<>>
      /\ simPc = "select" /\ printed = 0
      /\ \A p \in Pushers : pushPc[p] = "lock_shared"
      /\ \A r \in Readers : readPc[r] = "lock_modified"
  BY DEF Init
<1>2. Created = {} /\ AwaitCreated = {} /\ Deliveries = {}
  BY <1>1 DEF Created, AwaitCreated, PushIn, Deliveries
<1> QED
  BY <1>1, <1>2 DEF PInv, QueueAwake, RoundInv, AwaitInv, CoverInv, LoggedInv, FlagInv

\* The invariants of the condition variables hold in every behaviour.
LEMMA ProgressCorrect == Spec => []PInv
<1>1. IInv /\ PInv /\ [Next]_vars => QueueAwake'
  <2> SUFFICES ASSUME IInv, PInv, [Next]_vars PROVE QueueAwake'
    OBVIOUS
  <2>1. TypeOK /\ QueueAwake
    BY DEF IInv, PInv
  <2>2. CASE Tick \/ UNCHANGED vars
    BY <2>1, <2>2 DEF Tick, vars, QueueAwake
  <2> QED
    BY <2>1, <2>2, AwakeSim, AwakePush, AwakeRead DEF Next
<1>2. IInv /\ PInv /\ [Next]_vars => PInv'
  BY <1>1, RoundNext, AwaitNext, CoverNext, LoggedNext, FlagNext DEF IInv, PInv
<1> QED
  BY <1>2, ProgressInit, HandsCorrect, PTL DEF Spec

\* Who owns a mutex is not blocked, unless it waits for a flag.
LEMMA BlockedFree ==
  ASSUME MutualExclusion, AllBlocked
  PROVE  sharedQueueMutex = NoThread /\ modifiedQueueMutex = NoThread
           /\ writeToFileMutex = NoThread
<1>1. SharedHolders = {} /\ ModifiedHolders = {} /\ FileHolders = {}
  BY DEF AllBlocked, SimBlocked, PushBlocked, ReadBlocked, SharedHolders,
         ModifiedHolders, FileHolders, SimIn, PushIn, ReadIn
<1> QED
  BY <1>1 DEF MutualExclusion, HeldBy

\* When everybody is blocked, the simulator is between two rounds, and the others
\* wait for work.
LEMMA BlockedWaits ==
  ASSUME IInv, PInv, AllBlocked
  PROVE  /\ simPc = "select"
         /\ \A p \in Pushers : pushPc[p] = "wait_shared"
         /\ \A r \in Readers : readPc[r] = "wait_modified"
<1> USE DEF IInv, PInv
<1>1. simPc = "select" /\ temp = <<>>
  BY BlockedFree DEF AllBlocked, SimBlocked, RoundInv
<1>2. ASSUME NEW p \in Pushers
      PROVE  /\ pushPc[p] \in {"wait_shared", "lock_feed"}
             /\ pushPc[p] = "lock_feed" => feedMutex[Neighbour(p)] # NoThread
  <2>1. pushPc[p] # "wait_created"
    BY <1>1 DEF AwaitInv, AwaitCreated, PushIn
  <2> QED
    BY <2>1, BlockedFree DEF AllBlocked, PushBlocked
<1>3. ASSUME NEW r \in Readers
      PROVE  readPc[r] # "wait_flag"
  <2> DEFINE n == elem[r].node
             a == top[r]
  <2>1. SUFFICES ASSUME readPc[r] = "wait_flag" PROVE FALSE
    OBVIOUS
  <2>2. a \in batch[r] /\ <<a, n>> \notin pushPrinted
    BY <2>1 DEF FlagInv
  <2>3. n \in Nodes /\ a \in Created
    BY <2>2 DEF TypeOK, ReadType, Modification
  <2>4. Had(a, n)
    BY <2>2 DEF Had
  <2>5. PICK p \in Busy : LogsNext(p, a, n)
    BY <2>2, <2>3, <2>4 DEF LoggedInv
  <2> QED
    BY <1>2, <2>5 DEF LogsNext, Busy, PushIn, Early
<1>4. ASSUME NEW n \in Nodes
      PROVE  feedMutex[n] = NoThread
  <2>1. \A p \in Pushers : pushPc[p] \notin PushOnFeed
    BY <1>2 DEF PushOnFeed
  <2>2. \A r \in Readers : readPc[r] \notin ReadOnFeed
    BY <1>3, BlockedFree DEF AllBlocked, ReadBlocked, ReadOnFeed
  <2>3. FeedHolders(n) = {}
    BY <2>1, <2>2 DEF FeedHolders, PushIn, ReadIn
  <2> QED
    BY <2>3 DEF MutualExclusion, HeldBy
<1>5. ASSUME NEW p \in Pushers
      PROVE  pushPc[p] = "wait_shared"
  <2>1. CASE pushPc[p] = "lock_feed"
    <3>1. Neighbour(p) \in Nodes
      BY <2>1, NeighbourOK DEF PushOnNode, PushLabels
    <3> QED
      BY <1>2, <1>4, <2>1, <3>1
  <2> QED
    BY <1>2, <2>1
<1>6. ASSUME NEW r \in Readers
      PROVE  readPc[r] = "wait_modified"
  <2>1. elem[r].node \in Nodes
    BY DEF TypeOK, ReadType, Modification
  <2> QED
    BY <1>3, <1>4, <2>1, BlockedFree DEF AllBlocked, ReadBlocked
<1> QED
  BY <1>1, <1>5, <1>6

\* In every behaviour, whatever the number of threads, when all are blocked every
\* action created so far has been read by every neighbour of its user.
THEOREM BlockedOnlyWhenDoneCorrect == Spec => []BlockedOnlyWhenDone
<1>1. IInv /\ PInv /\ FeedTracked => BlockedOnlyWhenDone
  <2> SUFFICES ASSUME IInv, PInv, FeedTracked, AllBlocked, NEW d \in Deliveries
               PROVE  d \in readPrinted
    BY DEF BlockedOnlyWhenDone
  <2>1. /\ simPc = "select"
        /\ \A p \in Pushers : pushPc[p] = "wait_shared"
        /\ \A r \in Readers : readPc[r] = "wait_modified"
    BY BlockedWaits
  <2>2. sharedQueue = <<>> /\ modifiedQueue = <<>> /\ Busy = {} /\ ~Creating
    BY <2>1 DEF PInv, QueueAwake, Busy, PushIn, Creating
  <2>3. \A n \in Nodes : ~Tracked(n)
    BY <2>1, <2>2 DEF Tracked, PushIn
  <2>4. \A n \in Nodes : feed[n] = {}
    BY <2>3 DEF FeedTracked
  <2>5. \A r \in Readers : batch[r] = {}
    BY <2>1 DEF IInv, BatchInv, BatchLabels
  <2>6. ~Left(d[1], d[2])
    BY <2>2 DEF Left
  <2>7. d[2] \in Nodes /\ d = <<d[1], d[2]>>
    BY DEF Deliveries
  <2>8. Had(d[1], d[2])
    BY <2>6 DEF PInv, CoverInv
  <2> QED
    BY <2>4, <2>5, <2>7, <2>8 DEF Had
<1> QED
  BY <1>1, HandsCorrect, ProgressCorrect, FeedCorrect, PTL
=============================================================================
