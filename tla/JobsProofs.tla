----------------------------- MODULE JobsProofs -----------------------------
(***************************************************************************)
(* What holds of Jobs whatever the number of processes, stops and commands *)
(* of a line.                                                              *)
(*                                                                         *)
(* The handler knows the pipeline of every process it waits for, since     *)
(* SIGCHLD is blocked while a child may be forked and not recorded.        *)
(*                                                                         *)
(* The commands of a pipeline run in one process group, in whichever order *)
(* the shell and its children call setpgid.  The group is named by the     *)
(* first process.  A later one can enter it as long as the first one was   *)
(* not waited for: it keeps its number while it is a zombie, and the       *)
(* handler does not run until the last command is forked.                  *)
(*                                                                         *)
(* The wait for a foreground job ends when none of its processes runs, if  *)
(* no older process was left: nactive then counts those of the job of      *)
(* which neither an end nor a stop was reported, and each of them reports  *)
(* one of the two at most once while the shell waits.                      *)
(***************************************************************************)
EXTENDS Jobs, FiniteSetTheorems, TLAPS

\* What the argument needs of the types.
Typing ==
  /\ listed \in Nat
  /\ proc \in [Pids -> Process]
  /\ mapPipeline \in [Pids -> Int]

\* While execute forks, SIGCHLD is blocked and the handler does not run.
Masked == pc \in {"fork", "record"} => blocked /\ ~handling

Unused(p) == proc[p].state = "unused"

\* Processes are numbered in the order of their forks.
InOrder ==
  \A p \in Pids :
    Unused(p) => proc[p].job = Helper /\ \A q \in Pids : p < q => Unused(q)

\* The child that execute has forked and not recorded yet.
Unrecorded(p) == pc = "record" /\ ~Unused(p) /\ \A q \in Pids : p < q => Unused(q)

Recorded ==
  \A p \in Pids : proc[p].job # Helper /\ ~Unrecorded(p) => mapPipeline[p] = proc[p].job

\* That child exists, and belongs to the pipeline that Record enters for it.
RecordNext ==
  pc = "record" =>
    \E p \in Pids : Unrecorded(p) /\ proc[p].job = IF launched = 0 THEN listed ELSE Current

IInv == Typing /\ Masked /\ InOrder /\ Recorded /\ RecordNext

\* Steps that start no process and record none keep the invariant.
LEMMA Frame ==
  ASSUME IInv,
         UNCHANGED <<listed, launched>>,
         mapPipeline' \in [Pids -> Int],
         \A p \in Pids : proc[p].job # Helper /\ ~Unrecorded(p) => mapPipeline'[p] = mapPipeline[p],
         proc' \in [Pids -> Process],
         \A p \in Pids : proc'[p].job = proc[p].job /\ (Unused(p)' <=> Unused(p)),
         pc' = "record" <=> pc = "record",
         Masked'
  PROVE  IInv'
<1>1. \A p \in Pids : Unrecorded(p)' <=> Unrecorded(p)
  BY DEF Unrecorded
<1>2. Typing'
  BY DEF IInv, Typing
<1>3. InOrder'
  BY DEF IInv, InOrder
<1>4. Recorded'
  BY <1>1 DEF IInv, Recorded
<1>5. RecordNext'
  BY <1>1 DEF IInv, RecordNext, Current
<1> QED
  BY <1>2, <1>3, <1>4, <1>5 DEF IInv

\* A change of state of processes that were started.
LEMMA ChangedFrame ==
  ASSUME NEW P \in SUBSET Pids, \A p \in P : ~Unused(p),
         NEW state \in {"running", "stopped", "zombie"},
         NEW event \in {"stopped", "continued", "ended"},
         Changed(P, state, event), Typing
  PROVE  /\ proc' \in [Pids -> Process]
         /\ \A p \in Pids : proc'[p].job = proc[p].job /\ (Unused(p)' <=> Unused(p))
<1>1. ASSUME NEW p \in Pids
      PROVE  proc'[p] \in Process /\ proc'[p].job = proc[p].job /\ (Unused(p)' <=> Unused(p))
  <2>1. proc[p] \in Process
    BY DEF Typing
  <2>2. CASE p \in P
    <3>1. proc'[p] = [proc[p] EXCEPT !.state = state, !.event = event]
      BY <2>2 DEF Changed
    <3>2. proc'[p] \in Process /\ proc'[p].job = proc[p].job /\ proc'[p].state = state
      BY <2>1, <3>1 DEF Process
    <3> QED
      BY <2>2, <3>2 DEF Unused
  <2>3. CASE p \notin P
    BY <2>1, <2>3 DEF Changed, Unused
  <2> QED
    BY <2>2, <2>3
<1>2. proc' = [p \in Pids |-> proc'[p]]
  BY DEF Changed
<1> QED
  BY <1>1, <1>2

\* A child that was waited for.
LEMMA WaitedFrame ==
  ASSUME NEW p \in Pids, Waited(p), Typing
  PROVE  /\ proc' \in [Pids -> Process]
         /\ \A q \in Pids : proc'[q].job = proc[q].job /\ (Unused(q)' <=> Unused(q))
<1> DEFINE s == IF proc[p].state = "zombie" THEN "gone" ELSE proc[p].state
<1>1. proc' = [proc EXCEPT ![p] = [proc[p] EXCEPT !.event = "none", !.state = s]]
  BY DEF Waited, Typing, Process
<1>2. proc[p] \in Process /\ proc \in [Pids -> Process]
  BY DEF Typing
<1>3. /\ [proc[p] EXCEPT !.event = "none", !.state = s] \in Process
      /\ [proc[p] EXCEPT !.event = "none", !.state = s].job = proc[p].job
      /\ [proc[p] EXCEPT !.event = "none", !.state = s].state = s
  BY <1>2 DEF Process
<1>4. s = "unused" <=> proc[p].state = "unused"
  OBVIOUS
<1> HIDE DEF s
<1> QED
  BY <1>1, <1>2, <1>3, <1>4 DEF Unused

\* The fork of a child: it is numbered after all others.
LEMMA ForkedOrder ==
  ASSUME NEW job \in {Helper} \cup Nat, Forked(job), Typing, InOrder,
         UNCHANGED <<listed, mapPipeline>>
  PROVE  /\ Typing'
         /\ InOrder'
         /\ \E p \in Pids :
              /\ proc'[p].job = job /\ ~Unused(p)' /\ Unused(p)
              /\ \A q \in Pids : p < q => Unused(q)'
              /\ \A q \in Pids \ {p} : proc'[q] = proc[q]
<1>1. PICK p \in Pids :
        /\ Unused(p) /\ \A q \in Pids : Unused(q) => p <= q
        /\ proc' = [proc EXCEPT ![p] =
              [state |-> "starting", event |-> "none", group |-> Shell, job |-> job]]
  BY DEF Forked, InState, Unused
<1>2. proc'[p].job = job /\ ~Unused(p)' /\ \A q \in Pids \ {p} : proc'[q] = proc[q]
  BY <1>1 DEF Typing, Unused
<1>3. proc' \in [Pids -> Process]
  BY <1>1 DEF Typing, Process
<1>4. \A q \in Pids : p < q => Unused(q)'
  BY <1>1, <1>2 DEF InOrder, Unused, Pids
<1>5. InOrder'
  <2> SUFFICES ASSUME NEW q \in Pids, Unused(q)'
               PROVE  proc'[q].job = Helper /\ \A r \in Pids : q < r => Unused(r)'
    BY DEF InOrder
  <2>1. q # p /\ Unused(q)
    BY <1>2 DEF Unused
  <2>2. proc'[q].job = Helper
    BY <1>2, <2>1 DEF InOrder
  <2>3. p < q
    BY <1>1, <2>1 DEF Pids, JobsAssumption
  <2> QED
    BY <1>2, <2>1, <2>2, <2>3 DEF InOrder, Unused, Pids
<1> QED
  BY <1>1, <1>2, <1>3, <1>4, <1>5 DEF Typing

-----------------------------------------------------------------------------
\* The invariant holds initially.
LEMMA InitInv == Init => IInv
BY JobsAssumption
   DEF Init, IInv, Typing, Masked, InOrder, Recorded, RecordNext, Unused, Process, Pids,
       Helper, Shell, NotMapped

\* The processes and Ctrl-Z.
LEMMA ProcessSteps ==
  ASSUME IInv, (\E p \in Pids : FailToStart(p) \/ Start(p) \/ End(p)) \/ CtrlZ
  PROVE  IInv'
<1>1. Typing /\ Masked
  BY DEF IInv
<1>2. ASSUME NEW p \in Pids, FailToStart(p) \/ End(p) PROVE IInv'
  <2>1. ~Unused(p) /\ Changed({p}, "zombie", "ended")
    BY <1>2 DEF FailToStart, End, Unused
  <2>2. /\ proc' \in [Pids -> Process]
        /\ \A q \in Pids : proc'[q].job = proc[q].job /\ (Unused(q)' <=> Unused(q))
    BY <1>1, <2>1, ChangedFrame
  <2> QED
    BY <1>1, <1>2, <2>2, Frame DEF FailToStart, End, shellVars, Masked, Typing
<1>3. ASSUME NEW p \in Pids, Start(p) PROVE IInv'
  <2> DEFINE g == CASE proc[p].job = Helper -> Shell
                    [] p = Leader(proc[p].job) -> p
                    [] OTHER -> Leader(proc[p].job)
  <2>1. proc' = [proc EXCEPT ![p].state = "running", ![p].group = GroupAfter(p, g)]
    BY <1>3 DEF Start
  <2>2. GroupAfter(p, g) \in {Shell} \cup Pids
    BY <1>1 DEF GroupAfter, Typing, Process, Children, InState
  <2>3. ~Unused(p)
    BY <1>3 DEF Start, Unused
  <2> HIDE DEF g
  <2> DEFINE started == [proc[p] EXCEPT !.state = "running", !.group = GroupAfter(p, g)]
  <2>4. proc' = [proc EXCEPT ![p] = started]
    BY <1>1, <2>1 DEF Typing, Process
  <2>5. proc[p] \in Process /\ proc \in [Pids -> Process]
    BY <1>1 DEF Typing
  <2>6. started \in Process /\ started.job = proc[p].job /\ started.state = "running"
    BY <2>2, <2>5 DEF Process
  <2> HIDE DEF started
  <2>7. /\ proc' \in [Pids -> Process]
        /\ \A q \in Pids : proc'[q].job = proc[q].job /\ (Unused(q)' <=> Unused(q))
    BY <2>3, <2>4, <2>5, <2>6 DEF Unused
  <2> QED
    BY <1>1, <1>3, <2>7, Frame DEF Start, shellVars, signals, Masked, Typing
<1>4. ASSUME CtrlZ PROVE IInv'
  <2>1. PICK P \in SUBSET {p \in InState({"running"}) : proc[p].group = terminal} :
          Changed(P, "stopped", "stopped")
    BY <1>4 DEF CtrlZ
  <2>2. P \in SUBSET Pids /\ \A p \in P : ~Unused(p)
    BY DEF InState, Unused
  <2>3. /\ proc' \in [Pids -> Process]
        /\ \A q \in Pids : proc'[q].job = proc[q].job /\ (Unused(q)' <=> Unused(q))
    BY <1>1, <2>1, <2>2, ChangedFrame
  <2> QED
    BY <1>1, <1>4, <2>3, Frame DEF CtrlZ, shellVars, Masked, Typing
<1> QED
  BY <1>2, <1>3, <1>4

\* The handler.
LEMMA HandlerSteps == ASSUME IInv, HandlerStep PROVE IInv'
<1>1. Typing /\ Masked
  BY DEF IInv
<1>2. ASSUME Deliver PROVE IInv'
  <2>1. pc' = pc /\ blocked' = blocked /\ pc \notin {"fork", "record"}
    BY <1>1, <1>2 DEF Deliver, Masked
  <2>2. proc' = proc /\ listed' = listed /\ mapPipeline' = mapPipeline /\ launched' = launched
    BY <1>2 DEF Deliver, shellVars, system
  <2> QED
    BY <1>1, <2>1, <2>2, Frame DEF Masked, Typing, Unused
<1>3. ASSUME HandlerReturns PROVE IInv'
  BY <1>1, <1>3, Frame DEF HandlerReturns, shellVars, system, Masked, Typing, Unused
<1>4. ASSUME NEW p \in Pids, Reap(p) PROVE IInv'
  <2>1. /\ Waited(p) /\ handling /\ proc[p].event # "none" /\ handling' = handling
        /\ blocked' = blocked /\ listed' = listed /\ launched' = launched
        /\ pc' \in {pc, "crashed"}
    BY <1>4 DEF Reap, ReapChild
  <2>2. pc \notin {"fork", "record"}
    BY <1>1, <2>1 DEF Masked
  <2>3. mapPipeline' = [mapPipeline EXCEPT ![p] = IF @ = NotMapped THEN 0 ELSE @]
    BY <1>4 DEF Reap, ReapChild
  <2>4. \A q \in Pids : proc[q].job # Helper => mapPipeline'[q] = mapPipeline[q]
    <3> SUFFICES ASSUME NEW q \in Pids, proc[q].job # Helper
                 PROVE  mapPipeline'[q] = mapPipeline[q]
      OBVIOUS
    <3>1. mapPipeline[q] = proc[q].job
      BY <2>2 DEF IInv, Recorded, Unrecorded
    <3>2. mapPipeline[q] # NotMapped
      BY <3>1 DEF NotMapped, Helper
    <3> QED
      BY <1>1, <2>3, <3>2 DEF Typing
  <2>5. mapPipeline' \in [Pids -> Int]
    BY <1>1, <2>3 DEF Typing, NotMapped
  <2>6. /\ proc' \in [Pids -> Process]
        /\ \A q \in Pids : proc'[q].job = proc[q].job /\ (Unused(q)' <=> Unused(q))
    BY <1>1, <2>1, WaitedFrame
  <2>7. Masked' /\ (pc' = "record" <=> pc = "record")
    BY <2>1, <2>2 DEF Masked
  <2> QED
    BY <2>1, <2>4, <2>5, <2>6, <2>7, Frame
<1> QED
  BY <1>2, <1>3, <1>4 DEF HandlerStep

\* The steps of main and execute that neither fork nor record.
LEMMA QuietSteps ==
  ASSUME IInv,
         \/ ReadLine \/ EndOfInput
         \/ Execute \/ CannotFork \/ LeaveInBackground \/ StartWait \/ WaitReturns
         \/ TestStopped \/ GiveBackTerminal
  PROVE  IInv'
<1>1. Typing /\ Masked
  BY DEF IInv
<1>2. proc' = proc /\ listed' = listed /\ mapPipeline' = mapPipeline
  BY DEF ReadLine, EndOfInput, Execute, CannotFork, LeaveInBackground, StartWait,
         WaitReturns, TestStopped, GiveBackTerminal, shellVars, system
<1>3. CASE Execute
  <2>1. pc' = "fork" /\ pc = "execute" /\ Masked'
    BY <1>3 DEF Execute, At, Goto, Masked
  <2>2. Recorded' /\ InOrder' /\ RecordNext' /\ Typing'
    BY <1>2, <2>1 DEF IInv, Recorded, InOrder, RecordNext, Typing, Unrecorded, Unused
  <2> QED
    BY <2>1, <2>2 DEF IInv
<1>4. CASE ~Execute
  <2>1. launched' = launched /\ (pc' = "record" <=> pc = "record") /\ Masked'
    BY <1>1, <1>4
    DEF ReadLine, EndOfInput, CannotFork, LeaveInBackground, StartWait, WaitReturns,
        TestStopped, GiveBackTerminal, At, Goto, signals, Masked
  <2> QED
    BY <1>1, <1>2, <2>1, Frame DEF Typing, Unused
<1> QED
  BY <1>3, <1>4

\* A fork makes the one process that is not recorded, with SIGCHLD blocked.
LEMMA ForkStep == ASSUME IInv, Fork PROVE IInv'
<1> DEFINE job == IF launched = 0 THEN listed ELSE Current
<1>1. /\ pc = "fork" /\ pc' = "record" /\ Forked(job) /\ ~handling
      /\ listed' = listed /\ mapPipeline' = mapPipeline /\ launched' = launched
      /\ blocked' = blocked /\ handling' = handling
  BY DEF Fork, At, Goto, shellVars, signals
<1>2. Typing /\ InOrder /\ Recorded /\ Masked
  BY DEF IInv
<1>3. job \in {Helper} \cup Nat
  BY <1>2 DEF Typing, Current, Helper
<1> HIDE DEF job
<1>4. PICK p \in Pids :
        /\ proc'[p].job = job /\ ~Unused(p)' /\ Unused(p)
        /\ \A q \in Pids : p < q => Unused(q)'
        /\ \A q \in Pids \ {p} : proc'[q] = proc[q]
  BY <1>1, <1>2, <1>3, ForkedOrder
<1>5. Typing' /\ InOrder'
  BY <1>1, <1>2, <1>3, ForkedOrder
<1>6. Unrecorded(p)'
  BY <1>1, <1>4 DEF Unrecorded
<1>7. Recorded'
  BY <1>1, <1>2, <1>4, <1>6 DEF Recorded, Unrecorded
<1>8. RecordNext'
  BY <1>1, <1>4, <1>6 DEF RecordNext, job, Current
<1> QED
  BY <1>1, <1>2, <1>5, <1>7, <1>8 DEF IInv, Masked

\* The record enters that process in map_pipeline.
LEMMA RecordStep == ASSUME IInv, Record PROVE IInv'
<1>1. pc = "record" /\ pc' = "fork" /\ ~handling /\ handling' = handling /\ blocked' = blocked
  BY DEF Record, At, Goto, signals
<1>2. Typing /\ InOrder /\ Recorded /\ Masked /\ RecordNext
  BY DEF IInv
<1>3. PICK c \in Pids : Unrecorded(c) /\ proc[c].job = IF launched = 0 THEN listed ELSE Current
  BY <1>1, <1>2 DEF RecordNext
<1>4. \A p \in Pids : Unrecorded(p) => p = c
  BY <1>3 DEF Unrecorded, Pids
<1>5. Newest = c
  BY <1>1, <1>3, <1>4 DEF Newest, Unrecorded, Unused
<1>6. /\ listed' = IF launched = 0 THEN listed + 1 ELSE listed
      /\ mapPipeline' = [mapPipeline EXCEPT ![c] = listed' - 1]
  BY <1>5 DEF Record
<1>7. \E g : proc' = [proc EXCEPT ![c].group = g] /\ g \in {Shell} \cup Pids
  <2>1. pipeline' = IF launched = 0 THEN [pipeline EXCEPT !.pgid = c] ELSE pipeline
    BY <1>5 DEF Record
  <2>2. proc' = [proc EXCEPT ![c].group = GroupAfter(c, pipeline'.pgid)]
    BY <1>5 DEF Record
  <2>3. GroupAfter(c, pipeline'.pgid) \in {Shell} \cup Pids
    BY <1>2 DEF GroupAfter, Typing, Process, Children, InState
  <2> QED
    BY <2>2, <2>3
<1>8. /\ proc' \in [Pids -> Process]
      /\ \A p \in Pids : proc'[p].job = proc[p].job /\ (Unused(p)' <=> Unused(p))
  BY <1>2, <1>7 DEF Typing, Process, Unused
<1>9. Typing'
  <2>1. listed' \in Nat
    BY <1>2, <1>6 DEF Typing
  <2>2. listed' - 1 \in Int
    BY <2>1
  <2>3. mapPipeline' \in [Pids -> Int]
    BY <1>2, <1>6, <2>2 DEF Typing
  <2> QED
    BY <1>8, <2>1, <2>3 DEF Typing
<1>10. InOrder'
  BY <1>2, <1>8 DEF InOrder
<1>11. Recorded'
  <2> SUFFICES ASSUME NEW p \in Pids, proc'[p].job # Helper
               PROVE  mapPipeline'[p] = proc'[p].job
    BY DEF Recorded
  <2>1. CASE p = c
    BY <1>2, <1>3, <1>6, <1>8, <2>1 DEF Typing, Current
  <2>2. CASE p # c
    BY <1>2, <1>4, <1>6, <1>8, <2>2 DEF Typing, Recorded
  <2> QED
    BY <2>1, <2>2
<1> QED
  BY <1>1, <1>2, <1>9, <1>10, <1>11 DEF IInv, Masked, RecordNext

\* SIGCONT to the job, and the steps of exec_delep.
LEMMA OtherSteps ==
  ASSUME IInv, ContinueJob \/ ForkHelper \/ WaitHelper \/ KillOpeners
  PROVE  IInv'
<1>1. Typing /\ InOrder /\ Recorded /\ Masked
  BY DEF IInv
<1>2. /\ pc \notin {"fork", "record"} /\ pc' \notin {"fork", "record"}
      /\ listed' = listed /\ mapPipeline' = mapPipeline /\ launched' = launched
  BY DEF ContinueJob, ForkHelper, WaitHelper, KillOpeners, At, Goto, shellVars
<1>3. CASE ForkHelper
  <2>1. Forked(Helper)
    BY <1>3 DEF ForkHelper
  <2>2. PICK p \in Pids :
          /\ proc'[p].job = Helper
          /\ \A q \in Pids \ {p} : proc'[q] = proc[q]
    BY <1>1, <1>2, <2>1, ForkedOrder
  <2>3. Typing' /\ InOrder'
    BY <1>1, <1>2, <2>1, ForkedOrder
  <2>4. Recorded'
    BY <1>1, <1>2, <2>2 DEF Recorded, Unrecorded
  <2> QED
    BY <1>2, <2>3, <2>4 DEF IInv, Masked, RecordNext
<1>4. CASE ContinueJob \/ KillOpeners
  <2>1. \E P \in SUBSET Pids, s \in {"running", "zombie"}, e \in {"continued", "ended"} :
          (\A p \in P : ~Unused(p)) /\ Changed(P, s, e)
    <3>1. CASE ContinueJob
      <4> DEFINE P == {p \in InState({"stopped"}) : proc[p].group = pipeline.pgid}
      <4>1. P \in SUBSET Pids /\ (\A p \in P : ~Unused(p)) /\ Changed(P, "running", "continued")
        BY <3>1 DEF ContinueJob, InState, Unused
      <4> HIDE DEF P
      <4> QED
        BY <4>1
    <3>2. CASE KillOpeners
      BY <3>2 DEF KillOpeners, InState, Alive, Unused
    <3> QED
      BY <1>4, <3>1, <3>2
  <2>2. /\ proc' \in [Pids -> Process]
        /\ \A q \in Pids : proc'[q].job = proc[q].job /\ (Unused(q)' <=> Unused(q))
    BY <1>1, <2>1, ChangedFrame
  <2> QED
    BY <1>1, <1>2, <2>2, Frame DEF Masked, Typing
<1>5. CASE WaitHelper
  <2>1. UNCHANGED proc \/ \E p \in Pids : Waited(p)
    BY <1>5 DEF WaitHelper, InState
  <2>2. /\ proc' \in [Pids -> Process]
        /\ \A q \in Pids : proc'[q].job = proc[q].job /\ (Unused(q)' <=> Unused(q))
    BY <1>1, <2>1, WaitedFrame DEF Typing, Unused
  <2> QED
    BY <1>1, <1>2, <2>2, Frame DEF Masked, Typing
<1> QED
  BY <1>3, <1>4, <1>5

\* Every step keeps the invariant.
LEMMA NextInv == IInv /\ [Next]_vars => IInv'
<1> SUFFICES ASSUME IInv, [Next]_vars PROVE IInv'
  OBVIOUS
<1>1. CASE UNCHANGED vars
  <2>1. pc' = pc /\ UNCHANGED <<listed, mapPipeline, launched, proc, blocked, handling>>
    BY <1>1 DEF vars, shellVars, signals, system
  <2> QED
    BY <2>1, Frame DEF IInv, Typing, Masked, Unused
<1>2. CASE Next
  BY <1>2, ProcessSteps, HandlerSteps, QuietSteps, ForkStep, RecordStep, OtherSteps
  DEF Next, ShellStep, User
<1> QED
  BY <1>1, <1>2

\* While the handler runs no process is unrecorded.
LEMMA InvImplies == IInv => HandlerKnowsChildren
BY DEF IInv, Masked, Recorded, Unrecorded, HandlerKnowsChildren

\* In every behaviour the handler finds in map_pipeline each process of a
\* pipeline that it waits for, since execute keeps SIGCHLD blocked while a
\* child may be forked and not recorded.
THEOREM HandlerKnowsCorrect == Spec => []HandlerKnowsChildren
<1>1. Init => IInv
  BY InitInv
<1>2. IInv /\ [Next]_vars => IInv'
  BY NextInv
<1>3. IInv => HandlerKnowsChildren
  BY InvImplies
<1> QED
  BY <1>1, <1>2, <1>3, PTL DEF Spec

-----------------------------------------------------------------------------
(* The process groups *)

IsLeader(l, job) == l \in Members(job) /\ \A q \in Members(job) : l <= q

\* A process whose group was set, by its parent or by itself.
Settled(p) == /\ p \in Children /\ proc[p].job # Helper
              /\ Unrecorded(p) => proc[p].state \in {"running", "stopped"}

\* Pipelines are numbered in the order of the list; the latest one is not in
\* it until its first process is recorded.
Numbered ==
  /\ launched \in Nat
  /\ \A p \in Pids : \/ proc[p].job < listed
                     \/ Unrecorded(p) /\ launched = 0 /\ proc[p].job = listed

Led == \A p \in Pids : ~Unused(p) => \E l \in Pids : IsLeader(l, proc[p].job)

Grouped == \A p \in Pids : Settled(p) => IsLeader(proc[p].group, proc[p].job)

\* Between two forks of a pipeline its first process is not waited for.
LeaderStays ==
  /\ pc \in {"fork", "record"} /\ launched # 0 =>
       /\ Current # Helper /\ IsLeader(pipeline.pgid, Current)
       /\ ~Unrecorded(pipeline.pgid) /\ pipeline.pgid \in Children
  /\ \A p \in Pids : Unrecorded(p) => p \in Children

GInv == Numbered /\ Led /\ Grouped /\ LeaderStays

-----------------------------------------------------------------------------
\* A job has one leader.
LEMMA LeaderOf == ASSUME NEW l, NEW job, IsLeader(l, job) PROVE Leader(job) = l
<1>1. Members(job) \subseteq Int
  BY DEF Members, Pids
<1>2. ASSUME NEW m \in Members(job), \A q \in Members(job) : m <= q PROVE m = l
  BY <1>1, <1>2 DEF IsLeader
<1> QED
  BY <1>2 DEF IsLeader, Leader

\* Two leaders of a job are the same process.
LEMMA OneLeader ==
  ASSUME NEW l, NEW m, NEW job, IsLeader(l, job), IsLeader(m, job) PROVE l = m
BY LeaderOf

\* The leaders stay the same while no process is started.
LEMMA SameLeaders ==
  ASSUME \A p \in Pids : proc'[p].job = proc[p].job /\ (Unused(p)' <=> Unused(p)),
         NEW l, NEW job
  PROVE  IsLeader(l, job)' <=> IsLeader(l, job)
<1>1. Members(job)' = Members(job)
  BY DEF Members, Unused
<1> QED
  BY <1>1 DEF IsLeader

\* Steps that start no process and record none keep the groups.
LEMMA GroupFrame ==
  ASSUME GInv, UNCHANGED <<listed, launched>>,
         \A p \in Pids : proc'[p].job = proc[p].job /\ (Unused(p)' <=> Unused(p)),
         \A p \in Pids : Settled(p)' =>
            \/ Settled(p) /\ proc'[p].group = proc[p].group
            \/ IsLeader(proc'[p].group, proc[p].job),
         pc = "record" => pc' = "record",
         pc' \in {"fork", "record"} =>
            pc' = pc /\ pipeline'.pgid = pipeline.pgid /\ Children \subseteq Children'
  PROVE  GInv'
<1>1. \A p \in Pids : Unrecorded(p)' <=> Unrecorded(p)
  BY DEF Unrecorded
<1>2. Numbered'
  BY <1>1 DEF GInv, Numbered
<1>3. Led'
  BY SameLeaders DEF GInv, Led
<1>4. Grouped'
  BY SameLeaders DEF GInv, Grouped
<1>5. LeaderStays'
  <2>1. ASSUME pc' \in {"fork", "record"}, launched' # 0
        PROVE  (/\ Current # Helper /\ IsLeader(pipeline.pgid, Current)
                /\ ~Unrecorded(pipeline.pgid) /\ pipeline.pgid \in Children)'
    <3>1. /\ Current' = Current /\ pipeline'.pgid = pipeline.pgid
          /\ Current # Helper /\ IsLeader(pipeline.pgid, Current)
          /\ ~Unrecorded(pipeline.pgid) /\ pipeline.pgid \in Children
          /\ Children \subseteq Children'
      BY <2>1 DEF GInv, LeaderStays, Current
    <3>2. pipeline.pgid \in Pids
      BY <3>1 DEF Children, InState
    <3>3. (IsLeader(pipeline.pgid, Current))'
      <4> DEFINE l == pipeline.pgid
                 j == Current
      <4>1. l' = l /\ j' = j
        BY <3>1
      <4>2. Members(j)' = Members(j)
        BY <4>1 DEF Members, Unused
      <4> QED
        BY <3>1, <4>1, <4>2 DEF IsLeader
    <3>4. (Unrecorded(pipeline.pgid))' <=> Unrecorded(pipeline.pgid)
      BY <3>1, <3>2 DEF Unrecorded
    <3> QED
      BY <3>1, <3>3, <3>4
  <2>2. \A p \in Pids : Unrecorded(p)' => p \in Children'
    BY <1>1 DEF GInv, LeaderStays, Unrecorded
  <2> QED
    BY <2>1, <2>2 DEF LeaderStays
<1> QED
  BY <1>2, <1>3, <1>4, <1>5 DEF GInv

\* A change of state of processes that were started, to one that only a
\* started process leaves.
LEMMA ChangedGroups ==
  ASSUME NEW P \in SUBSET Alive,
         NEW state \in {"running", "stopped", "zombie"},
         NEW event \in {"stopped", "continued", "ended"},
         state # "zombie" => P \subseteq InState({"running", "stopped"}),
         Changed(P, state, event), Typing,
         pc' = "record" <=> pc = "record"
  PROVE  /\ \A p \in Pids : proc'[p].job = proc[p].job /\ (Unused(p)' <=> Unused(p))
         /\ \A p \in Pids : Settled(p)' => Settled(p) /\ proc'[p].group = proc[p].group
         /\ Children \subseteq Children'
<1>1. P \in SUBSET Pids /\ \A p \in P : ~Unused(p)
  BY DEF Alive, InState, Unused
<1>2. \A p \in Pids : proc'[p].job = proc[p].job /\ (Unused(p)' <=> Unused(p))
  BY <1>1, ChangedFrame
<1>3. ASSUME NEW p \in Pids
      PROVE  /\ proc'[p].group = proc[p].group
             /\ proc'[p].state = IF p \in P THEN state ELSE proc[p].state
  <2>1. proc[p] \in Process
    BY DEF Typing
  <2>2. CASE p \in P
    BY <2>1, <2>2 DEF Changed, Process
  <2>3. CASE p \notin P
    BY <2>1, <2>3 DEF Changed
  <2> QED
    BY <2>2, <2>3
<1>4. \A p \in Pids : Unrecorded(p)' <=> Unrecorded(p)
  BY <1>2 DEF Unrecorded
<1>5. \A p \in Pids : (p \in Children)' <=> p \in Children
  BY <1>3 DEF Children, InState, Alive
<1>6. \A p \in Pids : Settled(p)' => Settled(p)
  BY <1>2, <1>3, <1>4, <1>5 DEF Settled, InState
<1> QED
  BY <1>2, <1>3, <1>5, <1>6 DEF Children, InState

\* A child that was waited for.
LEMMA WaitedGroups ==
  ASSUME NEW p \in Pids, Waited(p), Typing, pc' = "record" <=> pc = "record"
  PROVE  /\ \A q \in Pids : proc'[q].job = proc[q].job /\ (Unused(q)' <=> Unused(q))
         /\ \A q \in Pids : Settled(q)' => Settled(q) /\ proc'[q].group = proc[q].group
<1>1. \A q \in Pids : proc'[q].job = proc[q].job /\ (Unused(q)' <=> Unused(q))
  BY WaitedFrame
<1>2. ASSUME NEW q \in Pids
      PROVE  /\ proc'[q].group = proc[q].group
             /\ proc'[q].state \in {proc[q].state, "gone"}
  BY DEF Waited, Typing, Process
<1>3. \A q \in Pids : Unrecorded(q)' <=> Unrecorded(q)
  BY <1>1 DEF Unrecorded
<1> QED
  BY <1>1, <1>2, <1>3 DEF Settled, Children, InState

\* The fork of a child: the leaders stay, and its job has one.
LEMMA ForkedGroups ==
  ASSUME NEW job \in {Helper} \cup Nat, Forked(job), IInv, GInv,
         pc # "record", UNCHANGED <<listed, mapPipeline>>
  PROVE  \E p \in Pids :
           /\ proc'[p].job = job /\ proc'[p].state = "starting" /\ Unused(p)
           /\ \A q \in Pids : p < q => Unused(q)'
           /\ \A q \in Pids \ {p} : proc'[q] = proc[q]
           /\ \A l \in Pids : \A j : IsLeader(l, j) => IsLeader(l, j)'
           /\ \A q \in Pids : ~Unused(q) => q < p
           /\ (\A q \in Pids : ~Unused(q) => proc[q].job # job) => IsLeader(p, job)'
           /\ Led'
<1>1. Typing /\ InOrder /\ Led
  BY DEF IInv, GInv
<1>2. PICK p \in Pids :
        /\ Unused(p)
        /\ proc' = [proc EXCEPT ![p] =
              [state |-> "starting", event |-> "none", group |-> Shell, job |-> job]]
  BY DEF Forked, InState, Unused
<1>3. PICK r \in Pids :
        /\ proc'[r].job = job /\ ~Unused(r)' /\ Unused(r)
        /\ \A q \in Pids : r < q => Unused(q)'
        /\ \A q \in Pids \ {r} : proc'[q] = proc[q]
  BY <1>1, ForkedOrder
<1>4. r = p
  BY <1>2, <1>3 DEF Unused
<1>5. proc'[p].state = "starting"
  BY <1>1, <1>2 DEF Typing
<1>6. \A q \in Pids : ~Unused(q) => q < p
  BY <1>1, <1>2 DEF InOrder, Pids
<1>7. \A j : Members(j)' = IF j = job THEN Members(j) \cup {p} ELSE Members(j)
  BY <1>2, <1>3, <1>4 DEF Members, Unused
<1>8. \A j : \A q \in Members(j) : q < p /\ q \in Pids
  BY <1>6 DEF Members, Unused
<1>9. ASSUME NEW l \in Pids, NEW j, IsLeader(l, j) PROVE IsLeader(l, j)'
  <2>1. l \in Members(j) /\ l \in Members(j)' /\ l < p
    BY <1>7, <1>8, <1>9 DEF IsLeader
  <2>2. \A q \in Members(j)' : q \in Members(j) \/ q = p
    BY <1>7
  <2>3. \A q \in Members(j)' : l <= q
    BY <1>9, <2>1, <2>2 DEF IsLeader, Pids
  <2> QED
    BY <2>1, <2>3 DEF IsLeader
<1>10. ASSUME \A q \in Pids : ~Unused(q) => proc[q].job # job PROVE IsLeader(p, job)'
  <2>1. Members(job)' = {p}
    BY <1>7, <1>10 DEF Members, Unused
  <2> QED
    BY <2>1 DEF IsLeader, Pids
<1>11. Led'
  <2> SUFFICES ASSUME NEW q \in Pids, ~Unused(q)'
               PROVE  \E l \in Pids : IsLeader(l, proc[q].job)'
    BY DEF Led
  <2>1. CASE q # p
    <3>1. proc'[q] = proc[q] /\ ~Unused(q)
      BY <1>3, <1>4, <2>1 DEF Unused
    <3>2. PICK l \in Pids : IsLeader(l, proc[q].job)
      BY <1>1, <3>1 DEF Led
    <3> QED
      BY <1>9, <3>1, <3>2
  <2>2. CASE q = p /\ \E s \in Pids : ~Unused(s) /\ proc[s].job = job
    <3>1. PICK l \in Pids : IsLeader(l, job)
      BY <1>1, <2>2 DEF Led
    <3> QED
      BY <1>3, <1>4, <1>9, <2>2, <3>1
  <2>3. CASE q = p /\ \A s \in Pids : ~Unused(s) => proc[s].job # job
    BY <1>3, <1>4, <1>10, <2>3
  <2> QED
    BY <2>1, <2>2, <2>3
<1> QED
  BY <1>2, <1>3, <1>4, <1>5, <1>6, <1>9, <1>10, <1>11

-----------------------------------------------------------------------------
\* No process exists initially.
LEMMA InitGroups == Init => GInv
BY JobsAssumption
   DEF Init, GInv, Numbered, Led, Grouped, LeaderStays, Settled, Unrecorded, Unused,
       Children, InState, Pids, Helper

\* The processes and Ctrl-Z: a child that starts finds the group its parent
\* set, or sets the same one.
LEMMA ProcessGroups ==
  ASSUME IInv, GInv, (\E p \in Pids : FailToStart(p) \/ Start(p) \/ End(p)) \/ CtrlZ
  PROVE  GInv'
<1>1. Typing /\ RecordNext
  BY DEF IInv
<1>2. ASSUME NEW p \in Pids, FailToStart(p) \/ End(p) PROVE GInv'
  <2>1. /\ {p} \in SUBSET Alive /\ Changed({p}, "zombie", "ended")
        /\ pc' = pc /\ UNCHANGED <<listed, launched, pipeline>>
    BY <1>2 DEF FailToStart, End, Alive, InState, shellVars
  <2>2. /\ \A q \in Pids : proc'[q].job = proc[q].job /\ (Unused(q)' <=> Unused(q))
        /\ \A q \in Pids : Settled(q)' => Settled(q) /\ proc'[q].group = proc[q].group
        /\ Children \subseteq Children'
    BY <1>1, <2>1, ChangedGroups
  <2> QED
    BY <2>1, <2>2, GroupFrame
<1>3. ASSUME CtrlZ PROVE GInv'
  <2>1. PICK P \in SUBSET {p \in InState({"running"}) : proc[p].group = terminal} :
          Changed(P, "stopped", "stopped")
    BY <1>3 DEF CtrlZ
  <2>2. P \in SUBSET Alive /\ P \subseteq InState({"running", "stopped"})
    BY DEF Alive, InState
  <2>3. pc' = pc /\ UNCHANGED <<listed, launched, pipeline>>
    BY <1>3 DEF CtrlZ, shellVars
  <2>4. /\ \A q \in Pids : proc'[q].job = proc[q].job /\ (Unused(q)' <=> Unused(q))
        /\ \A q \in Pids : Settled(q)' => Settled(q) /\ proc'[q].group = proc[q].group
        /\ Children \subseteq Children'
    BY <1>1, <2>1, <2>2, <2>3, ChangedGroups
  <2> QED
    BY <2>3, <2>4, GroupFrame
<1>4. ASSUME NEW p \in Pids, Start(p) PROVE GInv'
  <2> DEFINE L == Leader(proc[p].job)
             g == CASE proc[p].job = Helper -> Shell [] p = L -> p [] OTHER -> L
  <2>1. /\ proc[p].state = "starting" /\ pc' = pc
        /\ UNCHANGED <<listed, launched, pipeline>>
        /\ proc' = [proc EXCEPT ![p].state = "running", ![p].group = GroupAfter(p, g)]
    BY <1>4 DEF Start, shellVars
  <2>2. /\ \A q \in Pids \ {p} : proc'[q] = proc[q]
        /\ proc'[p].state = "running" /\ proc'[p].job = proc[p].job
        /\ proc'[p].group = GroupAfter(p, g)
    <3> HIDE DEF g
    <3> QED
      BY <1>1, <2>1 DEF Typing, Process
  <2>3. \A q \in Pids : proc'[q].job = proc[q].job /\ (Unused(q)' <=> Unused(q))
    BY <2>1, <2>2 DEF Unused
  <2>4. p \in Children
    BY <2>1 DEF Children, InState
  <2>5. Children' = Children
    BY <2>1, <2>2 DEF Children, InState
  <2>6. \A q \in Pids \ {p} : Settled(q)' => Settled(q) /\ proc'[q].group = proc[q].group
    BY <2>1, <2>2, <2>3, <2>5 DEF Settled, Unrecorded
  <2>7. ASSUME proc[p].job # Helper PROVE IsLeader(proc'[p].group, proc[p].job)
    <3>1. PICK l \in Pids : IsLeader(l, proc[p].job)
      BY <2>1 DEF GInv, Led, Unused
    <3>2. L = l
      BY <3>1, LeaderOf
    <3>3. g = l
      BY <2>7, <3>2
    <3>4. l # p => \E q \in Children : proc[q].group = l
      <4> SUFFICES ASSUME l # p PROVE \E q \in Children : proc[q].group = l
        OBVIOUS
      <4>1. CASE ~Unrecorded(p)
        <5>1. Settled(p)
          BY <2>4, <2>7, <4>1 DEF Settled
        <5>2. proc[p].group = l
          BY <3>1, <5>1, OneLeader DEF GInv, Grouped
        <5> QED
          BY <2>4, <5>2
      <4>2. CASE Unrecorded(p) /\ launched = 0
        <5>1. pc = "record" /\ \A q \in Pids : Unrecorded(q) => q = p
          BY <4>2 DEF Unrecorded, Pids
        <5>2. proc[p].job = listed
          BY <1>1, <4>2, <5>1 DEF RecordNext
        <5>3. l \in Members(listed)
          BY <3>1, <5>2 DEF IsLeader
        <5>4. proc[l].job = listed /\ ~Unrecorded(l)
          BY <5>1, <5>3 DEF Members
        <5>5. proc[l].job < listed
          BY <5>4 DEF GInv, Numbered
        <5> QED
          BY <1>1, <5>4, <5>5 DEF Typing
      <4>3. CASE Unrecorded(p) /\ launched # 0
        <5>1. pc = "record" /\ \A q \in Pids : Unrecorded(q) => q = p
          BY <4>3 DEF Unrecorded, Pids
        <5>2. proc[p].job = Current
          BY <1>1, <4>3, <5>1 DEF RecordNext
        <5>3. /\ Current # Helper /\ IsLeader(pipeline.pgid, Current)
              /\ ~Unrecorded(pipeline.pgid) /\ pipeline.pgid \in Children
          BY <4>3, <5>1 DEF GInv, LeaderStays
        <5>4. pipeline.pgid = l
          BY <3>1, <5>2, <5>3, OneLeader
        <5>5. Settled(l)
          BY <5>3, <5>4 DEF Settled, IsLeader, Members
        <5>6. IsLeader(proc[l].group, proc[l].job) /\ proc[l].job = Current
          BY <3>1, <5>2, <5>5 DEF GInv, Grouped, IsLeader, Members
        <5>7. proc[l].group = l
          BY <3>1, <5>2, <5>6, OneLeader
        <5> QED
          BY <5>3, <5>4, <5>7
      <4> QED
        BY <4>1, <4>2, <4>3
    <3>5. GroupAfter(p, g) = l
      BY <3>3, <3>4 DEF GroupAfter
    <3> QED
      BY <2>2, <3>1, <3>5
  <2>8. Settled(p)' => proc[p].job # Helper
    BY <2>2 DEF Settled
  <2> HIDE DEF g, L
  <2>9. \A q \in Pids : Settled(q)' =>
          \/ Settled(q) /\ proc'[q].group = proc[q].group
          \/ IsLeader(proc'[q].group, proc[q].job)
    BY <2>6, <2>7, <2>8
  <2> QED
    BY <2>1, <2>3, <2>5, <2>9, GroupFrame
<1> QED
  BY <1>2, <1>3, <1>4

\* The handler, which waits for processes, does not run between two forks.
LEMMA HandlerGroups == ASSUME IInv, GInv, HandlerStep PROVE GInv'
<1>1. Typing /\ Masked
  BY DEF IInv
<1>2. ASSUME Deliver \/ HandlerReturns PROVE GInv'
  <2>1. pc' = pc /\ UNCHANGED <<listed, launched, pipeline, proc>>
    BY <1>2 DEF Deliver, HandlerReturns, shellVars, system
  <2> QED
    BY <2>1, GroupFrame DEF Settled, Unrecorded, Unused, Children, InState
<1>3. ASSUME NEW p \in Pids, Reap(p) PROVE GInv'
  <2>1. /\ Waited(p) /\ handling /\ listed' = listed /\ launched' = launched
        /\ pc' \in {pc, "crashed"}
    BY <1>3 DEF Reap, ReapChild
  <2>2. pc \notin {"fork", "record"} /\ pc' \notin {"fork", "record"}
    BY <1>1, <2>1 DEF Masked
  <2>3. /\ \A q \in Pids : proc'[q].job = proc[q].job /\ (Unused(q)' <=> Unused(q))
        /\ \A q \in Pids : Settled(q)' => Settled(q) /\ proc'[q].group = proc[q].group
    BY <1>1, <2>1, <2>2, WaitedGroups
  <2> QED
    BY <2>1, <2>2, <2>3, GroupFrame
<1> QED
  BY <1>2, <1>3 DEF HandlerStep

\* The steps of main and execute that neither fork nor record.
LEMMA QuietGroups ==
  ASSUME IInv, GInv,
         \/ ReadLine \/ EndOfInput
         \/ Execute \/ CannotFork \/ LeaveInBackground \/ StartWait \/ WaitReturns
         \/ TestStopped \/ GiveBackTerminal
  PROVE  GInv'
<1>1. /\ proc' = proc /\ listed' = listed /\ pc # "record" /\ pc' # "record"
      /\ pc' = "fork" => launched' = 0
      /\ launched' \in {0, launched}
  BY DEF ReadLine, EndOfInput, Execute, CannotFork, LeaveInBackground, StartWait,
         WaitReturns, TestStopped, GiveBackTerminal, shellVars, system, At, Goto
<1>2. \A p \in Pids : ~Unrecorded(p) /\ ~Unrecorded(p)'
  BY <1>1 DEF Unrecorded
<1>3. Numbered'
  BY <1>1, <1>2 DEF GInv, Numbered
<1>4. Led' /\ Grouped'
  BY <1>1, <1>2
  DEF GInv, Led, Grouped, Settled, IsLeader, Members, Children, InState, Unused
<1>5. LeaderStays'
  BY <1>1, <1>2 DEF LeaderStays
<1> QED
  BY <1>3, <1>4, <1>5 DEF GInv

\* A fork adds the process with the largest number, whose group is not set.
LEMMA ForkGroups == ASSUME IInv, GInv, Fork PROVE GInv'
<1> DEFINE job == IF launched = 0 THEN listed ELSE Current
<1>1. /\ pc = "fork" /\ pc' = "record" /\ Forked(job)
      /\ UNCHANGED <<listed, mapPipeline, launched, pipeline>>
  BY DEF Fork, At, Goto, shellVars
<1>2. job \in {Helper} \cup Nat
  BY DEF IInv, Typing, Current, Helper
<1> HIDE DEF job
<1>3. PICK p \in Pids :
        /\ proc'[p].job = job /\ proc'[p].state = "starting" /\ Unused(p)
        /\ \A q \in Pids : p < q => Unused(q)'
        /\ \A q \in Pids \ {p} : proc'[q] = proc[q]
        /\ \A l \in Pids : \A j : IsLeader(l, j) => IsLeader(l, j)'
        /\ \A q \in Pids : ~Unused(q) => q < p
        /\ Led'
  BY <1>1, <1>2, ForkedGroups
<1>4. Unrecorded(p)' /\ ~Unused(p)'
  BY <1>1, <1>3 DEF Unrecorded, Unused
<1>5. \A q \in Pids \ {p} : ~Unrecorded(q) /\ ~Unrecorded(q)'
  BY <1>1, <1>3, <1>4 DEF Unrecorded, Unused
<1>6. Children' = Children \cup {p} /\ p \notin Children
  BY <1>3 DEF Children, InState, Unused
<1>7. Numbered'
  <2>1. launched' \in Nat /\ listed \in Nat
    BY <1>1 DEF GInv, Numbered, IInv, Typing
  <2>2. \A q \in Pids \ {p} : proc'[q].job < listed'
    BY <1>1, <1>3, <1>5 DEF GInv, Numbered
  <2>3. \/ proc'[p].job < listed'
        \/ launched' = 0 /\ proc'[p].job = listed'
    BY <1>1, <1>3, <2>1 DEF job, Current
  <2> QED
    BY <1>4, <2>1, <2>2, <2>3 DEF Numbered
<1>8. Grouped'
  <2> SUFFICES ASSUME NEW q \in Pids, Settled(q)'
               PROVE  IsLeader(proc[q].group, proc[q].job)'
    BY DEF Grouped
  <2>1. q # p
    BY <1>3, <1>4 DEF Settled
  <2>2. Settled(q) /\ proc'[q] = proc[q]
    BY <1>3, <1>5, <1>6, <2>1 DEF Settled
  <2>3. IsLeader(proc[q].group, proc[q].job) /\ proc[q].group \in Pids
    BY <2>2 DEF GInv, Grouped, IsLeader, Members
  <2> QED
    BY <1>3, <2>2, <2>3
<1>9. LeaderStays'
  <2>1. ASSUME launched # 0
        PROVE  (/\ Current # Helper /\ IsLeader(pipeline.pgid, Current)
                /\ ~Unrecorded(pipeline.pgid) /\ pipeline.pgid \in Children)'
    <3>1. /\ Current # Helper /\ IsLeader(pipeline.pgid, Current)
          /\ pipeline.pgid \in Children /\ pipeline.pgid \in Pids
      BY <1>1, <2>1 DEF GInv, LeaderStays, Children, InState
    <3>2. Current' = Current /\ pipeline' = pipeline
      BY <1>1 DEF Current
    <3>3. (IsLeader(pipeline.pgid, Current))'
      BY <1>3, <3>1, <3>2
    <3>4. pipeline.pgid # p
      BY <1>6, <3>1
    <3> QED
      BY <1>5, <1>6, <3>1, <3>2, <3>3, <3>4
  <2>2. \A q \in Pids : Unrecorded(q)' => q \in Children'
    BY <1>5, <1>6
  <2> QED
    BY <1>1, <2>1, <2>2 DEF LeaderStays
<1> QED
  BY <1>3, <1>7, <1>8, <1>9 DEF GInv

\* The pipeline has its fields.
LEMMA PipelineFields ==
  ASSUME IInv, pipeline \in Pipeline, [Next]_vars PROVE pipeline' \in Pipeline
<1>1. CASE UNCHANGED vars
  BY <1>1 DEF vars, shellVars
<1>2. CASE ReadLine
  <2>1. PICK n \in 1..MaxCommands, bg \in BOOLEAN : pipeline' = NewPipeline(n, bg)
    BY <1>2 DEF ReadLine
  <2> QED
    BY <2>1, JobsAssumption DEF NewPipeline, Pipeline, Statuses
<1>3. ASSUME NEW p \in Pids, Reap(p) PROVE pipeline' \in Pipeline
  <2>1. pipeline' = pipeline \/ pipeline' = Counted(proc[p].event)
    BY <1>3 DEF Reap, ReapChild
  <2> DEFINE e == proc[p].event
             n == IF e = "continued" THEN pipeline.nactive + 1 ELSE pipeline.nactive - 1
             s == CASE e = "ended" /\ n = 0 -> "DONE"
                    [] e = "stopped" /\ n = 0 -> "STOPPED"
                    [] e = "continued" /\ n = pipeline.size -> "RUNNING"
                    [] OTHER -> pipeline.status
  <2>2. n \in Int
    BY DEF Pipeline
  <2>3. s \in Statuses
    <3> HIDE DEF n
    <3> QED
      BY DEF Pipeline, Statuses
  <2>4. Counted(e) = [pipeline EXCEPT !.nactive = n, !.status = s]
    BY DEF Counted
  <2> HIDE DEF n, s
  <2>5. [pipeline EXCEPT !.nactive = n, !.status = s] \in Pipeline
    BY <2>2, <2>3 DEF Pipeline
  <2> QED
    BY <2>1, <2>4, <2>5
<1>4. CASE Record
  <2>1. PICK c \in Pids : Unrecorded(c)
    BY <1>4 DEF Record, At, IInv, RecordNext
  <2>2. Newest = c
    BY <1>4, <2>1 DEF Record, At, Newest, Unrecorded, Unused, Pids
  <2>3. pipeline' = pipeline \/ pipeline' = [pipeline EXCEPT !.pgid = c]
    BY <1>4, <2>2 DEF Record
  <2> QED
    BY <2>3 DEF Pipeline
<1>5. CASE Next /\ ~ReadLine /\ ~Record /\ \A p \in Pids : ~Reap(p)
  <2>1. pipeline' = pipeline
    BY <1>5
    DEF Next, ShellStep, HandlerStep, User, FailToStart, Start, End, CtrlZ, Deliver,
        HandlerReturns, EndOfInput, Execute, Fork, CannotFork, LeaveInBackground,
        StartWait, WaitReturns, TestStopped, ContinueJob, GiveBackTerminal, ForkHelper,
        WaitHelper, KillOpeners, shellVars
  <2> QED
    BY <2>1
<1> QED
  BY <1>1, <1>2, <1>3, <1>4, <1>5

\* The record puts the process into the group of the first one, which is
\* still there, or makes it the first one.
LEMMA RecordGroups == ASSUME IInv, pipeline \in Pipeline, GInv, Record PROVE GInv'
<1>1. pc = "record" /\ pc' = "fork"
  BY DEF Record, At, Goto
<1>2. Typing /\ RecordNext /\ Numbered /\ Led /\ Grouped /\ LeaderStays
  BY DEF IInv, GInv
<1>3. PICK c \in Pids : Unrecorded(c) /\ proc[c].job = IF launched = 0 THEN listed ELSE Current
  BY <1>1, <1>2 DEF RecordNext
<1>4. \A p \in Pids : Unrecorded(p) => p = c
  BY <1>3 DEF Unrecorded, Pids
<1>5. Newest = c
  BY <1>1, <1>3, <1>4 DEF Newest, Unrecorded, Unused
<1> DEFINE g == GroupAfter(c, pipeline'.pgid)
<1>6. /\ pipeline' = IF launched = 0 THEN [pipeline EXCEPT !.pgid = c] ELSE pipeline
      /\ proc' = [proc EXCEPT ![c].group = g]
      /\ listed' = IF launched = 0 THEN listed + 1 ELSE listed
      /\ launched' = launched + 1
  BY <1>5 DEF Record
<1> HIDE DEF g
<1>7. /\ \A p \in Pids : proc'[p].job = proc[p].job /\ proc'[p].state = proc[p].state
      /\ proc'[c].group = g
      /\ \A p \in Pids \ {c} : proc'[p] = proc[p]
  BY <1>2, <1>6 DEF Typing, Process
<1>8. Children' = Children /\ c \in Children /\ \A p \in Pids : Unused(p)' <=> Unused(p)
  BY <1>2, <1>3, <1>7 DEF Children, InState, Unused, LeaderStays
<1>9. \A p \in Pids : ~Unrecorded(p)'
  BY <1>1 DEF Unrecorded
<1>10. \A l, j : IsLeader(l, j)' <=> IsLeader(l, j)
  BY <1>7, <1>8, SameLeaders
<1>11. Numbered'
  <2>1. launched' \in Nat /\ listed \in Nat
    BY <1>2, <1>6 DEF Numbered, Typing
  <2>2. ASSUME NEW p \in Pids PROVE proc'[p].job < listed'
    <3>1. proc[p].job \in Int
      BY <1>2 DEF Typing, Process, Helper
    <3> QED
      BY <1>2, <1>4, <1>6, <1>7, <2>1, <3>1 DEF Numbered
  <2> QED
    BY <2>1, <2>2 DEF Numbered
<1>12. Led'
  BY <1>2, <1>7, <1>8, <1>10 DEF Led
<1>13. /\ IsLeader(g, proc[c].job) /\ g = pipeline'.pgid
       /\ Current' = proc[c].job /\ Current' # Helper /\ g \in Children
  <2>1. CASE launched = 0
    <3>1. pipeline'.pgid = c => g = c
      BY DEF g, GroupAfter
    <3>2. PICK l \in Pids : IsLeader(l, listed)
      BY <1>2, <1>3, <2>1 DEF Led, Unrecorded
    <3>3. l = c
      BY <1>2, <1>4, <3>2 DEF Numbered, IsLeader, Members, Typing
    <3>4. Current' = listed /\ Current' # Helper
      BY <1>2, <1>6, <2>1 DEF Current, Typing, Helper
    <3>5. IsLeader(c, proc[c].job) /\ proc[c].job = listed
      BY <1>3, <2>1, <3>2, <3>3
    <3> QED
      BY <1>6, <1>8, <2>1, <3>1, <3>4, <3>5 DEF Pipeline
  <2>2. CASE launched # 0
    <3>1. /\ Current # Helper /\ IsLeader(pipeline.pgid, Current)
          /\ ~Unrecorded(pipeline.pgid) /\ pipeline.pgid \in Children
      BY <1>1, <1>2, <2>2 DEF LeaderStays
    <3>2. Settled(pipeline.pgid) /\ proc[pipeline.pgid].job = Current
      BY <3>1 DEF Settled, IsLeader, Members
    <3>3. IsLeader(proc[pipeline.pgid].group, Current) /\ pipeline.pgid \in Pids
      BY <1>2, <3>1, <3>2 DEF Grouped, Children, InState
    <3>4. proc[pipeline.pgid].group = pipeline.pgid
      BY <3>1, <3>3, OneLeader
    <3>5. pipeline' = pipeline /\ g = pipeline.pgid
      BY <1>6, <2>2, <3>1, <3>4 DEF g, GroupAfter
    <3>6. Current' = Current /\ proc[c].job = Current
      BY <1>3, <1>6, <2>2 DEF Current
    <3> QED
      BY <3>1, <3>5, <3>6
  <2> QED
    BY <2>1, <2>2
<1>14. Grouped'
  <2> SUFFICES ASSUME NEW p \in Pids, Settled(p)'
               PROVE  IsLeader(proc'[p].group, proc[p].job)
    BY <1>7, <1>10 DEF Grouped
  <2>1. CASE p = c
    BY <1>7, <1>13, <2>1
  <2>2. CASE p # c
    <3>1. Settled(p)
      BY <1>4, <1>7, <1>8, <2>2 DEF Settled
    <3> QED
      BY <1>2, <1>7, <2>2, <3>1 DEF Grouped
  <2> QED
    BY <2>1, <2>2
<1>15. LeaderStays'
  <2>1. (IsLeader(pipeline.pgid, Current))'
    BY <1>10, <1>13
  <2> QED
    BY <1>1, <1>8, <1>9, <1>13, <2>1 DEF LeaderStays, Children, InState
<1> QED
  BY <1>11, <1>12, <1>14, <1>15 DEF GInv

\* SIGCONT to the job, and the steps of exec_delep.
LEMMA OtherGroups ==
  ASSUME IInv, GInv, ContinueJob \/ ForkHelper \/ WaitHelper \/ KillOpeners
  PROVE  GInv'
<1>1. Typing
  BY DEF IInv
<1>2. /\ pc \notin {"fork", "record"} /\ pc' \notin {"fork", "record"}
      /\ listed' = listed /\ launched' = launched /\ mapPipeline' = mapPipeline
  BY DEF ContinueJob, ForkHelper, WaitHelper, KillOpeners, At, Goto, shellVars
<1>3. CASE ForkHelper
  <2>1. Forked(Helper)
    BY <1>3 DEF ForkHelper
  <2>2. PICK p \in Pids :
          /\ proc'[p].job = Helper
          /\ \A q \in Pids \ {p} : proc'[q] = proc[q]
          /\ \A l \in Pids : \A j : IsLeader(l, j) => IsLeader(l, j)'
          /\ Led'
    BY <1>2, <2>1, ForkedGroups
  <2>3. \A q \in Pids : ~Unrecorded(q) /\ ~Unrecorded(q)'
    BY <1>2 DEF Unrecorded
  <2>4. Numbered'
    <3>1. \A q \in Pids : proc[q].job < listed
      BY <2>3 DEF GInv, Numbered
    <3>2. launched' \in Nat /\ Helper < listed
      BY <1>1, <1>2 DEF GInv, Numbered, Typing, Helper
    <3> QED
      BY <1>2, <2>2, <3>1, <3>2 DEF Numbered
  <2>5. Grouped'
    <3> SUFFICES ASSUME NEW q \in Pids, Settled(q)'
                 PROVE  IsLeader(proc[q].group, proc[q].job)'
      BY DEF Grouped
    <3>1. proc'[q] = proc[q] /\ Settled(q)
      BY <2>2, <2>3 DEF Settled, Children, InState
    <3>2. IsLeader(proc[q].group, proc[q].job) /\ proc[q].group \in Pids
      BY <3>1 DEF GInv, Grouped, IsLeader, Members
    <3> QED
      BY <2>2, <3>1, <3>2
  <2>6. LeaderStays'
    BY <1>2, <2>3 DEF LeaderStays
  <2> QED
    BY <2>2, <2>4, <2>5, <2>6 DEF GInv
<1>4. CASE ContinueJob \/ KillOpeners
  <2>1. \E P \in SUBSET Alive, s \in {"running", "zombie"}, e \in {"continued", "ended"} :
          /\ s # "zombie" => P \subseteq InState({"running", "stopped"})
          /\ Changed(P, s, e)
    <3>1. CASE ContinueJob
      <4> DEFINE P == {p \in InState({"stopped"}) : proc[p].group = pipeline.pgid}
      <4>1. /\ P \in SUBSET Alive /\ P \subseteq InState({"running", "stopped"})
            /\ Changed(P, "running", "continued")
        BY <3>1 DEF ContinueJob, InState, Alive
      <4> HIDE DEF P
      <4> QED
        BY <4>1
    <3>2. CASE KillOpeners
      BY <3>2 DEF KillOpeners
    <3> QED
      BY <1>4, <3>1, <3>2
  <2>2. /\ \A q \in Pids : proc'[q].job = proc[q].job /\ (Unused(q)' <=> Unused(q))
        /\ \A q \in Pids : Settled(q)' => Settled(q) /\ proc'[q].group = proc[q].group
    BY <1>1, <1>2, <2>1, ChangedGroups
  <2> QED
    BY <1>2, <2>2, GroupFrame
<1>5. CASE WaitHelper
  <2>1. UNCHANGED proc \/ \E p \in Pids : Waited(p)
    BY <1>5 DEF WaitHelper, InState
  <2>2. /\ \A q \in Pids : proc'[q].job = proc[q].job /\ (Unused(q)' <=> Unused(q))
        /\ \A q \in Pids : Settled(q)' => Settled(q) /\ proc'[q].group = proc[q].group
    BY <1>1, <1>2, <2>1, WaitedGroups DEF Unused, Settled, Unrecorded, Children, InState
  <2> QED
    BY <1>2, <2>2, GroupFrame
<1> QED
  BY <1>3, <1>4, <1>5

\* Every step keeps the invariant.
LEMMA NextGroups == IInv /\ pipeline \in Pipeline /\ GInv /\ [Next]_vars => GInv'
<1> SUFFICES ASSUME IInv, pipeline \in Pipeline, GInv, [Next]_vars PROVE GInv'
  OBVIOUS
<1>1. CASE UNCHANGED vars
  <2>1. pc' = pc /\ UNCHANGED <<listed, launched, proc, pipeline>>
    BY <1>1 DEF vars, shellVars, system
  <2> QED
    BY <2>1, GroupFrame DEF Settled, Unrecorded, Unused, Children, InState
<1>2. CASE Next
  BY <1>2, ProcessGroups, HandlerGroups, QuietGroups, ForkGroups, RecordGroups, OtherGroups
  DEF Next, ShellStep, User
<1> QED
  BY <1>1, <1>2

\* A process that runs or is stopped was put into the group of its leader.
LEMMA GroupsImply == GInv => GroupWhole
<1> SUFFICES ASSUME GInv, NEW p \in InState({"running", "stopped"}), proc[p].job # Helper
             PROVE  proc[p].group = Leader(proc[p].job)
  BY DEF GroupWhole
<1>1. Settled(p)
  BY DEF Settled, Children, InState
<1>2. IsLeader(proc[p].group, proc[p].job)
  BY <1>1 DEF GInv, Grouped, InState
<1> QED
  BY <1>2, LeaderOf

\* In every behaviour the commands of a pipeline that run or are stopped are
\* in one process group, the one that Ctrl-C, Ctrl-Z and kill(-fg_pgid) reach.
THEOREM GroupWholeCorrect == Spec => []GroupWhole
<1> DEFINE Inv == IInv /\ pipeline \in Pipeline /\ GInv
<1>1. Init => Inv
  <2>1. Init => pipeline \in Pipeline
    BY JobsAssumption DEF Init, NewPipeline, Pipeline, Statuses
  <2> QED
    BY <2>1, InitInv, InitGroups
<1>2. Inv /\ [Next]_vars => Inv'
  BY NextInv, NextGroups, PipelineFields
<1>3. Inv => GroupWhole
  BY GroupsImply
<1> HIDE DEF Inv
<1> QED
  BY <1>1, <1>2, <1>3, PTL DEF Spec

-----------------------------------------------------------------------------
(* The wait for a foreground job: the invariant *)

\* The job of the line that is executed.
Job == IF launched = 0 THEN listed ELSE Current
Executing == pc \in {"fork", "record", "waiting", "waited"}

\* A process is counted out of its pipeline once the handler was told that it ended
\* or stopped.
Reported(p) ==
  proc[p].state = "gone" \/ (proc[p].state = "stopped" /\ proc[p].event = "none")
Out == {p \in Members(Job) : Reported(p)}

\* The event of a process tells the state it is in.
EventsFit ==
  \A p \in Pids :
    /\ proc[p].state \in {"unused", "starting", "gone"} => proc[p].event = "none"
    /\ proc[p].state = "running" => proc[p].event \in {"none", "continued"}
    /\ proc[p].state = "stopped" => proc[p].event \in {"none", "stopped"}
    /\ proc[p].state = "zombie" => proc[p].event = "ended"

\* The processes of the job are those forked for the line, one for each command.
Counting ==
  /\ launched <= MaxCommands
  /\ Executing =>
       /\ launched <= pipeline.size /\ (launched # 0 => listed > 0)
       /\ Cardinality(Members(Job)) = IF pc = "record" THEN launched + 1 ELSE launched
  /\ pc = "record" => launched < pipeline.size
  /\ pc \in {"waiting", "waited"} => launched = pipeline.size

\* If no older process was left, all children belong to the job, and nactive counts
\* those of which no end or stop was reported.
Alone ==
  sole =>
    /\ pc = "execute" => Children = {} /\ pipeline.nactive = pipeline.size
    /\ Executing =>
         /\ \A p \in Children : p \in Members(Job) /\ proc[p].event # "continued"
         /\ pipeline.nactive = pipeline.size - Cardinality(Out)
    /\ pc = "waiting" => fgpid = pipeline.pgid \/ pipeline.nactive = 0
    /\ pc = "waited" => pipeline.nactive = 0

\* Every pipeline of the list has a process of its own.
JobsListed == \A j \in 0..(listed - 1) : Members(j) # {}

WInv == EventsFit /\ Counting /\ Alone /\ JobsListed

-----------------------------------------------------------------------------
LEMMA PidsFinite ==
  /\ IsFiniteSet(Pids) /\ Cardinality(Pids) = MaxProcs
  /\ \A S \in SUBSET Pids : IsFiniteSet(S) /\ Cardinality(S) \in Nat
<1>1. IsFiniteSet(Pids) /\ Cardinality(Pids) = MaxProcs
  <2>1. 1 \in Int /\ MaxProcs \in Int /\ 1 <= MaxProcs
    BY JobsAssumption
  <2> QED
    BY <2>1, FS_Interval DEF Pids
<1>2. ASSUME NEW S \in SUBSET Pids PROVE IsFiniteSet(S) /\ Cardinality(S) \in Nat
  <2>1. IsFiniteSet(S)
    BY <1>1, FS_Subset
  <2> QED
    BY <2>1, FS_CardinalityType
<1> QED
  BY <1>1, <1>2

LEMMA SameMembers ==
  ASSUME \A p \in Pids : proc'[p].job = proc[p].job /\ (Unused(p)' <=> Unused(p))
  PROVE  \A j : Members(j)' = Members(j)
BY DEF Members, Unused

\* The members of a job, when all of them are counted out.
LEMMA AllOut ==
  ASSUME pipeline \in Pipeline, Counting, Alone, sole, pc \in {"waiting", "waited"},
         pipeline.nactive = 0
  PROVE  Out = Members(Job)
<1>1. /\ Cardinality(Members(Job)) = pipeline.size
      /\ pipeline.nactive = pipeline.size - Cardinality(Out) /\ pipeline.size \in Nat
  BY DEF Counting, Alone, Executing, Pipeline
<1>2. Members(Job) \in SUBSET Pids /\ Out \in SUBSET Pids /\ Out \subseteq Members(Job)
  BY DEF Members, Out
<1>3. IsFiniteSet(Members(Job)) /\ Cardinality(Out) \in Nat
  BY <1>2, PidsFinite
<1>4. Cardinality(Out) = Cardinality(Members(Job))
  BY <1>1, <1>3
<1> QED
  BY <1>2, <1>3, <1>4, FS_Subset

-----------------------------------------------------------------------------
(* Events *)

LEMMA ChangedEvents ==
  ASSUME NEW P \in SUBSET Pids, NEW state, NEW event, Changed(P, state, event), Typing,
         EventsFit,
         \/ state = "running" /\ event = "continued"
         \/ state = "stopped" /\ event = "stopped"
         \/ state = "zombie" /\ event = "ended"
  PROVE  EventsFit'
<1> SUFFICES ASSUME NEW p \in Pids
             PROVE  \/ proc'[p] = proc[p]
                    \/ proc'[p].state = state /\ proc'[p].event = event
  BY DEF EventsFit
<1>1. proc[p] \in Process
  BY DEF Typing
<1>2. CASE p \in P
  BY <1>1, <1>2 DEF Changed, Process
<1>3. CASE p \notin P
  BY <1>3 DEF Changed
<1> QED
  BY <1>2, <1>3

\* What waiting for a child changes.
LEMMA WaitedFields ==
  ASSUME NEW p \in Pids, Waited(p), Typing
  PROVE  /\ \A q \in Pids \ {p} : proc'[q] = proc[q]
         /\ proc'[p].event = "none" /\ proc'[p].job = proc[p].job
         /\ proc'[p].state = IF proc[p].state = "zombie" THEN "gone" ELSE proc[p].state
<1> DEFINE s == IF proc[p].state = "zombie" THEN "gone" ELSE proc[p].state
<1>1. proc' = [proc EXCEPT ![p] = [proc[p] EXCEPT !.event = "none", !.state = s]]
  BY DEF Waited, Typing, Process
<1>2. proc[p] \in Process /\ proc \in [Pids -> Process]
  BY DEF Typing
<1> HIDE DEF s
<1>3. /\ [proc[p] EXCEPT !.event = "none", !.state = s].event = "none"
      /\ [proc[p] EXCEPT !.event = "none", !.state = s].job = proc[p].job
      /\ [proc[p] EXCEPT !.event = "none", !.state = s].state = s
  BY <1>2 DEF Process
<1> QED
  BY <1>1, <1>2, <1>3 DEF s

\* What the fork of a child changes.
LEMMA ForkedFields ==
  ASSUME NEW job, Forked(job), Typing
  PROVE  \E p \in Pids :
           /\ Unused(p) /\ \A q \in Pids \ {p} : proc'[q] = proc[q]
           /\ proc'[p] = [state |-> "starting", event |-> "none", group |-> Shell, job |-> job]
BY DEF Forked, InState, Unused, Typing

LEMMA EventsKeep ==
  ASSUME IInv, EventsFit, [Next]_vars PROVE EventsFit'
<1>1. Typing
  BY DEF IInv
<1>2. CASE UNCHANGED vars
  BY <1>2 DEF vars, system, EventsFit
<1>3. ASSUME NEW p \in Pids, FailToStart(p) \/ End(p) PROVE EventsFit'
  <2>1. Changed({p}, "zombie", "ended")
    BY <1>3 DEF FailToStart, End
  <2> QED
    BY <1>1, <2>1, ChangedEvents
<1>4. CASE CtrlZ
  <2>1. PICK P \in SUBSET {p \in InState({"running"}) : proc[p].group = terminal} :
          Changed(P, "stopped", "stopped")
    BY <1>4 DEF CtrlZ
  <2> QED
    BY <1>1, <2>1, ChangedEvents DEF InState
<1>5. CASE ContinueJob
  <2> DEFINE P == {p \in InState({"stopped"}) : proc[p].group = pipeline.pgid}
  <2>1. P \in SUBSET Pids /\ Changed(P, "running", "continued")
    BY <1>5 DEF ContinueJob, InState
  <2> HIDE DEF P
  <2> QED
    BY <1>1, <2>1, ChangedEvents
<1>6. CASE KillOpeners
  <2>1. PICK P \in SUBSET {p \in Alive : proc[p].job # Helper} : Changed(P, "zombie", "ended")
    BY <1>6 DEF KillOpeners
  <2> QED
    BY <1>1, <2>1, ChangedEvents DEF Alive, InState
<1>7. ASSUME NEW p \in Pids, Waited(p) PROVE EventsFit'
  BY <1>1, <1>7, WaitedFields DEF EventsFit
<1>8. ASSUME NEW job, Forked(job) PROVE EventsFit'
  <2>1. PICK p \in Pids :
          /\ \A q \in Pids \ {p} : proc'[q] = proc[q]
          /\ proc'[p] = [state |-> "starting", event |-> "none", group |-> Shell, job |-> job]
    BY <1>1, <1>8, ForkedFields
  <2>2. proc'[p].state = "starting" /\ proc'[p].event = "none"
    BY <2>1
  <2> QED
    BY <2>1, <2>2 DEF EventsFit
<1>9. ASSUME NEW p \in Pids, Start(p) PROVE EventsFit'
  <2>1. PICK g : proc' = [proc EXCEPT ![p].state = "running", ![p].group = g]
    BY <1>9 DEF Start
  <2>2. /\ proc[p].state = "starting" /\ \A q \in Pids \ {p} : proc'[q] = proc[q]
        /\ proc'[p].state = "running" /\ proc'[p].event = proc[p].event
    BY <1>1, <1>9, <2>1 DEF Start, Typing, Process
  <2> QED
    BY <2>2 DEF EventsFit
<1>10. CASE Record
  <2>1. PICK c, g : proc' = [proc EXCEPT ![c].group = g]
    BY <1>10 DEF Record
  <2>2. \A q \in Pids : proc'[q].state = proc[q].state /\ proc'[q].event = proc[q].event
    BY <1>1, <2>1 DEF Typing, Process
  <2> QED
    BY <2>2 DEF EventsFit
<1>11. CASE UNCHANGED proc
  BY <1>11 DEF EventsFit
<1>12. \/ UNCHANGED proc \/ UNCHANGED vars \/ CtrlZ \/ ContinueJob \/ KillOpeners \/ Record
       \/ \E p \in Pids : FailToStart(p) \/ End(p) \/ Start(p) \/ Waited(p)
       \/ \E job : Forked(job)
  BY DEF Next, ShellStep, HandlerStep, User, Deliver, Reap, ReapChild, HandlerReturns,
         ReadLine, EndOfInput, Execute, Fork, CannotFork, LeaveInBackground, StartWait,
         WaitReturns, TestStopped, GiveBackTerminal, ForkHelper, WaitHelper, InState, system
<1> QED
  BY <1>2, <1>3, <1>4, <1>5, <1>6, <1>7, <1>8, <1>9, <1>10, <1>11, <1>12

-----------------------------------------------------------------------------
(* The steps *)

\* Steps that leave the execution of the line where it is, and change processes in a
\* way that the count does not see.
LEMMA WaitFrame ==
  ASSUME WInv, EventsFit', UNCHANGED <<pc, listed, launched, pipeline, fgpid, sole>>,
         \A p \in Pids : proc'[p].job = proc[p].job /\ (Unused(p)' <=> Unused(p)),
         \A p \in Pids : Reported(p)' <=> Reported(p),
         \A p \in Pids : p \in Children' =>
            p \in Children /\ (proc'[p].event = "continued" => proc[p].event = "continued")
  PROVE  WInv'
<1>1. \A j : Members(j)' = Members(j)
  BY SameMembers
<1>2. Job' = Job /\ (Executing' <=> Executing)
  BY DEF Job, Current, Executing
<1>3. Members(Job)' = Members(Job)
  <2> DEFINE j == Job
  <2>1. j' = j
    BY <1>2
  <2> QED
    BY <1>1, <2>1 DEF Members
<1>4. Out' = Out
  <2>1. Out' = {p \in Members(Job)' : Reported(p)'}
    BY DEF Out
  <2>2. Members(Job) \subseteq Pids
    BY DEF Members
  <2> QED
    BY <1>3, <2>1, <2>2 DEF Out
<1>5. Children' \subseteq Children /\ Children \subseteq Pids
  BY DEF Children, InState
<1>6. Counting'
  BY <1>2, <1>3 DEF WInv, Counting
<1>7. Alone'
  BY <1>2, <1>3, <1>4, <1>5 DEF WInv, Alone
<1>8. JobsListed'
  BY <1>1 DEF WInv, JobsListed
<1> QED
  BY <1>6, <1>7, <1>8 DEF WInv

\* Steps to a label where no line is executed.
LEMMA LeaveFrame ==
  ASSUME WInv, EventsFit', listed' = listed, launched' = launched,
         pc' \notin {"execute", "fork", "record", "waiting", "waited"},
         \A p \in Pids : ~Unused(p) => proc'[p].job = proc[p].job /\ ~Unused(p)'
  PROVE  WInv'
<1>1. JobsListed'
  BY DEF WInv, JobsListed, Members, Unused
<1> QED
  BY <1>1 DEF WInv, Counting, Alone, Executing

\* The processes and Ctrl-Z.
LEMMA ProcessWaits ==
  ASSUME IInv, WInv, EventsFit',
         (\E p \in Pids : FailToStart(p) \/ Start(p) \/ End(p)) \/ CtrlZ
  PROVE  WInv'
<1>1. Typing
  BY DEF IInv
<1>2. UNCHANGED <<pc, listed, launched, pipeline, fgpid, sole>>
  BY DEF FailToStart, Start, End, CtrlZ, shellVars
<1>3. ASSUME NEW P \in SUBSET Alive, NEW state \in {"stopped", "zombie"},
             NEW event \in {"stopped", "ended"}, Changed(P, state, event),
             \A p \in P : proc[p].state \in {"starting", "running"}
      PROVE  WInv'
  <2>1. ASSUME NEW p \in Pids
        PROVE  \/ p \notin P /\ proc'[p] = proc[p]
               \/ /\ p \in P /\ proc'[p].job = proc[p].job
                  /\ proc'[p].state = state /\ proc'[p].event = event
    <3>1. proc[p] \in Process
      BY <1>1 DEF Typing
    <3>2. CASE p \in P
      BY <1>3, <3>1, <3>2 DEF Changed, Process
    <3>3. CASE p \notin P
      BY <1>3, <3>3 DEF Changed
    <3> QED
      BY <3>2, <3>3
  <2>2. ASSUME NEW p \in Pids
        PROVE  /\ proc'[p].job = proc[p].job /\ (Unused(p)' <=> Unused(p))
               /\ Reported(p)' <=> Reported(p)
               /\ p \in Children' => /\ p \in Children
                                     /\ (proc'[p].event = "continued"
                                           => proc[p].event = "continued")
    BY <1>3, <2>1 DEF Unused, Reported, Children, InState
  <2> QED
    BY <1>2, <2>2, WaitFrame
<1>4. ASSUME NEW p \in Pids, FailToStart(p) \/ End(p) PROVE WInv'
  <2>1. /\ {p} \in SUBSET Alive /\ Changed({p}, "zombie", "ended")
        /\ proc[p].state \in {"starting", "running"}
    BY <1>4 DEF FailToStart, End, Alive, InState
  <2> QED
    BY <1>3, <2>1
<1>5. CASE CtrlZ
  <2>1. PICK P \in SUBSET {p \in InState({"running"}) : proc[p].group = terminal} :
          Changed(P, "stopped", "stopped")
    BY <1>5 DEF CtrlZ
  <2>2. P \in SUBSET Alive /\ \A p \in P : proc[p].state \in {"starting", "running"}
    BY DEF Alive, InState
  <2> QED
    BY <1>3, <2>1, <2>2
<1>6. ASSUME NEW p \in Pids, Start(p) PROVE WInv'
  <2>1. PICK g : proc' = [proc EXCEPT ![p].state = "running", ![p].group = g]
    BY <1>6 DEF Start
  <2>2. /\ proc[p].state = "starting" /\ \A q \in Pids \ {p} : proc'[q] = proc[q]
        /\ proc'[p].state = "running" /\ proc'[p].event = proc[p].event
        /\ proc'[p].job = proc[p].job
    BY <1>1, <1>6, <2>1 DEF Start, Typing, Process
  <2>3. ASSUME NEW q \in Pids
        PROVE  /\ proc'[q].job = proc[q].job /\ (Unused(q)' <=> Unused(q))
               /\ Reported(q)' <=> Reported(q)
               /\ q \in Children' => /\ q \in Children
                                     /\ (proc'[q].event = "continued"
                                           => proc[q].event = "continued")
    BY <2>2 DEF Unused, Reported, Children, InState
  <2> QED
    BY <1>2, <2>3, WaitFrame
<1> QED
  BY <1>4, <1>5, <1>6

\* What the count of a change leaves alone.
LEMMA CountedFields ==
  ASSUME pipeline \in Pipeline, NEW e
  PROVE  /\ Counted(e).pgid = pipeline.pgid /\ Counted(e).size = pipeline.size
         /\ e # "continued" => Counted(e).nactive = pipeline.nactive - 1
<1> DEFINE k == IF e = "continued" THEN pipeline.nactive + 1 ELSE pipeline.nactive - 1
           s == CASE e = "ended" /\ k = 0 -> "DONE"
                  [] e = "stopped" /\ k = 0 -> "STOPPED"
                  [] e = "continued" /\ k = pipeline.size -> "RUNNING"
                  [] OTHER -> pipeline.status
<1>1. Counted(e) = [pipeline EXCEPT !.nactive = k, !.status = s]
  BY DEF Counted
<1> HIDE DEF s
<1> QED
  BY <1>1 DEF Pipeline

\* The handler takes a process of the job that it waits for out of the count.
LEMMA ReapWaits ==
  ASSUME IInv, GInv, pipeline \in Pipeline, WInv, EventsFit', NEW p \in Pids, Reap(p)
  PROVE  WInv'
<1> DEFINE e == proc[p].event
<1>1. /\ Waited(p) /\ handling /\ e # "none" /\ pc' \in {pc, "crashed"}
      /\ UNCHANGED <<listed, launched, sole>>
      /\ \/ pipeline' = pipeline /\ fgpid' = fgpid /\ pc' = "crashed"
         \/ /\ pipeline' = Counted(e) /\ pc' = pc
            /\ fgpid' = IF ForegroundEnded(e) THEN 0 ELSE fgpid
  BY DEF Reap, ReapChild
<1>2. Typing /\ pc \notin {"fork", "record"}
  BY <1>1 DEF IInv, Masked
<1>3. /\ \A q \in Pids \ {p} : proc'[q] = proc[q]
      /\ proc'[p].event = "none" /\ proc'[p].job = proc[p].job
      /\ proc'[p].state = IF proc[p].state = "zombie" THEN "gone" ELSE proc[p].state
  BY <1>1, <1>2, WaitedFields
<1>4. \A q \in Pids : proc'[q].job = proc[q].job /\ (Unused(q)' <=> Unused(q))
  BY <1>3 DEF Unused
<1>5. CASE pc' \notin {"execute", "waiting", "waited"}
  BY <1>1, <1>2, <1>4, <1>5, LeaveFrame
<1>6. CASE pc' \in {"execute", "waiting", "waited"}
  <2>1. /\ pc' = pc /\ pipeline' = Counted(e)
        /\ fgpid' = IF ForegroundEnded(e) THEN 0 ELSE fgpid
    BY <1>1, <1>6
  <2>2. pipeline'.size = pipeline.size /\ pipeline'.pgid = pipeline.pgid
    BY <2>1, CountedFields
  <2>3. \A j : Members(j)' = Members(j)
    BY <1>4, SameMembers
  <2>4. Job' = Job /\ (Executing' <=> Executing)
    BY <1>1, <2>1 DEF Job, Current, Executing
  <2>5. Members(Job)' = Members(Job)
    <3> DEFINE j == Job
    <3>1. j' = j
      BY <2>4
    <3> QED
      BY <2>3, <3>1 DEF Members
  <2>6. Counting'
    BY <1>1, <2>1, <2>2, <2>4, <2>5 DEF WInv, Counting
  <2>7. JobsListed'
    BY <1>1, <2>3 DEF WInv, JobsListed
  <2>8. ASSUME sole PROVE Alone'
    <3>1. p \in Children
      BY <1>1 DEF WInv, EventsFit, Children, InState, Typing, Process, IInv
    <3>2. pc \in {"waiting", "waited"} /\ Executing
      BY <1>6, <2>1, <2>8, <3>1 DEF WInv, Alone, Executing
    <3>3. /\ p \in Members(Job) /\ e \in {"stopped", "ended"} /\ ~Reported(p)
          /\ pipeline.nactive = pipeline.size - Cardinality(Out)
      BY <1>1, <1>2, <2>8, <3>1, <3>2
      DEF WInv, Alone, Typing, Process, Reported, Children, InState
    <3>4. pipeline'.nactive = pipeline.nactive - 1
      BY <2>1, <3>3, CountedFields
    <3>5. Out' = Out \cup {p} /\ p \notin Out
      <4>1. \A q \in Pids \ {p} : Reported(q)' <=> Reported(q)
        BY <1>3 DEF Reported
      <4>2. Reported(p)'
        <5>1. proc[p].state \in {"stopped", "zombie"}
          BY <3>1, <3>3 DEF WInv, EventsFit, Children, InState
        <5> QED
          BY <1>3, <5>1 DEF Reported
      <4>3. Out' = {q \in Members(Job)' : Reported(q)'}
        BY DEF Out
      <4>4. Members(Job) \subseteq Pids
        BY DEF Members
      <4> QED
        BY <2>5, <3>3, <4>1, <4>2, <4>3, <4>4 DEF Out
    <3>6. Cardinality(Out') = Cardinality(Out) + 1 /\ Cardinality(Out) \in Nat
      <4>1. Out \in SUBSET Pids
        BY DEF Out, Members
      <4>2. IsFiniteSet(Out) /\ Cardinality(Out) \in Nat
        BY <4>1, PidsFinite
      <4> QED
        BY <3>5, <4>2, FS_AddElement
    <3>7. pipeline'.nactive = pipeline'.size - Cardinality(Out')
      <4>1. pipeline.size \in Nat /\ pipeline.nactive \in Int
        BY DEF Pipeline
      <4> QED
        BY <2>2, <3>3, <3>4, <3>6, <4>1
    <3>8. pipeline.nactive # 0
      BY <2>8, <3>2, <3>3, <3>5, AllOut DEF WInv
    <3>9. pc = "waiting" /\ fgpid = pipeline.pgid
      BY <2>8, <3>2, <3>8 DEF WInv, Alone
    <3>10. fgpid' = pipeline'.pgid \/ pipeline'.nactive = 0
      BY <2>1, <2>2, <3>9 DEF ForegroundEnded
    <3>11. \A q \in Children' : q \in Members(Job)' /\ proc'[q].event # "continued"
      <4>1. \A q \in Children' : q \in Children /\ q \in Pids
        BY <1>3, <3>1 DEF Children, InState
      <4> QED
        BY <1>3, <2>5, <2>8, <3>2, <4>1 DEF WInv, Alone
    <3> QED
      BY <2>1, <3>7, <3>9, <3>10, <3>11 DEF Alone, Executing
  <2>9. Alone'
    <3>1. ~sole => Alone'
      BY <1>1 DEF Alone
    <3> QED
      BY <2>8, <3>1
  <2> QED
    BY <2>6, <2>7, <2>9 DEF WInv
<1> QED
  BY <1>5, <1>6

LEMMA HandlerWaits ==
  ASSUME IInv, GInv, pipeline \in Pipeline, WInv, EventsFit', HandlerStep
  PROVE  WInv'
<1>1. CASE Deliver \/ HandlerReturns
  <2>1. UNCHANGED <<pc, listed, launched, pipeline, fgpid, sole, proc>>
    BY <1>1 DEF Deliver, HandlerReturns, shellVars, system
  <2> QED
    BY <2>1, WaitFrame DEF Unused, Reported, Children, InState
<1> QED
  BY <1>1, ReapWaits DEF HandlerStep

\* A line is read: whether older processes are left is noted.
LEMMA ReadLineWaits ==
  ASSUME WInv, EventsFit', ReadLine PROVE WInv'
<1>1. PICK k \in 1..MaxCommands, bg \in BOOLEAN : pipeline' = NewPipeline(k, bg)
  BY DEF ReadLine
<1>2. /\ pc' \in {"execute", "delep", "prompt", "exited"} /\ sole' = (Children = {})
      /\ UNCHANGED <<listed, launched, proc>>
  BY DEF ReadLine, Goto, system
<1>3. Children' = Children /\ (sole' => Children = {})
  BY <1>2, Zenon DEF Children, InState
<1>4. pipeline'.nactive = pipeline'.size
  BY <1>1 DEF NewPipeline
<1>5. Alone'
  BY <1>2, <1>3, <1>4 DEF Alone, Executing
<1> QED
  BY <1>2, <1>5 DEF WInv, Counting, JobsListed, Members, Executing

\* The execution of a line starts with a pipeline that has no process yet.
LEMMA ExecuteWaits ==
  ASSUME IInv, GInv, pipeline \in Pipeline, WInv, EventsFit', Execute PROVE WInv'
<1>1. /\ pc = "execute" /\ pc' = "fork" /\ launched' = 0
      /\ UNCHANGED <<listed, pipeline, proc, sole>>
  BY DEF Execute, At, Goto, shellVars, system
<1>2. Job' = listed
  BY <1>1 DEF Job
<1>3. Members(Job)' = {}
  <2>1. \A p \in Pids : proc[p].job < listed
    BY <1>1 DEF GInv, Numbered, Unrecorded
  <2>2. Members(listed) = {}
    BY <2>1 DEF Members, IInv, Typing
  <2> QED
    BY <1>1, <1>2, <2>2 DEF Members
<1>4. Cardinality(Members(Job)') = 0
  BY <1>3, FS_EmptySet
<1>5. Counting'
  <2>1. 0 <= pipeline'.size /\ 0 <= MaxCommands
    BY <1>1, JobsAssumption DEF Pipeline
  <2> QED
    BY <1>1, <1>4, <2>1 DEF Counting
<1>6. Alone'
  <2>1. Out' = {}
    BY <1>3 DEF Out
  <2>2. Cardinality(Out') = 0
    BY <2>1, FS_EmptySet
  <2>3. sole => Children = {} /\ pipeline.nactive = pipeline.size
    BY <1>1 DEF WInv, Alone
  <2>4. Children' = Children
    BY <1>1 DEF Children, InState
  <2>5. pipeline.size - 0 = pipeline.size
    BY DEF Pipeline
  <2> QED
    BY <1>1, <2>2, <2>3, <2>4, <2>5 DEF Alone
<1> QED
  BY <1>1, <1>5, <1>6 DEF WInv, JobsListed, Members

\* A fork adds one member to the job.
LEMMA ForkWaits ==
  ASSUME IInv, GInv, pipeline \in Pipeline, WInv, EventsFit', Fork PROVE WInv'
<1>1. /\ pc = "fork" /\ pc' = "record" /\ Forked(Job) /\ launched < pipeline.size
      /\ UNCHANGED <<listed, launched, pipeline, fgpid, sole>>
  BY DEF Fork, At, Goto, shellVars, Job
<1>2. Job' = Job /\ Executing /\ Executing'
  BY <1>1 DEF Job, Current, Executing
<1>3. PICK p \in Pids :
        /\ Unused(p) /\ \A q \in Pids \ {p} : proc'[q] = proc[q]
        /\ proc'[p] = [state |-> "starting", event |-> "none", group |-> Shell, job |-> Job]
  BY <1>1, ForkedFields DEF IInv
<1>4. /\ proc'[p].state = "starting" /\ proc'[p].event = "none" /\ proc'[p].job = Job
      /\ proc[p].state = "unused"
  BY <1>3 DEF Unused
<1>5. /\ \A j : Members(j)' = IF j = Job THEN Members(j) \cup {p} ELSE Members(j)
      /\ p \notin Members(Job)
  BY <1>3, <1>4 DEF Members
<1>6. Members(Job)' = Members(Job) \cup {p}
  <2> DEFINE j == Job
  <2>1. j' = j
    BY <1>2
  <2> QED
    BY <1>5, <2>1 DEF Members
<1>7. Cardinality(Members(Job)') = Cardinality(Members(Job)) + 1
  <2>1. Members(Job) \in SUBSET Pids
    BY DEF Members
  <2>2. IsFiniteSet(Members(Job))
    BY <2>1, PidsFinite
  <2> QED
    BY <1>5, <1>6, <2>2, FS_AddElement
<1>8. Counting'
  BY <1>1, <1>2, <1>7 DEF WInv, Counting
<1>9. Out' = Out
  <2>1. Out' = {q \in Members(Job)' : Reported(q)'}
    BY DEF Out
  <2>2. ~Reported(p)' /\ ~Reported(p) /\ \A q \in Pids \ {p} : Reported(q)' <=> Reported(q)
    BY <1>3, <1>4 DEF Reported
  <2>3. Members(Job) \subseteq Pids
    BY DEF Members
  <2> QED
    BY <1>6, <2>1, <2>2, <2>3 DEF Out
<1>10. Alone'
  <2>1. ASSUME sole, NEW q \in Children'
        PROVE  q \in Members(Job)' /\ proc'[q].event # "continued"
    <3>1. CASE q = p
      BY <1>4, <1>6, <3>1
    <3>2. CASE q # p
      <4>1. q \in Children /\ proc'[q] = proc[q]
        BY <1>3, <3>2 DEF Children, InState
      <4> QED
        BY <1>2, <1>6, <2>1, <4>1 DEF WInv, Alone
    <3> QED
      BY <3>1, <3>2
  <2> QED
    BY <1>1, <1>2, <1>9, <2>1 DEF WInv, Alone
<1>11. JobsListed'
  BY <1>1, <1>5 DEF WInv, JobsListed
<1> QED
  BY <1>8, <1>10, <1>11 DEF WInv

\* The record of the first process adds the job to the list.
LEMMA RecordWaits ==
  ASSUME IInv, GInv, pipeline \in Pipeline, WInv, EventsFit', Record PROVE WInv'
<1>1. /\ pc = "record" /\ pc' = "fork" /\ UNCHANGED <<fgpid, sole>>
      /\ launched' = launched + 1
      /\ listed' = IF launched = 0 THEN listed + 1 ELSE listed
  BY DEF Record, At, Goto
<1>2. PICK c \in Pids : Unrecorded(c) /\ proc[c].job = Job
  BY <1>1 DEF IInv, RecordNext, Job
<1>3. pipeline'.size = pipeline.size /\ pipeline'.nactive = pipeline.nactive
  <2>1. PICK pid : pipeline' = IF launched = 0 THEN [pipeline EXCEPT !.pgid = pid] ELSE pipeline
    BY DEF Record
  <2> QED
    BY <2>1 DEF Pipeline
<1>4. ASSUME NEW q \in Pids
      PROVE  /\ proc'[q].job = proc[q].job /\ proc'[q].state = proc[q].state
             /\ proc'[q].event = proc[q].event
  <2>1. PICK pid, group : proc' = [proc EXCEPT ![pid].group = group]
    BY DEF Record
  <2> QED
    BY <2>1 DEF IInv, Typing, Process
<1>5. /\ \A j : Members(j)' = Members(j)
      /\ Children' = Children
  BY <1>4, SameMembers DEF Unused, Children, InState
<1>6. launched \in Nat /\ listed \in Nat
  BY DEF GInv, Numbered, IInv, Typing
<1>7. Job' = Job /\ launched' # 0 /\ (launched' # 0 => listed' > 0) /\ Executing /\ Executing'
  BY <1>1, <1>6 DEF Job, Current, Executing, WInv, Counting
<1>8. Members(Job)' = Members(Job)
  <2> DEFINE j == Job
  <2>1. j' = j
    BY <1>7
  <2> QED
    BY <1>5, <2>1 DEF Members
<1>9. Out' = Out
  <2>1. Out' = {q \in Members(Job)' : Reported(q)'}
    BY DEF Out
  <2>2. Members(Job) \subseteq Pids
    BY DEF Members
  <2> QED
    BY <1>4, <1>8, <2>1, <2>2 DEF Out, Reported
<1>10. Counting'
  <2>1. launched + 1 <= pipeline.size /\ pipeline.size <= MaxCommands
    BY <1>1, <1>6, JobsAssumption DEF WInv, Counting, Pipeline
  <2>2. launched' <= MaxCommands
    BY <1>1, <1>6, <2>1, JobsAssumption DEF Pipeline
  <2> QED
    BY <1>1, <1>3, <1>7, <1>8, <2>1, <2>2 DEF WInv, Counting
<1>11. Alone'
  <2>1. Children \subseteq Pids
    BY DEF Children, InState
  <2> QED
    BY <1>1, <1>3, <1>4, <1>5, <1>7, <1>8, <1>9, <2>1 DEF WInv, Alone
<1>12. JobsListed'
  <2> SUFFICES ASSUME NEW j \in 0..(listed' - 1) PROVE Members(j) # {}
    BY <1>5 DEF JobsListed
  <2>1. CASE j \in 0..(listed - 1)
    BY <2>1 DEF WInv, JobsListed
  <2>2. CASE j \notin 0..(listed - 1)
    <3>1. j = Job
      BY <1>1, <1>6, <2>2 DEF Job
    <3> QED
      BY <1>2, <3>1 DEF Members, Unrecorded, Unused
  <2> QED
    BY <2>1, <2>2
<1> QED
  BY <1>10, <1>11, <1>12 DEF WInv

\* The wait starts with the pipeline in the foreground, and ends when nothing of it is
\* left to be reported.
LEMMA WaitSteps ==
  ASSUME WInv, EventsFit', StartWait \/ WaitReturns PROVE WInv'
<1>1. /\ pc \in {"fork", "waiting"} /\ pc' \in {"waiting", "waited"}
      /\ UNCHANGED <<listed, launched, pipeline, proc, sole>>
  BY DEF StartWait, WaitReturns, At, Goto, shellVars, system
<1>2. \/ launched = pipeline.size /\ pc' = "waiting" /\ fgpid' = pipeline.pgid
      \/ /\ pc = "waiting" /\ pc' = "waited" /\ fgpid # pipeline.pgid
         /\ launched = pipeline.size
  BY DEF StartWait, WaitReturns, At, Goto, WInv, Counting
<1>3. Job' = Job /\ Executing /\ Executing'
  BY <1>1 DEF Job, Current, Executing
<1>4. Members(Job)' = Members(Job) /\ Children' = Children
  BY <1>1, <1>3 DEF Members, Children, InState
<1>5. Out' = Out
  BY <1>1, <1>4 DEF Out, Reported
<1>6. Counting'
  BY <1>1, <1>2, <1>3, <1>4 DEF WInv, Counting
<1>7. Alone'
  BY <1>1, <1>2, <1>3, <1>4, <1>5 DEF WInv, Alone
<1>8. JobsListed'
  BY <1>1 DEF WInv, JobsListed, Members
<1> QED
  BY <1>6, <1>7, <1>8 DEF WInv

\* The other steps of main, execute and exec_delep execute no line.
LEMMA LeaveSteps ==
  ASSUME IInv, GInv, WInv, EventsFit',
         \/ EndOfInput \/ CannotFork \/ LeaveInBackground \/ TestStopped \/ ContinueJob
         \/ GiveBackTerminal \/ ForkHelper \/ WaitHelper \/ KillOpeners
  PROVE  WInv'
<1>1. /\ pc' \notin {"execute", "fork", "record", "waiting", "waited"}
      /\ listed' = listed /\ launched' = launched
  BY DEF EndOfInput, CannotFork, LeaveInBackground, TestStopped, ContinueJob,
         GiveBackTerminal, ForkHelper, WaitHelper, KillOpeners, Goto, shellVars
<1>2. Typing
  BY DEF IInv
<1>3. ASSUME NEW p \in Pids, ~Unused(p) PROVE proc'[p].job = proc[p].job /\ ~Unused(p)'
  <2>1. CASE UNCHANGED proc
    BY <1>3, <2>1 DEF Unused
  <2>2. ASSUME NEW P \in SUBSET Pids, NEW s \in {"running", "zombie"},
               NEW e \in {"continued", "ended"}, Changed(P, s, e), \A q \in P : ~Unused(q)
        PROVE  proc'[p].job = proc[p].job /\ ~Unused(p)'
    BY <1>2, <1>3, <2>2, ChangedFrame
  <2>3. CASE ContinueJob
    <3> DEFINE P == {q \in InState({"stopped"}) : proc[q].group = pipeline.pgid}
    <3>1. P \in SUBSET Pids /\ (\A q \in P : ~Unused(q)) /\ Changed(P, "running", "continued")
      BY <2>3 DEF ContinueJob, InState, Unused
    <3> HIDE DEF P
    <3> QED
      BY <2>2, <3>1
  <2>4. CASE KillOpeners
    <3>1. PICK P \in SUBSET {q \in Alive : proc[q].job # Helper} : Changed(P, "zombie", "ended")
      BY <2>4 DEF KillOpeners
    <3>2. P \in SUBSET Pids /\ \A q \in P : ~Unused(q)
      BY DEF Alive, InState, Unused
    <3> QED
      BY <2>2, <3>1, <3>2
  <2>5. CASE WaitHelper
    <3>1. UNCHANGED proc \/ \E q \in Pids : Waited(q)
      BY <2>5 DEF WaitHelper, InState
    <3> QED
      BY <1>2, <1>3, <3>1, WaitedFrame DEF Unused
  <2>6. CASE ForkHelper
    <3>1. PICK q \in Pids : Unused(q) /\ \A r \in Pids \ {q} : proc'[r] = proc[r]
      BY <1>2, <2>6, ForkedFields DEF ForkHelper
    <3> QED
      BY <1>3, <3>1 DEF Unused
  <2> QED
    BY <2>1, <2>3, <2>4, <2>5, <2>6
    DEF EndOfInput, CannotFork, LeaveInBackground, TestStopped, GiveBackTerminal, system
<1> QED
  BY <1>1, <1>3, LeaveFrame

LEMMA NextWaits ==
  ASSUME IInv, GInv, pipeline \in Pipeline, WInv, [Next]_vars PROVE WInv'
<1>1. EventsFit'
  BY EventsKeep DEF WInv
<1>2. CASE UNCHANGED vars
  <2>1. UNCHANGED <<pc, listed, launched, pipeline, fgpid, sole, proc>>
    BY <1>2 DEF vars, shellVars, system
  <2> QED
    BY <1>1, <2>1, WaitFrame DEF Unused, Reported, Children, InState
<1>3. CASE Next
  BY <1>1, <1>3, ProcessWaits, HandlerWaits, ReadLineWaits, ExecuteWaits, ForkWaits,
     RecordWaits, WaitSteps, LeaveSteps
  DEF Next, ShellStep, User
<1> QED
  BY <1>2, <1>3

LEMMA InitWaits == Init => WInv
<1> SUFFICES ASSUME Init PROVE WInv
  OBVIOUS
<1>1. /\ pc = "prompt" /\ launched = 0 /\ listed = 0
      /\ \A p \in Pids : proc[p].state = "unused" /\ proc[p].event = "none"
  BY DEF Init
<1>2. EventsFit /\ JobsListed
  BY <1>1 DEF EventsFit, JobsListed
<1> QED
  BY <1>1, <1>2, JobsAssumption DEF WInv, Counting, Alone, Executing

\* When the wait is over every process of the job has ended or is stopped.
LEMMA WaitsImply ==
  ASSUME pipeline \in Pipeline, WInv PROVE SoleJobWaitedFor
<1> SUFFICES ASSUME sole, pc = "waited",
                    NEW p \in Members(Current) \cap InState({"starting", "running"})
             PROVE  FALSE
  BY DEF SoleJobWaitedFor, ForegroundQuiet
<1>1. Out = Members(Job)
  BY AllOut DEF WInv, Alone
<1>2. Job = Current
  <2>1. launched = pipeline.size /\ pipeline.size # 0
    BY DEF WInv, Counting, Pipeline
  <2> QED
    BY <2>1 DEF Job
<1>3. Reported(p)
  BY <1>1, <1>2 DEF Out
<1> QED
  BY <1>3 DEF Reported, InState

-----------------------------------------------------------------------------
(* The types *)

\* The types that do not follow from the invariants: a pid is mapped to a place in the
\* list, or, unknown to execute, to the first one.
TInv ==
  /\ pc \in Labels
  /\ mapPipeline \in [Pids -> {NotMapped} \cup 0..listed]
  /\ fgpid \in {0} \cup Pids
  /\ blocked \in BOOLEAN /\ pending \in BOOLEAN /\ handling \in BOOLEAN /\ sole \in BOOLEAN
  /\ terminal \in {Shell} \cup Pids /\ stops \in 0..MaxStops

\* Each place of the list has a process, and no process has two.
LEMMA ListedBound ==
  ASSUME Typing, JobsListed PROVE listed \in 0..MaxProcs
<1> DEFINE D == 0..(listed - 1)
           f == [j \in D |-> CHOOSE p \in Pids : p \in Members(j)]
<1>1. listed \in Nat /\ MaxProcs \in Nat
  BY JobsAssumption DEF Typing
<1>2. ASSUME NEW j \in D PROVE f[j] \in Pids /\ f[j] \in Members(j)
  <2>1. \E p \in Pids : p \in Members(j)
    BY DEF JobsListed, Members
  <2> QED
    BY <2>1
<1>3. f \in Injection(D, Pids)
  <2>1. f \in [D -> Pids]
    BY <1>2
  <2>2. ASSUME NEW i \in D, NEW j \in D, f[i] = f[j] PROVE i = j
    BY <1>2, <2>2 DEF Members
  <2> QED
    BY <2>1, <2>2 DEF Injection, IsInjective
<1>4. IsFiniteSet(D) /\ Cardinality(D) = listed
  <2>1. /\ 0 \in Int /\ listed - 1 \in Int
        /\ (IF 0 > listed - 1 THEN 0 ELSE listed - 1 - 0 + 1) = listed
    BY <1>1
  <2> QED
    BY <2>1, FS_Interval
<1> HIDE DEF D, f
<1>5. Cardinality(D) <= Cardinality(Pids)
  BY <1>3, <1>4, PidsFinite, FS_Injection
<1> QED
  BY <1>1, <1>4, <1>5, PidsFinite

LEMMA InitTypes == Init => TInv
<1> SUFFICES ASSUME Init PROVE TInv
  OBVIOUS
<1>1. mapPipeline \in [Pids -> {NotMapped} \cup 0..listed]
  BY DEF Init
<1>2. stops \in 0..MaxStops
  BY JobsAssumption DEF Init
<1>3. blocked \in BOOLEAN /\ pending \in BOOLEAN /\ handling \in BOOLEAN /\ sole \in BOOLEAN
  BY Zenon DEF Init
<1> QED
  BY <1>1, <1>2, <1>3 DEF Init, TInv, Labels

\* The process that Record enters, and the place it gets.
LEMMA RecordFields ==
  ASSUME IInv, WInv, GInv, Record
  PROVE  \E c \in Pids :
           /\ mapPipeline' = [mapPipeline EXCEPT ![c] = listed' - 1]
           /\ listed' \in Nat /\ listed' - 1 \in 0..listed' /\ listed' >= listed
           /\ terminal' = IF launched = 0 THEN c ELSE terminal
<1>1. PICK c \in Pids : Unrecorded(c)
  BY DEF Record, At, IInv, RecordNext
<1>2. Newest = c
  BY <1>1 DEF Record, At, Newest, Unrecorded, Unused, Pids
<1>3. /\ mapPipeline' = [mapPipeline EXCEPT ![c] = listed' - 1]
      /\ listed' = IF launched = 0 THEN listed + 1 ELSE listed
      /\ terminal' = IF launched = 0 THEN c ELSE terminal
  BY <1>2 DEF Record
<1>4. listed \in Nat /\ (launched # 0 => listed > 0)
  BY DEF Record, At, IInv, Typing, WInv, Counting, Executing
<1>5. listed' \in Nat /\ listed' > 0 /\ listed' >= listed
  BY <1>3, <1>4
<1>6. listed' - 1 \in 0..listed'
  <2>1. \A k \in Nat : k > 0 => k - 1 \in 0..k
    OBVIOUS
  <2> QED
    BY <1>5, <2>1
<1> QED
  BY <1>3, <1>5, <1>6

LEMMA MappedTypes ==
  ASSUME IInv, WInv, GInv, TInv, [Next]_vars
  PROVE  mapPipeline' \in [Pids -> {NotMapped} \cup 0..listed']
<1>1. mapPipeline \in [Pids -> {NotMapped} \cup 0..listed] /\ listed \in Nat
  BY DEF TInv, IInv, Typing
<1>2. ASSUME NEW p \in Pids, Reap(p)
      PROVE  mapPipeline' \in [Pids -> {NotMapped} \cup 0..listed']
  <2>1. /\ mapPipeline' = [mapPipeline EXCEPT ![p] =
                             IF mapPipeline[p] = NotMapped THEN 0 ELSE mapPipeline[p]]
        /\ listed' = listed
    BY <1>2 DEF Reap, ReapChild
  <2> QED
    BY <1>1, <2>1
<1>3. CASE Record
  <2>1. PICK c \in Pids :
          /\ mapPipeline' = [mapPipeline EXCEPT ![c] = listed' - 1]
          /\ listed' \in Nat /\ listed' - 1 \in 0..listed' /\ listed' >= listed
    BY <1>3, RecordFields
  <2>2. mapPipeline \in [Pids -> {NotMapped} \cup 0..listed']
    <3>1. \A k \in 0..listed : k \in 0..listed'
      BY <1>1, <2>1
    <3> QED
      BY <1>1, <3>1
  <2> QED
    BY <2>1, <2>2
<1>4. CASE Next /\ ~Record /\ \A p \in Pids : ~Reap(p)
  <2>1. mapPipeline' = mapPipeline /\ listed' = listed
    BY <1>4
    DEF Next, ShellStep, HandlerStep, User, FailToStart, Start, End, CtrlZ, Deliver,
        HandlerReturns, ReadLine, EndOfInput, Execute, Fork, CannotFork, LeaveInBackground,
        StartWait, WaitReturns, TestStopped, ContinueJob, GiveBackTerminal, ForkHelper,
        WaitHelper, KillOpeners, shellVars
  <2> QED
    BY <1>1, <2>1
<1>5. CASE UNCHANGED vars
  BY <1>1, <1>5 DEF vars, shellVars
<1> QED
  BY <1>2, <1>3, <1>4, <1>5

LEMMA ControlTypes ==
  ASSUME IInv, WInv, GInv, pipeline \in Pipeline, TInv, [Next]_vars
  PROVE  pc' \in Labels /\ fgpid' \in {0} \cup Pids
<1>1. pc \in Labels /\ fgpid \in {0} \cup Pids
  BY DEF TInv
<1>2. pc' \in Labels
  BY <1>1
  DEF Next, ShellStep, HandlerStep, User, FailToStart, Start, End, CtrlZ, Deliver,
      HandlerReturns, ReadLine, EndOfInput, Execute, Fork, CannotFork, LeaveInBackground,
      StartWait, WaitReturns, TestStopped, ContinueJob, GiveBackTerminal, ForkHelper,
      WaitHelper, KillOpeners, Record, Reap, ReapChild, Goto, vars, Labels
<1>3. CASE StartWait
  <2>1. pc = "fork" /\ launched = pipeline.size /\ fgpid' = pipeline.pgid
    BY <1>3 DEF StartWait, At
  <2>2. launched # 0
    BY <2>1 DEF Pipeline
  <2> QED
    BY <1>2, <2>1, <2>2 DEF GInv, LeaderStays, Children, InState
<1>4. ASSUME NEW p \in Pids, Reap(p) PROVE fgpid' \in {0} \cup Pids
  BY <1>1, <1>4 DEF Reap, ReapChild
<1>5. CASE ~StartWait /\ \A p \in Pids : ~Reap(p)
  <2>1. fgpid' = fgpid
    BY <1>5
    DEF Next, ShellStep, HandlerStep, User, FailToStart, Start, End, CtrlZ, Deliver,
        HandlerReturns, ReadLine, EndOfInput, Execute, Fork, CannotFork, LeaveInBackground,
        WaitReturns, TestStopped, ContinueJob, GiveBackTerminal, ForkHelper,
        WaitHelper, KillOpeners, Record, shellVars, vars
  <2> QED
    BY <1>1, <1>2, <2>1
<1> QED
  BY <1>2, <1>3, <1>4, <1>5

LEMMA SignalTypes ==
  ASSUME TInv, [Next]_vars
  PROVE  blocked' \in BOOLEAN /\ pending' \in BOOLEAN /\ handling' \in BOOLEAN
         /\ sole' \in BOOLEAN
<1>1. blocked \in BOOLEAN /\ pending \in BOOLEAN /\ handling \in BOOLEAN /\ sole \in BOOLEAN
  BY DEF TInv
<1>2. blocked' = blocked \/ blocked' = TRUE \/ blocked' = FALSE
  BY DEF Next, ShellStep, HandlerStep, User, FailToStart, Start, End, CtrlZ, Deliver,
         HandlerReturns, ReadLine, EndOfInput, Execute, Fork, CannotFork,
         LeaveInBackground, StartWait, WaitReturns, TestStopped, ContinueJob,
         GiveBackTerminal, ForkHelper, WaitHelper, KillOpeners, Record, Reap, ReapChild,
         signals, vars
<1>3. handling' = handling \/ handling' = TRUE \/ handling' = FALSE
  BY DEF Next, ShellStep, HandlerStep, User, FailToStart, Start, End, CtrlZ, Deliver,
         HandlerReturns, ReadLine, EndOfInput, Execute, Fork, CannotFork,
         LeaveInBackground, StartWait, WaitReturns, TestStopped, ContinueJob,
         GiveBackTerminal, ForkHelper, WaitHelper, KillOpeners, Record, Reap, ReapChild,
         signals, vars
<1>4. \/ pending' = pending \/ pending' = FALSE \/ \E P \in SUBSET Pids : \E s, e : Changed(P, s, e)
  <2>1. ASSUME NEW p \in Pids, FailToStart(p) \/ End(p)
        PROVE  \E P \in SUBSET Pids : \E s, e : Changed(P, s, e)
    BY <2>1 DEF FailToStart, End
  <2>2. CASE CtrlZ
    <3>1. PICK P \in SUBSET {q \in InState({"running"}) : proc[q].group = terminal} :
            Changed(P, "stopped", "stopped")
      BY <2>2 DEF CtrlZ
    <3> QED
      BY <3>1 DEF InState
  <2>3. CASE KillOpeners
    <3>1. PICK P \in SUBSET {q \in Alive : proc[q].job # Helper} : Changed(P, "zombie", "ended")
      BY <2>3 DEF KillOpeners
    <3> QED
      BY <3>1 DEF Alive, InState
  <2>4. CASE ContinueJob
    <3> DEFINE P == {q \in InState({"stopped"}) : proc[q].group = pipeline.pgid}
    <3>1. P \in SUBSET Pids /\ Changed(P, "running", "continued")
      BY <2>4 DEF ContinueJob, InState
    <3> HIDE DEF P
    <3> QED
      BY <3>1
  <2>5. CASE /\ ~CtrlZ /\ ~KillOpeners /\ ~ContinueJob
             /\ \A p \in Pids : ~FailToStart(p) /\ ~End(p)
    BY <2>5
    DEF Next, ShellStep, HandlerStep, User, Start, Deliver, HandlerReturns, ReadLine,
        EndOfInput, Execute, Fork, CannotFork, LeaveInBackground, StartWait, WaitReturns,
        TestStopped, GiveBackTerminal, ForkHelper, WaitHelper, Record, Reap, ReapChild,
        signals, vars
  <2> QED
    BY <2>1, <2>2, <2>3, <2>4, <2>5
<1>5. ASSUME NEW P, NEW s, NEW e, Changed(P, s, e) PROVE pending' \in BOOLEAN
  <2>1. pending' = (pending \/ P # {})
    BY <1>5 DEF Changed
  <2> QED
    BY <1>1, <2>1, Zenon
<1>6. sole' = sole \/ sole' = (Children = {})
  BY DEF Next, ShellStep, HandlerStep, User, FailToStart, Start, End, CtrlZ, Deliver,
         HandlerReturns, ReadLine, EndOfInput, Execute, Fork, CannotFork,
         LeaveInBackground, StartWait, WaitReturns, TestStopped, ContinueJob,
         GiveBackTerminal, ForkHelper, WaitHelper, KillOpeners, Record, Reap, ReapChild,
         vars, Zenon
<1>7. sole' \in BOOLEAN
  BY <1>1, <1>6, Zenon
<1> QED
  BY <1>1, <1>2, <1>3, <1>4, <1>5, <1>7

LEMMA SystemTypes ==
  ASSUME IInv, WInv, GInv, TInv, [Next]_vars
  PROVE  terminal' \in {Shell} \cup Pids /\ stops' \in 0..MaxStops
<1>1. terminal \in {Shell} \cup Pids /\ stops \in 0..MaxStops /\ MaxStops \in Nat
  BY JobsAssumption DEF TInv
<1>2. CASE Record
  BY <1>1, <1>2, RecordFields DEF Record
<1>3. CASE ~Record
  <2>1. terminal' = terminal \/ terminal' = Shell
    BY <1>3
    DEF Next, ShellStep, HandlerStep, User, FailToStart, Start, End, CtrlZ, Deliver,
        HandlerReturns, ReadLine, EndOfInput, Execute, Fork, CannotFork, LeaveInBackground,
        StartWait, WaitReturns, TestStopped, ContinueJob, GiveBackTerminal, ForkHelper,
        WaitHelper, KillOpeners, Reap, ReapChild, system, vars
  <2>2. \/ stops' = stops
        \/ stops < MaxStops /\ stops' = stops + 1
    BY <1>3
    DEF Next, ShellStep, HandlerStep, User, FailToStart, Start, End, CtrlZ, Deliver,
        HandlerReturns, ReadLine, EndOfInput, Execute, Fork, CannotFork, LeaveInBackground,
        StartWait, WaitReturns, TestStopped, ContinueJob, GiveBackTerminal, ForkHelper,
        WaitHelper, KillOpeners, Reap, ReapChild, system, vars
  <2> QED
    BY <1>1, <2>1, <2>2
<1> QED
  BY <1>2, <1>3

-----------------------------------------------------------------------------
\* The invariants together.
JobsInv == IInv /\ pipeline \in Pipeline /\ GInv /\ WInv /\ TInv

LEMMA JobsInductive == JobsInv /\ [Next]_vars => JobsInv'
<1> SUFFICES ASSUME JobsInv, [Next]_vars PROVE JobsInv'
  OBVIOUS
<1>1. IInv /\ pipeline \in Pipeline /\ GInv /\ WInv /\ TInv
  BY DEF JobsInv
<1>2. TInv'
  BY <1>1, MappedTypes, ControlTypes, SignalTypes, SystemTypes DEF TInv
<1> QED
  BY <1>1, <1>2, NextInv, PipelineFields, NextGroups, NextWaits DEF JobsInv

LEMMA JobsInitial == Init => JobsInv
<1>1. Init => pipeline \in Pipeline
  BY JobsAssumption DEF Init, NewPipeline, Pipeline, Statuses
<1> QED
  BY <1>1, InitInv, InitGroups, InitWaits, InitTypes DEF JobsInv

\* In every behaviour the shell that had no older process left waits for a foreground
\* job until each of its processes has ended or is stopped, in whatever order they end,
\* stop and are reported, several of them by one SIGCHLD.
THEOREM SoleJobWaitedForCorrect == Spec => []SoleJobWaitedFor
<1>1. JobsInv => SoleJobWaitedFor
  BY WaitsImply DEF JobsInv
<1> QED
  BY <1>1, JobsInitial, JobsInductive, PTL DEF Spec

\* The variables keep to their types: the list of pipelines is no longer than the number
\* of processes, and fgpid and the terminal's group name processes.
THEOREM TypeCorrect == Spec => []TypeOK
<1>1. JobsInv => TypeOK
  <2> SUFFICES ASSUME JobsInv PROVE TypeOK
    OBVIOUS
  <2>1. listed \in 0..MaxProcs
    BY ListedBound DEF JobsInv, IInv, WInv
  <2>2. mapPipeline \in [Pids -> {NotMapped} \cup 0..MaxProcs]
    <3>1. \A k \in 0..listed : k \in 0..MaxProcs
      BY <2>1, JobsAssumption
    <3>2. mapPipeline \in [Pids -> {NotMapped} \cup 0..listed]
      BY DEF JobsInv, TInv
    <3> QED
      BY <3>1, <3>2
  <2>3. launched \in 0..MaxCommands
    BY JobsAssumption DEF JobsInv, GInv, Numbered, WInv, Counting
  <2> QED
    BY <2>1, <2>2, <2>3 DEF JobsInv, TInv, IInv, Typing, TypeOK
<1> QED
  BY <1>1, JobsInitial, JobsInductive, PTL DEF Spec
=============================================================================
