-------------------------------- MODULE Jobs --------------------------------
(***************************************************************************)
(* Job control of the shell of Assignment 2: the loop of main (rash.cpp),  *)
(* Pipeline::execute (pipeline.cpp), and the SIGCHLD handler and the wait  *)
(* for the foreground job (signal_handler.cpp), with the processes and the *)
(* kernel they deal with.                                                  *)
(*                                                                         *)
(* `Pipeline p` is a local of one iteration of main's loop and             *)
(* pipeline_list keeps its address.  As the Makefile builds it (no -O)     *)
(* every iteration has it at the same place, so that all pointers of the   *)
(* list lead to `pipeline`, the latest one, which keeps its last value     *)
(* between two iterations; of the list only the length is kept.            *)
(*                                                                         *)
(* Left out: the file descriptors, what the programs compute, stops by     *)
(* SIGTTIN, C_handler and Z_handler: one flag decides only whether the end *)
(* of the input ends the shell, the other is never read.                   *)
(***************************************************************************)
EXTENDS Integers, FiniteSets

CONSTANTS
  MaxProcs,    \* bound: processes started in one session
  MaxStops,    \* bound: times Ctrl-Z reaches a job
  MaxCommands  \* bound: commands of one line

ASSUME JobsAssumption ==
  MaxProcs \in Nat \ {0} /\ MaxStops \in Nat /\ MaxCommands \in Nat \ {0}

Pids == 1..MaxProcs
Shell == 0          \* the process group of the shell
NotMapped == -1
Helper == -1        \* the job of delep's child: none

VARIABLES
  pc,             \* main, execute and exec_delep: where they are
  pipeline,       \* the fields of the latest Pipeline
  listed,         \* pipeline_list.size()
  mapPipeline,    \* map_pipeline
  fgpid,
  blocked,        \* SIGCHLD is in the signal mask
  pending,        \* SIGCHLD is pending
  handling,       \* reapProcesses is running
  launched,       \* the commands of the line forked so far
  terminal,       \* the foreground process group of the terminal
  proc,           \* the processes: state, status not yet waited for, group, job
  stops,
  sole            \* history: no child was left when the line was read

shellVars == <<pipeline, listed, mapPipeline, fgpid>>
signals == <<blocked, pending, handling>>
system == <<terminal, proc, stops>>
vars == <<pc, shellVars, signals, launched, system, sole>>

Labels == {"prompt", "execute", "fork", "record", "waiting", "waited",
           "continue", "give_back", "delep", "wait_helper", "read_helper",
           "exited", "crashed"}
Statuses == {"RUNNING", "STOPPED", "DONE"}

Pipeline == [pgid : {-1} \cup Pids, nactive : Int, size : 1..MaxCommands,
             status : Statuses, background : BOOLEAN]
Process == [state : {"unused", "starting", "running", "stopped", "zombie", "gone"},
            event : {"none", "stopped", "continued", "ended"},
            group : {Shell} \cup Pids, job : {Helper} \cup Nat]

NewPipeline(n, bg) ==
  [pgid |-> -1, nactive |-> n, size |-> n, status |-> "RUNNING", background |-> bg]

Init ==
  /\ pc = "prompt"
  /\ pipeline = NewPipeline(1, FALSE)
  /\ listed = 0 /\ mapPipeline = [p \in Pids |-> NotMapped]
  /\ fgpid = 0
  /\ blocked = FALSE /\ pending = FALSE /\ handling = FALSE
  /\ launched = 0
  /\ terminal = Shell /\ stops = 0
  /\ proc = [p \in Pids |-> [state |-> "unused", event |-> "none", group |-> Shell, job |-> Helper]]
  /\ sole = TRUE

-----------------------------------------------------------------------------
(* The processes and the kernel *)

InState(S) == {p \in Pids : proc[p].state \in S}
Children == InState({"starting", "running", "stopped", "zombie"})
Alive == InState({"starting", "running", "stopped"})
Members(job) == {p \in Pids : proc[p].state # "unused" /\ proc[p].job = job}
Leader(job) == CHOOSE p \in Members(job) : \A q \in Members(job) : p <= q

\* The job of the line being executed, once its first command is recorded.
Current == listed - 1

ShellRuns == pc \notin {"exited", "crashed"}

\* The processes in P enter a state and the shell is told of it; of several
\* changes that it did not wait for, the latest one is reported.
Changed(P, state, event) ==
  /\ proc' = [p \in Pids |->
        IF p \in P THEN [proc[p] EXCEPT !.state = state, !.event = event] ELSE proc[p]]
  /\ pending' = (pending \/ P # {})

\* The group that p is in after setpgid(p, g), which fails when g is no group.
GroupAfter(p, g) ==
  IF g = p \/ \E q \in Children : proc[q].group = g THEN g ELSE proc[p].group

\* A child in its own branch of the fork: the redirection fails and it exits ...
FailToStart(p) ==
  /\ ShellRuns /\ proc[p].state = "starting"
  /\ Changed({p}, "zombie", "ended")
  /\ UNCHANGED <<pc, shellVars, blocked, handling, launched, terminal, stops, sole>>

\* ... or it enters the group of its pipeline and runs the command.  pgid is
\* not set yet in the copy that the first command has.
Start(p) ==
  /\ ShellRuns /\ proc[p].state = "starting"
  /\ LET g == CASE proc[p].job = Helper -> Shell
                [] p = Leader(proc[p].job) -> p
                [] OTHER -> Leader(proc[p].job) IN
     proc' = [proc EXCEPT ![p].state = "running", ![p].group = GroupAfter(p, g)]
  /\ UNCHANGED <<pc, shellVars, signals, launched, terminal, stops, sole>>

\* A program ends, by itself or by SIGINT.
End(p) ==
  /\ ShellRuns /\ proc[p].state = "running"
  /\ Changed({p}, "zombie", "ended")
  /\ UNCHANGED <<pc, shellVars, blocked, handling, launched, terminal, stops, sole>>

\* Ctrl-Z reaches the foreground group of the terminal; a program that catches
\* SIGTSTP runs on.
CtrlZ ==
  /\ ShellRuns /\ terminal # Shell /\ stops < MaxStops
  /\ \E P \in SUBSET {p \in InState({"running"}) : proc[p].group = terminal} :
        P # {} /\ Changed(P, "stopped", "stopped")
  /\ stops' = stops + 1
  /\ UNCHANGED <<pc, shellVars, blocked, handling, launched, terminal, sole>>

-----------------------------------------------------------------------------
(* reapProcesses *)

\* SIGCHLD is delivered unless it is blocked; sigsuspend unblocks it.
Deliver ==
  /\ ShellRuns /\ pending /\ ~handling /\ (~blocked \/ pc = "waiting")
  /\ handling' = TRUE /\ pending' = FALSE
  /\ UNCHANGED <<pc, shellVars, blocked, launched, system, sole>>

\* Mutant: a stopped process stays counted.
CountedStopless(event) ==
  LET n == pipeline.nactive + (CASE event = "continued" -> 1 [] event = "ended" -> -1 [] OTHER -> 0) IN
  [pipeline EXCEPT !.nactive = n, !.status = IF n = 0 THEN "DONE" ELSE @]

Counted(event) ==
  LET n == IF event = "continued" THEN pipeline.nactive + 1 ELSE pipeline.nactive - 1 IN
  [pipeline EXCEPT
     !.nactive = n,
     !.status = CASE event = "ended" /\ n = 0 -> "DONE"
                  [] event = "stopped" /\ n = 0 -> "STOPPED"
                  [] event = "continued" /\ n = pipeline.size -> "RUNNING"
                  [] OTHER -> @]

\* Mutant: any process of the foreground job ends the wait.
ForegroundEndedEarly(event) == pipeline.pgid = fgpid /\ event # "continued"

\* The event takes the job out of the foreground.
ForegroundEnded(event) ==
  pipeline.pgid = fgpid /\ event # "continued" /\ Counted(event).nactive = 0

Waited(p) == proc' = [proc EXCEPT ![p].event = "none",
                                  ![p].state = IF @ = "zombie" THEN "gone" ELSE @]

\* One turn of the loop.  A process that is not in map_pipeline counts for the
\* first pipeline; there may be none.
ReapChild(p) ==
  /\ Waited(p)
  /\ LET id == IF mapPipeline[p] = NotMapped THEN 0 ELSE mapPipeline[p] IN
     /\ mapPipeline' = [mapPipeline EXCEPT ![p] = id]
     /\ \/ /\ id < listed
           /\ pipeline' = Counted(proc[p].event)
           /\ fgpid' = IF ForegroundEnded(proc[p].event) THEN 0 ELSE fgpid
           /\ pc' = pc
        \/ /\ id >= listed
           /\ pc' = "crashed"
           /\ UNCHANGED <<pipeline, fgpid>>
  /\ UNCHANGED <<listed, blocked, pending, launched, terminal, stops, sole>>

\* Mutant: one waitpid for one signal.
ReapOnce(p) ==
  ShellRuns /\ handling /\ proc[p].event # "none" /\ ReapChild(p) /\ handling' = FALSE

Reap(p) ==
  ShellRuns /\ handling /\ proc[p].event # "none" /\ ReapChild(p) /\ handling' = handling

HandlerReturns ==
  /\ ShellRuns /\ handling /\ \A p \in Pids : proc[p].event = "none"
  /\ handling' = FALSE
  /\ UNCHANGED <<pc, shellVars, blocked, pending, launched, system, sole>>

-----------------------------------------------------------------------------
(* main *)

At(l) == pc = l /\ ~handling
Goto(l) == pc' = l

\* A line is parsed and its Pipeline constructed; `cd`, `sb` and `exit` start
\* no process.
ReadLine ==
  /\ At("prompt")
  /\ \E n \in 1..MaxCommands, bg \in BOOLEAN : pipeline' = NewPipeline(n, bg)
  /\ \E l \in {"execute", "delep", "prompt", "exited"} : Goto(l)
  /\ sole' = (Children = {})
  /\ UNCHANGED <<listed, mapPipeline, fgpid, signals, launched, system>>

\* readline returns no line: the shell ends, or goes on as if nothing had
\* happened when there was a Ctrl-C before.
EndOfInput ==
  /\ At("prompt") /\ Goto("exited")
  /\ UNCHANGED <<shellVars, signals, launched, system, sole>>

-----------------------------------------------------------------------------
(* Pipeline::execute and waitForForegroundProcess *)

\* Mutant: SIGCHLD is not blocked.
ExecuteUnblocked ==
  /\ At("execute") /\ Goto("fork")
  /\ launched' = 0
  /\ UNCHANGED <<shellVars, signals, system, sole>>

Execute ==
  /\ At("execute") /\ Goto("fork")
  /\ blocked' = TRUE /\ launched' = 0
  /\ UNCHANGED <<shellVars, pending, handling, system, sole>>

\* A new child is in the group of the shell.
Forked(job) ==
  /\ \E p \in InState({"unused"}) :
        /\ \A q \in InState({"unused"}) : p <= q
        /\ proc' = [proc EXCEPT ![p] =
              [state |-> "starting", event |-> "none", group |-> Shell, job |-> job]]

\* Mutant: i <= ncommands
ForkOneMore ==
  /\ At("fork") /\ launched <= pipeline.size
  /\ Forked(IF launched = 0 THEN listed ELSE Current)
  /\ Goto("record")
  /\ UNCHANGED <<shellVars, signals, launched, terminal, stops, sole>>

Fork ==
  /\ At("fork") /\ launched < pipeline.size
  /\ Forked(IF launched = 0 THEN listed ELSE Current)
  /\ Goto("record")
  /\ UNCHANGED <<shellVars, signals, launched, terminal, stops, sole>>

\* pipe or fork fails.
CannotFork ==
  /\ At("fork") /\ launched < pipeline.size
  /\ Goto("exited")
  /\ UNCHANGED <<shellVars, signals, launched, system, sole>>

\* The child whose fork just returned.
Newest == CHOOSE p \in Pids : /\ proc[p].state # "unused"
                              /\ \A q \in Pids : q > p => proc[q].state = "unused"

\* Mutant: only the child calls setpgid.
RecordUngrouped ==
  /\ At("record") /\ Goto("fork")
  /\ LET c == Newest
         first == launched = 0 IN
     /\ pipeline' = IF first THEN [pipeline EXCEPT !.pgid = c] ELSE pipeline
     /\ listed' = IF first THEN listed + 1 ELSE listed
     /\ terminal' = IF first THEN c ELSE terminal
     /\ mapPipeline' = [mapPipeline EXCEPT ![c] = listed' - 1]
  /\ launched' = launched + 1
  /\ UNCHANGED <<proc, fgpid, signals, stops, sole>>

\* The parent's branch of the fork.  The child may have ended meanwhile.
Record ==
  /\ At("record") /\ Goto("fork")
  /\ LET c == Newest
         first == launched = 0 IN
     /\ pipeline' = IF first THEN [pipeline EXCEPT !.pgid = c] ELSE pipeline
     /\ proc' = [proc EXCEPT ![c].group = GroupAfter(c, pipeline'.pgid)]
     /\ listed' = IF first THEN listed + 1 ELSE listed
     /\ terminal' = IF first THEN c ELSE terminal
     /\ mapPipeline' = [mapPipeline EXCEPT ![c] = listed' - 1]
  /\ launched' = launched + 1
  /\ UNCHANGED <<fgpid, signals, stops, sole>>

LeaveInBackground ==
  /\ At("fork") /\ launched = pipeline.size /\ pipeline.background
  /\ Goto("give_back")
  /\ blocked' = FALSE
  /\ UNCHANGED <<shellVars, pending, handling, launched, system, sole>>

StartWait ==
  /\ At("fork") /\ launched = pipeline.size /\ ~pipeline.background
  /\ Goto("waiting")
  /\ fgpid' = pipeline.pgid
  /\ UNCHANGED <<pipeline, listed, mapPipeline, signals, launched, system, sole>>

WaitReturns ==
  /\ At("waiting") /\ fgpid # pipeline.pgid
  /\ Goto("waited")
  /\ blocked' = FALSE
  /\ UNCHANGED <<shellVars, pending, handling, launched, system, sole>>

TestStopped ==
  /\ At("waited")
  /\ Goto(IF pipeline.status = "STOPPED" THEN "continue" ELSE "give_back")
  /\ UNCHANGED <<shellVars, signals, launched, system, sole>>

ContinueJob ==
  /\ At("continue") /\ Goto("give_back")
  /\ Changed({p \in InState({"stopped"}) : proc[p].group = pipeline.pgid}, "running", "continued")
  /\ UNCHANGED <<shellVars, blocked, handling, launched, terminal, stops, sole>>

GiveBackTerminal ==
  /\ At("give_back") /\ Goto("prompt")
  /\ terminal' = Shell
  /\ UNCHANGED <<shellVars, signals, launched, proc, stops, sole>>

-----------------------------------------------------------------------------
(* exec_delep *)

ForkHelper ==
  /\ At("delep") /\ Goto("wait_helper")
  /\ Forked(Helper)
  /\ UNCHANGED <<shellVars, signals, launched, terminal, stops, sole>>

\* wait(NULL): any child that has ended, or at once when there is no child.
WaitHelper ==
  /\ At("wait_helper") /\ Goto("read_helper")
  /\ \/ \E p \in InState({"zombie"}) : Waited(p)
     \/ Children = {} /\ UNCHANGED proc
  /\ UNCHANGED <<shellVars, signals, launched, terminal, stops, sole>>

\* The processes that have the file open, of the shell or not, are killed if
\* the user says so.
KillOpeners ==
  /\ At("read_helper") /\ Goto("prompt")
  /\ \E P \in SUBSET {p \in Alive : proc[p].job # Helper} : Changed(P, "zombie", "ended")
  /\ UNCHANGED <<shellVars, blocked, handling, launched, terminal, stops, sole>>

-----------------------------------------------------------------------------
ShellStep ==
  \/ Execute \/ Fork \/ CannotFork \/ Record \/ LeaveInBackground
  \/ StartWait \/ WaitReturns \/ TestStopped \/ ContinueJob \/ GiveBackTerminal
  \/ ForkHelper \/ WaitHelper \/ KillOpeners

HandlerStep == Deliver \/ (\E p \in Pids : Reap(p)) \/ HandlerReturns

User == ReadLine \/ EndOfInput \/ CtrlZ

Next ==
  \/ ShellStep \/ HandlerStep \/ User
  \/ \E p \in Pids : FailToStart(p) \/ Start(p) \/ End(p)

Spec == Init /\ [][Next]_vars

\* The shell, its handler and every process get the processor, and no program
\* runs for ever; the user need not type anything.
FairSpec ==
  /\ Spec
  /\ WF_vars(ShellStep) /\ WF_vars(HandlerStep)
  /\ \A p \in Pids : WF_vars(Start(p)) /\ WF_vars(End(p))

-----------------------------------------------------------------------------
\* Every variable has its type.
TypeOK ==
  /\ pc \in Labels /\ pipeline \in Pipeline
  /\ listed \in 0..MaxProcs /\ mapPipeline \in [Pids -> {NotMapped} \cup 0..MaxProcs]
  /\ fgpid \in {0} \cup Pids
  /\ blocked \in BOOLEAN /\ pending \in BOOLEAN /\ handling \in BOOLEAN
  /\ launched \in 0..MaxCommands
  /\ terminal \in {Shell} \cup Pids /\ stops \in 0..MaxStops
  /\ proc \in [Pids -> Process]
  /\ sole \in BOOLEAN

\* The handler never meets a process of a pipeline that execute did not enter
\* in map_pipeline yet, however early the process ends.
HandlerKnowsChildren ==
  handling => \A p \in Pids :
    proc[p].event # "none" /\ proc[p].job # Helper => mapPipeline[p] = proc[p].job

\* The commands of a pipeline run in one process group, so that Ctrl-C, Ctrl-Z
\* and kill(-fg_pgid) reach all of them, also when the first one is slow to
\* start or has ended before the others are forked.
GroupWhole ==
  \A p \in InState({"running", "stopped"}) :
    proc[p].job # Helper => proc[p].group = Leader(proc[p].job)

ForegroundQuiet == pc = "waited" => Members(Current) \cap InState({"starting", "running"}) = {}

\* The shell waits for a foreground job until none of its processes runs, if
\* no older process was left.
SoleJobWaitedFor == sole => ForegroundQuiet

\* The shell waits for every foreground job until none of its processes runs.
ForegroundWaitedFor == ForegroundQuiet

\* The wait for a foreground job ends, if no older process was left.
SoleWaitEnds == (pc = "waiting" /\ sole) ~> pc # "waiting"

\* A process that has ended is waited for in the end, also when one SIGCHLD
\* stands for several processes: no zombie stays while the shell runs.
ZombiesReaped ==
  \A p \in Pids : proc[p].state = "zombie" ~> proc[p].state = "gone" \/ ~ShellRuns
=============================================================================
