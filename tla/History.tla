------------------------------ MODULE History -------------------------------
(***************************************************************************)
(* The command history of the shell of Assignment 2 (history.cpp and the    *)
(* loop of rash.cpp): shells that are started in one directory, are left    *)
(* with "exit" or Ctrl-D or are killed, and share the file .shell_history.  *)
(*                                                                         *)
(* A text is a sequence of characters, and so is the file, since two shells *)
(* that save at once write at offsets that are not theirs.  A write is one  *)
(* line: endl flushes it.  A start reads the file by buffers, and others may *)
(* save in between.  The name is relative: this is the file of one directory. *)
(***************************************************************************)
EXTENDS Integers, Sequences, SequencesExt, Ordering

CONSTANTS
  Shells,
  Texts,          \* the lines a user enters
  Exit,           \* the one that leaves the shell
  HIST_SZ,        \* what a history may hold
  Newline, Nul,
  BufferSize,     \* what one read of the file returns at most
  MaxEntered,     \* how many lines are entered, in all
  MaxCursor       \* how far the cursor may run

ASSUME HistoryAssumption ==
  /\ Exit \in Texts /\ HIST_SZ \in Nat \ {0} /\ BufferSize \in Nat \ {0}
  /\ MaxEntered \in Nat /\ MaxCursor \in Nat
  /\ \A text \in Texts : /\ text \in Seq(ToSet(text))
                         /\ {Newline, Nul} \cap ToSet(text) = {}

VARIABLES
  file,           \* .shell_history
  pc,             \* per shell: "off", "loading", "reading" or "saving"
  buffer,         \* per shell: what it has read of the file
  history, curr,  \* per shell: the deque, and the cursor in it
  ctrlC,          \* per shell: Ctrl-C was pressed
  offset,         \* per shell: where its next line goes
  \* What the properties look back on:
  entered,        \* per shell: what it read at its start, then what was entered
  saved,          \* what the last shell to open the file set out to save
  overlapped,     \* a shell emptied the file while another loaded or saved it
  count           \* the lines entered so far

kept == <<entered, saved, overlapped, count>>
vars == <<file, pc, buffer, history, curr, ctrlC, offset, kept>>

\* Where getline ends a line: at a newline, and at the end of a file that has
\* characters after its last newline.
LineEnds(chars) ==
  {i \in 1..Len(chars) : chars[i] = Newline} \cup
    IF chars = <<>> \/ chars[Len(chars)] = Newline THEN {} ELSE {Len(chars) + 1}

\* getline over a whole file.
Lines(chars) ==
  LET at == InOrder(LineEnds(chars))
  IN [k \in DOMAIN at |->
       SubSeq(chars, IF k = 1 THEN 1 ELSE at[k - 1] + 1, at[k] - 1)]

\* The file with a text written at an offset; a gap is filled with Nul.
Written(text, at) ==
  [i \in 1..Max({Len(file), at + Len(text)}) |->
     IF i > at /\ i <= at + Len(text) THEN text[i - at]
     ELSE IF i <= Len(file) THEN file[i] ELSE Nul]

\* Mutant: the limit is tested after the line has been added.
AddedLate(lines, text) ==
  IF Len(lines) > HIST_SZ THEN Append(Tail(lines), text) ELSE Append(lines, text)

\* addToHistory: the limit is tested for equality.
Added(lines, text) ==
  Append(IF Len(lines) = HIST_SZ THEN Tail(lines) ELSE lines, text)

Loading(s) == pc[s] = "loading"
Saving(s) == pc[s] = "saving"
Reading(s) == pc[s] = "reading"

Init ==
  /\ file = <<>> /\ saved = <<>> /\ overlapped = FALSE /\ count = 0
  /\ pc = [s \in Shells |-> "off"]
  /\ buffer = [s \in Shells |-> <<>>] /\ history = [s \in Shells |-> <<>>]
  /\ curr = [s \in Shells |-> 0]
  /\ ctrlC = [s \in Shells |-> FALSE] /\ offset = [s \in Shells |-> 0]
  /\ entered = [s \in Shells |-> <<>>]

-----------------------------------------------------------------------------
(* A shell *)

\* getHistory clears the history and opens the file; without one, that is all.
Start(s) ==
  /\ pc[s] = "off"
  /\ \E next \in {"loading", "reading"} : pc' = [pc EXCEPT ![s] = next]
  /\ buffer' = [buffer EXCEPT ![s] = <<>>]
  /\ history' = [history EXCEPT ![s] = <<>>] /\ entered' = [entered EXCEPT ![s] = <<>>]
  /\ UNCHANGED <<file, curr, ctrlC, offset, saved, overlapped, count>>

\* One read, from where the last one ended.
Read(s) ==
  /\ Loading(s) /\ Len(buffer[s]) < Len(file)
  /\ LET to == Min({Len(file), Len(buffer[s]) + BufferSize})
     IN buffer' = [buffer EXCEPT ![s] = @ \o SubSeq(file, Len(@) + 1, to)]
  /\ UNCHANGED <<file, pc, history, curr, ctrlC, offset, kept>>

\* There is nothing left to read; the cursor goes behind the last line.
Loaded(s) ==
  /\ Loading(s) /\ Len(buffer[s]) >= Len(file)
  /\ pc' = [pc EXCEPT ![s] = "reading"]
  /\ buffer' = [buffer EXCEPT ![s] = <<>>]
  /\ history' = [history EXCEPT ![s] = Lines(buffer[s])]
  /\ curr' = [curr EXCEPT ![s] = Len(history'[s])]
  /\ entered' = [entered EXCEPT ![s] = history'[s]]
  /\ UNCHANGED <<file, ctrlC, offset, saved, overlapped, count>>

\* Nothing of a process that has ended is left; its cursor is read by nobody.
Gone(s) ==
  /\ pc' = [pc EXCEPT ![s] = "off"] /\ buffer' = [buffer EXCEPT ![s] = <<>>]
  /\ history' = [history EXCEPT ![s] = <<>>] /\ entered' = [entered EXCEPT ![s] = <<>>]
  /\ curr' = [curr EXCEPT ![s] = 0] /\ offset' = [offset EXCEPT ![s] = 0]
  /\ ctrlC' = [ctrlC EXCEPT ![s] = FALSE]

\* Mutant: the file is written over, not emptied.
SaveOver(s, lines) ==
  \/ /\ pc' = [pc EXCEPT ![s] = "saving"]
     /\ history' = [history EXCEPT ![s] = lines] /\ saved' = lines
     /\ overlapped' = (overlapped \/ \E t \in Shells \ {s} : Loading(t) \/ Saving(t))
     /\ UNCHANGED <<file, buffer, curr, ctrlC, offset, entered>>
  \/ Gone(s) /\ UNCHANGED <<file, saved, overlapped>>

\* saveHistory opens the file, which empties it.  A file that cannot be opened ends
\* the shell; a shell that has changed its directory leaves its history there.
Save(s, lines) ==
  \/ /\ pc' = [pc EXCEPT ![s] = "saving"] /\ file' = <<>>
     /\ history' = [history EXCEPT ![s] = lines] /\ saved' = lines
     /\ overlapped' = (overlapped \/ \E t \in Shells \ {s} : Loading(t) \/ Saving(t))
     /\ UNCHANGED <<buffer, curr, ctrlC, offset, entered>>
  \/ Gone(s) /\ UNCHANGED <<file, saved, overlapped>>

\* Mutant: the cursor stays where it is.
EnterInPlace(s, text) ==
  /\ Reading(s) /\ count < MaxEntered /\ text # Exit
  /\ history' = [history EXCEPT ![s] = Added(@, text)]
  /\ entered' = [entered EXCEPT ![s] = Append(@, text)]
  /\ count' = count + 1
  /\ UNCHANGED <<file, pc, buffer, curr, ctrlC, offset, saved, overlapped>>

\* A line is entered; the cursor goes behind the last.
Enter(s, text) ==
  /\ Reading(s) /\ count < MaxEntered /\ text # Exit
  /\ history' = [history EXCEPT ![s] = Added(@, text)]
  /\ curr' = [curr EXCEPT ![s] = Len(history'[s])]
  /\ entered' = [entered EXCEPT ![s] = Append(@, text)]
  /\ count' = count + 1
  /\ UNCHANGED <<file, pc, buffer, ctrlC, offset, saved, overlapped>>

\* "exit": the history is saved, with this line.
Leave(s) ==
  /\ Reading(s) /\ count < MaxEntered
  /\ Save(s, Added(history[s], Exit))
  /\ count' = count + 1

\* Mutant: the first line has nothing in front of it, yet the cursor moves.
UpBelow(s) ==
  /\ Reading(s)
  /\ curr' = [curr EXCEPT ![s] = @ - 1]
  /\ UNCHANGED <<file, pc, buffer, history, ctrlC, offset, kept>>

\* showHistory for the two arrow keys.  The size is unsigned: for an empty history
\* size() - 1 is above any cursor.
Up(s) ==
  /\ Reading(s) /\ curr[s] > 0
  /\ curr' = [curr EXCEPT ![s] = @ - 1]
  /\ UNCHANGED <<file, pc, buffer, history, ctrlC, offset, kept>>

Down(s) ==
  /\ Reading(s) /\ (history[s] = <<>> \/ curr[s] < Len(history[s]) - 1)
  /\ curr[s] < MaxCursor
  /\ curr' = [curr EXCEPT ![s] = @ + 1]
  /\ UNCHANGED <<file, pc, buffer, history, ctrlC, offset, kept>>

\* C_handler.
CtrlC(s) ==
  /\ Reading(s)
  /\ ctrlC' = [ctrlC EXCEPT ![s] = TRUE]
  /\ curr' = [curr EXCEPT ![s] = Len(history[s])]
  /\ UNCHANGED <<file, pc, buffer, history, offset, kept>>

\* readline returns no line: after a Ctrl-C, the end of input is ignored once.
CtrlD(s) ==
  /\ Reading(s)
  /\ \/ /\ ctrlC[s] /\ ctrlC' = [ctrlC EXCEPT ![s] = FALSE]
        /\ UNCHANGED <<file, pc, buffer, history, curr, offset, entered, saved, overlapped>>
     \/ ~ctrlC[s] /\ Save(s, history[s])
  /\ UNCHANGED count

SaveLine(s) ==
  /\ Saving(s) /\ history[s] # <<>>
  /\ LET text == Append(Head(history[s]), Newline)
     IN /\ file' = Written(text, offset[s])
        /\ offset' = [offset EXCEPT ![s] = @ + Len(text)]
  /\ history' = [history EXCEPT ![s] = Tail(@)]
  /\ UNCHANGED <<pc, buffer, curr, ctrlC, kept>>

SaveEnd(s) ==
  /\ Saving(s) /\ history[s] = <<>>
  /\ Gone(s) /\ UNCHANGED <<file, saved, overlapped, count>>

\* The shell is killed, with its terminal or by a signal it does not handle.
Kill(s) ==
  /\ pc[s] # "off"
  /\ Gone(s) /\ UNCHANGED <<file, saved, overlapped, count>>

Next == \E s \in Shells :
  \/ Start(s) \/ Read(s) \/ Loaded(s)
  \/ (\E text \in Texts : Enter(s, text)) \/ Leave(s)
  \/ Up(s) \/ Down(s) \/ CtrlC(s) \/ CtrlD(s)
  \/ SaveLine(s) \/ SaveEnd(s) \/ Kill(s)

Spec == Init /\ [][Next]_vars

-----------------------------------------------------------------------------
(* Properties *)

Characters == {Newline, Nul} \cup UNION {ToSet(text) : text \in Texts}

\* The values the variables range over.
TypeOK ==
  /\ file \in Seq(Characters) /\ saved \in Seq(Seq(Characters))
  /\ pc \in [Shells -> {"off", "loading", "reading", "saving"}]
  /\ buffer \in [Shells -> Seq(Characters)]
  /\ history \in [Shells -> Seq(Seq(Characters))] /\ curr \in [Shells -> Nat]
  /\ ctrlC \in [Shells -> BOOLEAN] /\ offset \in [Shells -> Nat]

\* A shell recalls the last HIST_SZ lines of what it has read and what was entered
\* since, as long as no shell emptied the file while another was saving to it or was
\* loading it: addToHistory (history.cpp:26) tests for equality, and a file with more
\* lines than that lifts the limit for good.
RecallsLast ==
  ~overlapped => \A s \in Shells : Reading(s) =>
    LET from == Max({0, Len(entered[s]) - HIST_SZ})
    IN history[s] = SubSeq(entered[s], from + 1, Len(entered[s]))

\* What a shell that starts will read is what the last shell to save had, up to
\* where it got: nothing of an older file is left, and a shell that was killed
\* while it saved leaves whole lines.
FileFromOneShell ==
  ~overlapped =>
    /\ IsPrefix(Lines(file), saved)
    /\ \A s \in Shells : Saving(s) => saved = Lines(file) \o history[s]

\* A cursor that has run past an empty history is back when there is a line to
\* show: it is on a line, or just behind the last.
CursorInside ==
  \A s \in Shells : Reading(s) /\ history[s] # <<>> =>
    curr[s] \in 0..Len(history[s])
=============================================================================
