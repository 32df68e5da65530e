# TLA+ for the Operating Systems Laboratory programs

This directory models the concurrent and stateful programs of the repository
(assignments 2 to 6) in TLA+, checks the models with TLC and proves the main properties
with TLAPS. Line numbers are those of the files under `src/`.

## 1. Inventory

| Part | Files | State | Operations | Hard behaviour |
|---|---|---|---|---|
| sns threads | `Assignment 4/sns.cpp` | `sharedQueue`, one `feed` per user, `modifiedQueue`, `lastUpdated`, 3 mutexes and one per feed, 4 kinds of condition variables, the flags `creation_printed` and `feedPushPrinted` | `userSimulator` (1 thread), `pushUpdate` (25), `readPost` (10) | nested locks, waits while holding another lock, one signal for several waiters, a time stamp compared without its lock, the causal order of a log written by three kinds of threads |
| sns user selection | `sns.cpp:178-194` | `node_taken`, `random_nodes` | draw, clear marks, next round | the reset loop clears other marks than those set |
| hotel | `Assignment 5/*.cpp` | rooms, `curr_guests`, `occupancies`, `dirty_rooms`, `being_cleaned`, 3 semaphores, one sleep semaphore per guest | `guest_thread`, `allotroom`, `cleaner_thread` | timeout against eviction, counters without locks, rooms under two different semaphores, a broadcast without the mutex |
| goodmalloc | `Assignment 6/goodmalloc.cpp` | `BIG_MEMORY` with in-band headers, one page table per scope | `createMem`, `createList`, `assignVal`, `accessVal`, `freeElem`, `startScope`, `endScope`, `getList`, `setList` | exact fit, end of memory, coalescing, several threads |
| merge sort | `Assignment 6/mergesort.cpp` | the calls, the list and the temporary lists | `mergesort`, `merge` | scopes left open by the base case, pointers handed from scope to scope |
| shell job control | `Assignment 2/rash.cpp`, `pipeline.cpp`, `signal_handler.cpp` | `pipeline_list`, `map_pipeline`, `fgpid`, `nactive` and `status` of a pipeline | start, wait, reap, stop, continue, interrupt | a signal handler that runs between any two statements |
| shell history | `history.cpp`, `rash.cpp` | a deque and a cursor per shell, the file `.shell_history` | load, add, up, down, save | several shells on one file, read by buffers and written line by line, a shell killed while it saves, a limit tested by `==`, a cursor in an empty history |
| delep | `delep.cpp` | none | forks a helper that walks `/proc`, waits for it, kills the holders of a file | its `wait` competes with the handler |
| shared-memory graph | `Assignment 3/*.cpp` | a SysV segment, the graph and the distances of each consumer | the producer grows the graph and publishes it, consumers read it and bring shortest paths up to date | the segment is removed, made again and filled while others look it up and read it |
| shell parser, wildcards, squashbug | other files of `Assignment 2` | none, or `/proc` | parsing, process listing | - |
| order and chaos | `Lab Test 1/problem3.c` | `A`, `B`, `aindex` | one producer, three consumers | state used after the unlock |
| scripts, problem2 | `Assignment 1`, `Lab Test 1/problem2.c` | - | text processing; an echo loop with a handler | - |

How parts interact: the sns threads share the queues and feeds listed above and
nothing else; the selection of users is a local matter of `userSimulator`. The hotel's
guests and cleaners share rooms, counters and semaphores. Merge sort is the client of
goodmalloc: `MergeSort` composes the two. The producer and the consumers of the graph share
the segment, and shells share the history file. The assignments do not interact with each
other.

What makes each part correct:

- *sns*: exclusion by each mutex; a log in causal order; every action at most once, and
  in the end exactly once, at every neighbour; no deadlock; a feed in the order its node is set to.
- *selection*: a draw is always possible; the users of a round are distinct.
- *hotel*: at most 2N occupancies between cleanings, cleaning only when every room was
  used twice, everybody evicted, nobody admitted meanwhile, the hotel opens again, with every
  room clean and nobody's, and a guest is woken early only when evicted.
- *goodmalloc*: headers tile the memory, lists are inside it and disjoint, a request that
  fails is reported, freed memory is usable again.
- *merge sort*: every name leads to a live list in every scope, each call sorts its part,
  no element is lost, the program ends.
- *job control*: the wait for a foreground job goes on as long as the job runs and then
  ends; the handler knows every child; a pipeline is one process group; no zombie stays.
- *history*: a shell recalls the last lines and no more than the limit; the file is what one
  shell saved.
- *graph*: a consumer works on one product at a time, its distances are the true ones, and
  the consumers share out the nodes without gap or overlap.

## 2. Modules

| Module | Models | Extended by |
|---|---|---|
| `Delivery` | what sns promises its users (abstract) | instantiated by `Sns` |
| `Sns` | the threads of `sns.cpp` | `MCSns` (TLC), `SnsProofs` |
| `SnsUsers` | the selection of users | `MCSnsUsers`, `SnsUsersProofs` |
| `Hotel` | Assignment 5 | `MCHotel`, `HotelProofs` |
| `Segments` | the memory of Assignment 6 and its headers | `GoodMalloc`, `MergeSort` |
| `GoodMalloc` | the allocator with lists that come and go in any order | `MCGoodMalloc`, `GoodMallocProofs` |
| `MergeSort` | the merge sort, its scopes and its page tables | `MCMergeSort`, `MergeSortProofs` |
| `Jobs` | job control of the shell of Assignment 2, and the fork and wait of delep | `MCJobs`, `JobsProofs` |
| `Ordering` | the members of a set of numbers in their order | `History`, `ShortestPaths` |
| `History` | the history of the shell and its file | `MCHistory`, `HistoryProofs` |
| `ShortestPaths` | the two algorithms of the consumers of Assignment 3 | `SharedGraph` |
| `SharedGraph` | producer, consumers and segments of Assignment 3 | `MCSharedGraph`, `SharedGraphProofs` |

Each component has a module of proofs of its own, named after it. `MergeSortProofs` takes what
`GoodMallocProofs` proves of the walk over the headers by an instance of that module.

An operator whose comment starts with *Mutant* is a faulty variant of the definition
after it. No specification uses it; it serves to see that a property notices the fault.

**Sns.** A step is what a thread does between two lock or unlock operations; the program
counter of a thread is a label, and the waiters of a condition variable are the threads
at a `wait_...` label. A signalled thread goes back to the label that takes the mutex and
tests its condition again, as the `while` loops do. An action object is its number in the
order of creation; `heap[a]` holds its user and time stamp; the kind of action and its
`action_id` are left out, since no thread decides anything by them. A feed is a set with
the order `Tops`, because a priority queue returns one of the elements of highest
priority. The graph is a constant (`main_thread` reads it before any thread starts).
`sleep(120)` is the freedom of the simulator to stay at `select`.

**Delivery.** Users post, posts are announced, delivered once to each friend and read once.
`Sns` maps a post to an action object, the announcement to `creationPrinted`, the inbox of a
node to its feed together with the batch a reader has drained from it, and what was seen to
`readPrinted`. `DeliversOnce` says that `Sns` implements `Delivery` under that mapping: a
drain and everything the locks and signals do are stuttering steps, and an element skipped as
stale loses nothing.

**SnsUsers.** One draw per step; a draw of a marked node only repeats the loop, so the
model draws among the unmarked ones and asks (`SelectionProceeds`) that there is one. The marks
are cleared as in the code, those of the indices `0..R-1` and not of the nodes drawn.

**Hotel.** Sections of `roomAllocationSemaphore` that cleaners can interleave with are several
steps, since a cleaner resets rooms under `roomCleanSemaphore`. The eviction tests a room
(`GuestEvict`) and uses its `guest_id` (`GuestPost`) in two: a cleaner that resets it before the
first makes the loop pass over the guest, and one that resets it in between makes it post
`sleepSemaphore[-1]`. That is outside the vector, with the layout of glibc in the last
`cleanerMutex` behind the word of its lock, and nobody gets the token. A guest that leaves tests
`being_cleaned` (`GuestVacate`), then loads and stores `curr_guests` (`GuestLoad`, `GuestStore`),
which a cleaner may set to 0 meanwhile. Two sections are one step: the test and release of a room
after a timeout (`GuestLeave`), as a cleaner that comes in between writes the same values; and a
booking (`GuestAllotted`), as in the cycles that are checked and proved no cleaner is where it
writes `curr_guests` or a room while a guest holds an admission.

`dirty_rooms--` is a load and a store. `pthread_cond_wait` and the test before it are two steps,
because the guest that broadcasts does not hold the mutex. Durations are left out, so a stay may end
at any time. A `sem_timedwait` whose semaphore has a token returns at once and never times out.
`closings` and `bookedIn` are history variables: how often the hotel closed, in all and before a guest
booked its room.

**Segments, GoodMalloc.** A header word is `2 * size + used`. The words past `BIG_MEMORY` are
part of the model because the code reads and writes them; what they hold at first is a
constant set. `Segments` has the first-fit walk, the split and the release; `GoodMalloc` has
threads, each with one list at a time, that go through the two sections of `memMutex` in
`createList` one by one, and free in any order whatever they ask for. A search that runs past the
end makes the program exit (`"exited"`), one that stops at the end makes it write there
(`"undefined"`), and one that meets a segment of size 0 never ends and keeps the mutex (`"spin"`):
nobody moves after any of them. `AssignVal` writes any data word of the list, without the stride of
`assignVal`. The programs of the assignment have one thread; the locks are for clients with several,
which the report of the group claims to be served. `filled` and `lifo` are history variables: a hole in
front of another segment was filled to its last word; so far the clients asked for what fits and freed the
last list first, as the programs do.

**MergeSort.** `main`, `mergesort` and `merge` with an explicit stack of calls; a step ends at
a call or a return, or is one turn of the loop that merges. `table` is `mapList`, one page
table per scope, and `struct` holds the `my_struct`s of the C heap; a name of a page table
is an address, null or absent. `mergesort` returns from its base case without `endScope`
(mergesort.cpp:50), so that from the first leaf on, the `endScope` of a caller ends the scope
of a leaf. A step that would follow a dangling or null pointer is not enabled, and
`Finishes` then fails. An element has the three words that `createList` and the stride of
`assignVal` and `accessVal` give it.

**Jobs.** `main`, `execute` and `exec_delep` are one thread (`pc`); `reapProcesses` runs when
SIGCHLD is pending and not masked (`handling`), and `main` stands still meanwhile. A process
has a state, at most one change that was not waited for yet, a group, and the index of the
pipeline it belongs to. SIGCHLD is one bit (`pending`) and a `waitpid` returns the changes
in any order. The process side of a fork is `Start` or, when the redirection fails,
`FailToStart`; the parent's side is `Record`, and the two are interleaved. The commands
a user types are choices of `ReadLine`.

`pipeline_list` holds addresses of `Pipeline p`, a local of one iteration of the loop of
`main` (rash.cpp:165, pipeline.cpp:47). That object is gone when the next line is read, and
using it is undefined. The Makefile builds without optimisation, and then every iteration has
`p` at the same address: the model has one `pipeline`, which every element of the list leads to.
`sole` is a history variable: there was no child left when the line was read.

**History.** Shells started in one directory load `.shell_history` (`Start`, `Read`, `Loaded`) by
reads of at most `BufferSize` characters, as the buffer of an `ifstream` does. When they are left by
`exit` or Ctrl-D they empty the file and write it line by line, each line at the offset
where the last one of that shell ended. Between two lines or two reads anything may happen: another shell
may start, enter lines or save, and the shell may be killed. The file is a sequence of
characters, because two shells that save at once cut each other's lines. Adding a line to a
history tests its size by `==` (history.cpp:26), the up and down keys move the cursor before they
test it (history.cpp:35). A shell that has changed its directory leaves its history somewhere
else, which is the second disjunct of `Save`. `overlapped` is a history variable: a shell emptied the
file while another was saving to it or loading it.

**ShortestPaths, SharedGraph.** A segment is the sequence of its words, and every access to a
word by the producer or a consumer is a step; `shmget` and `shmat` of the producer are one
step, as nobody else creates. A segment lives on without its key while somebody is attached,
as in SysV. The two modes (`flag`) are both initial states. A consumer keeps its graph, `n`,
`m`, its sources and its distances from round to round. What C++ leaves undefined (an index out of range
after a torn read, `-1` as an index when a path is followed) ends the process in the state
`undefined`; nothing is claimed of it after that. The Makefile builds without optimisation, so the
writes of the producer come in the order of the program. `torn` is a history variable: the
consumer took a product from a segment that was not complete. The assignment allows for
this race; what the properties say is that it is the only way to a wrong graph.
`ShortestPaths` has `dijkstra` and the update node by node of `optimised_dijkstra`, compared
with a definition by paths (`Correct`).

## 3. Runs

| Run | Configuration | Shows |
|---|---|---|
| `sns_path` | users u1 - u2 - u3, 2 pushers, 2 readers, 2 actions, one clock value, spurious wakeups | type, `MutualExclusion`, `LogOrder`, `DeliveredOnce`, `BlockedOnlyWhenDone`, `DeliversOnce` |
| `sns_live` | 2 users, 1 pusher, 2 readers, 2 actions per selection, clock 0..1, fairness | `FeedTracked`, `EveryActionRead` |
| `sns_users` | 7 nodes, 3 per round, 5 rounds | type, `SelectionProceeds`, `DistinctInRound` |
| `hotel_first` | 2 rooms, 3 guests, 2 cleaners, up to and through the first cleaning, spurious wakeups | type, `TwiceBeforeCleaning`, `OpensClean`, `NobodyAdmittedWhileCleaning`, `EvictionMissesOnlyCleaned` |
| `hotel_woken` | the same, two cleanings | **violated**: `WokenOnlyWhenEvicted` |
| `hotel_ends` | the same, one cleaning, fairness | **violated**: `CleaningEnds` |
| `malloc` | 8 words, lists of 2, 2 and 4 words made and freed in any order | type, `Tiled`, `ListsDisjoint`, `LifoClientsServed` |
| `merge_sort` | 5 elements of 3 values, 32 words, 3 addresses, fairness | type, `ListReachable`, `MemoryTiled`, `CallsSort`, `Finishes` |
| `jobs` | 3 processes, pipelines of 1 or 2 commands, 2 times Ctrl-Z, fairness | type, `HandlerKnowsChildren`, `GroupWhole`, `SoleJobWaitedFor`, `SoleWaitEnds`, `ZombiesReaped` |
| `jobs_background` | 2 processes | **violated**: `ForegroundWaitedFor` |
| `history` | 3 shells, histories of 2 lines, reads of 2 characters, 4 lines entered | type, `RecallsLast`, `FileFromOneShell`, `CursorInside` |
| `shared_graph` | 2 nodes and an edge at first, one consumer of two with 3 rounds, 2 productions of one node of degree 1 or 2, both modes | type, `ReadsOneProduct`, `PathsShortest`, `SharesPartition` |

The bounds, and why the interesting cases are within them:

- `MaxActions`, `MaxClock` (Sns): two actions are enough for two pushers to overtake each
  other, for a pusher and the simulator to compete for the log, and for a reader to find
  more than one action in a feed. Two clock values are enough for a modification to be
  older than `lastUpdated`; equal values are the other case. The path gives one user two
  neighbours and two users one, so that a feed is pushed to by different threads.
- `MaxRounds` (SnsUsers): the four nodes whose marks are never cleared are used up within the rounds.
- `MaxCleanings` (Hotel): guests stop arriving after so many closings. Two rooms and three
  guests of different priorities give eviction by priority, guests turned away, timeouts,
  and both cleaners at work. With one cleaning the passing properties are about the
  first cleaning only. They do not survive the second: 4N admissions, tokens left over and a
  cleaner that sets `being_cleaned` to 0 late carry over into the next cycle (below). The
  assignment asks for `Y > N > X > 1`; `main` does not check it, and two rooms with two
  cleaners keep the state space small.
- `M`, `Size`, `PastEnd` (GoodMalloc): the lists fill the memory exactly. A list of two words may
  be freed with others behind it, and the hole be filled by the other list of two (the exact fit) or
  be too small for the list of four, whose search then fails. Two free segments may be neighbours.
  The word past the end is odd, as a size word of the C heap, or 0.
- `N`, `M`, `Pointers` (MergeSort): five elements give halves of unequal length, leaves on
  two levels, and merges whose halves run out in either order; three values give ties. The
  memory holds the list and the temporary list of the last merge exactly (`6 * N + 2`), and
  `malloc` may reuse any of three addresses, one more than are ever live.
- `MaxProcs`, `MaxCommands`, `MaxStops` (Jobs): three processes are a background job and a
  pipeline of two, or a job and the helper of delep; with two Ctrl-Z the two processes of a
  pipeline are stopped together or one after the other, or a job is stopped again before the
  shell has its terminal back.
- `HIST_SZ`, `BufferSize`, `MaxEntered`, `MaxCursor` (History): with a limit of two, four lines fill a
  history and drop its first lines; a shell that is killed while it saves leaves one line of
  two. A full file takes two or three reads. A third shell can load while a second one saves what a first
  left. The shells are symmetric. The states after an overlap are not explored (`MCNoOverlapBefore`;
  the first of them is checked), since the two properties of the file claim nothing about them. That `TypeOK`
  and `CursorInside` hold there as well is proved and not checked.
- `NConsumers`, `Consumers`, `ProducerCapacity`, `ConsumerCapacity`, `MaxNewNodes`, `MaxDegree`
  (SharedGraph): consumers write nothing that another process reads, so that one of them says
  it all; two exist so that the graph is shared out. With two productions and
  three rounds a consumer meets a removed, an empty, a half-filled and a new segment, keeps an old
  segment while a new one exists, and misses a production.

Deadlock is checked in `history`, where a shell can always be started. It is not checked in the other runs:
with the bounds reached, or with all the work done, the processes block or have ended, as in the
programs. `BlockedOnlyWhenDone`, `EveryActionRead` and `Finishes` say what must hold then.

**Fairness.** `FairSpec` of `Jobs` gives the shell, its handler and each process the processor
and takes it that a program that is not stopped ends; nothing is assumed of the user.
`FairSpec` (Sns, Hotel) is weak fairness of every thread: the scheduler runs
a thread that can run. Locks are not assumed to be fair, time need not pass and no
spurious wakeup is assumed. `EveryActionRead` holds with weak fairness only because the
bounded simulator stops creating actions; without a bound a reader could lose a race for
a mutex for ever. `FairSpec` of `MergeSort` is weak fairness of `Next`: a sequential program that
can take a step takes it.

### What the violated runs show

1. `hotel_woken`: the guest of the 2N-th occupancy gives itself a token and does not take
   it. Its next stay ends at once, without the room being given back. A token that comes
   after a timeout does the same.
2. `hotel_ends`: a lost decrement of `dirty_rooms` leaves the hotel closed; so does a
   broadcast that comes between the test of a cleaner and its wait.
3. `jobs_background`: the end of an older process is counted for the latest pipeline. With
   `sleep 5 &` and then `sleep 100` the shell prompts after 5 seconds. The properties whose
   names begin with `Sole` are about jobs started when nothing older was left.

### What else the models contain

The models have these behaviours too, and no run is devoted to them: what goes wrong follows from a few
steps, or no document says what should happen.

- A reader drains what is in the feed at that time, and among 25 pushers a later action may
  get there first: the order of a chronological node holds within one drain only (sns.cpp:365).
- Two cleaners decrement `dirty_rooms` before either tests it; both find 0 and both post 2N
  admissions (cleanerthread.cpp:63), so that the next cycle has 4N. The slower one sets
  `curr_guests` to 0 while new guests are already counted.
- The eviction passes over a guest whose room a cleaner has reset, before its turn or between
  guestthread.cpp:109 and :110, although the design document says that "all the sleepSemaphores are
  signalled to evict all the occupied rooms". `EvictionMissesOnlyCleaned` says that nobody else is
  passed over. Such a guest sleeps on beside whoever gets its room next.
- The marks cleared after a selection are those of the nodes 0..99 and not of the nodes drawn
  (sns.cpp:193). A node from 100 on is drawn once in the life of the program, and the later rounds
  choose from ever fewer nodes, although the comment of sns.cpp:182 and the assignment speak of 100
  random nodes of the whole graph.
- A failed search of `CreatePartitionMainMemory` ends at `i == big_memory_sz`, and the test for
  failure is `>` (goodmalloc.cpp:76): the program goes on past the end of the memory (`"undefined"`).
  Freed lists that lie side by side are not joined unless the second was free first, so a search can
  fail although there is room.
- An exact fit writes a header of size 0 over the next segment (goodmalloc.cpp:82), in use or not, and
  the next search that gets there goes on for ever. `Tiled` has the premise that this did not happen yet;
  `ListsDisjoint` holds all the same, since no walk goes further.
- `freeElem` and `endScope` of a list that ends where the memory does test the word past the end
  (goodmalloc.cpp:192), and take it over if it is even. It is 0 or a size word of the C heap, whose
  lowest bit is set; a word like 4 there would break `Tiled`.
- A job of which one process is stopped while another ends gets the status `DONE` and is never
  continued (signal_handler.cpp:42); a process killed while stopped is counted twice.
- The handler may take the helper of delep for a process of the first pipeline
  (delep.cpp:187), or find no pipeline at all: the step to `crashed`.
- Two shells that save at once may leave a file with more than `HIST_SZ` lines, and a shell that loads
  the file while another rewrites it may get lines of both. The `==` of history.cpp:26 then never
  holds again and the history grows without limit: this is why `RecallsLast` has the premise `~overlapped`.

## 4. Proofs

`SnsProofs` proves for every graph, every number of threads and every bound:

- `TypeCorrect`: `Spec => []TypeOK`. `TypeOK` is inductive.
- `MutexCorrect`: `Spec => []MutualExclusion`. The holder of each mutex is exactly the
  thread whose label is inside its section; inductive together with `TypeOK`. A signal
  moves a waiter to a label outside every section (`SignalPushers`, `SignalReaders`).
- `LogCorrect`: `Spec => []LogOrder`. The flags are tested under `writeToFileMutex` and
  never lowered.
- `FeedCorrect`: `Spec => []FeedTracked`. The argument needs that `lastUpdated` is never
  later than the clock, so that a modification queued now is not stale; and exclusion on the
  feed, so that a drain happens either before a push or after its modification is on its way.

**Delivery.** The same module strengthens `DeliveredOnce` to an inductive invariant of three parts, and
`HandsCorrect` proves it:

- `HandsInv`: an action is with the simulator, once in `sharedQueue`, or with one pusher.
- `UntouchedInv`: a node that the simulator, the queue or a pusher has still to bring an
  action to never had it. `DeliveredOnce` alone is not inductive, as it speaks only of the
  neighbour a pusher is at now.
- `BatchInv`: what is in the batch of a reader is neither in that feed nor read. The proof
  needs `MutualExclusion`: two readers with a batch of the same node would be both in the
  section of its feed (`OneReader`).

`DeliveredOnceCorrect` and `DeliveryCorrect` (`Spec => DeliversOnce`) follow. For the refinement, each
action of `Sns` is shown to be the one step of `Delivery` it stands for or to leave the
inboxes alone; `LogOrder` gives that what is read was announced.

**Progress.** `BlockedOnlyWhenDoneCorrect`: with any number of pushers and readers, no signal is lost
and no circle of waits closes. Each condition variable has its invariant:

- `QueueAwake`: a queue that is not empty has a thread that does not wait for it, although a
  push signals one thread only.
- `RoundInv`, `AwaitInv`: the pushers that wait for a creation line wait for different actions of
  the current round, and while the simulator prints they are at most as many as the lines it has still to
  write (by cardinalities: an injection into the indices of `temp_actions` when it begins, and
  then one less per line). So one signal for each line wakes them all, whichever it wakes first.
- `LoggedInv`, `FlagInv`: what is at a node and not logged has a pusher on its way to the
  log, which holds at most the feed it pushed to; a reader waits only for such a line,
  and who writes the line wakes the reader, since only one reader can wait at that node.
- `CoverInv`: a delivery that is due is still with somebody, or has been made.

When everybody is blocked, the three mutexes outside the feeds are free (`BlockedFree`): their
owners never wait. So the simulator is between two rounds, no pusher waits for a creation,
no reader waits for a flag, hence no feed is locked, and everybody waits for work
(`BlockedWaits`). The queues are then empty, by `FeedTracked` so are the feeds, and by `CoverInv`
everything was read.

`SnsUsersProofs` proves for every `N >= R > 0`:

- `TypeCorrect`, `SelectionCorrect` and `RoundCorrect`. The invariant says that the marks below `R`
  are those of the current round only. Fewer than `R` draws cannot mark all the `R` indices that are
  cleared.

`JobsProofs` proves `HandlerKnowsCorrect` for any number of processes, commands and stops.
The invariant says that between a fork and its record SIGCHLD is blocked and the handler
does not run, and that every other process of a pipeline is in `map_pipeline` under the right
index. Processes are numbered in the order of their forks, so that the one that is not
recorded is the last one (`ForkedOrder`).

`GroupWholeCorrect` holds for the same parameters, and also for every order in which the shell and the
children call `setpgid`. Its invariant has four parts:

- `Led`: the processes of a job have a smallest one, its leader. Only a fork adds a member, and
  the new one has the largest number, so that the leader stays (`ForkedGroups`).
- `Grouped`: a child whose group was set, by `Record` or by itself, is in the group of the leader.
- `LeaderStays`: between two forks of a pipeline the first process is not waited for, since
  SIGCHLD is blocked. It may be a zombie, but its group exists, and `setpgid` of the next
  process cannot fail (`GroupAfter`). Without this part `Grouped` is not inductive.
- `Numbered`: the job of a process that is not recorded yet has no other process when it is the
  first of its pipeline.

`SoleJobWaitedForCorrect`: the shell waits for a job that was started when nothing older was left, for
as long as the job runs. The invariant (`WInv`) has four parts:

- `EventsFit`: the event of a process that was not waited for yet tells the state it is in.
- `Counting`: a job has as many processes as were forked for it.
- `Alone`: `nactive` is the size of the pipeline less the processes whose end or stop the handler has
  reported (by cardinalities). A continued process would spoil the count; while the job is waited for
  there is none, as only the shell continues a job.
- `JobsListed`: every place of `pipeline_list` has a process, so that the index of a new job is not
  that of an old one.

`TypeCorrect` follows from all of these with `TInv`: that `listed` is at most the number of processes is
not a matter of types, but of `JobsListed`.

`HotelProofs` proves `TypeCorrect` for every number of rooms, guests and cleaners, and under
`Regular`, one cleaner or one closing, `Closing` (`TwiceBeforeCleaning`), `Opens` (`OpensClean`),
`Admissions` (`NobodyAdmittedWhileCleaning`) and `Eviction` (`EvictionMissesOnlyCleaned`). Without
`Regular` the last two are false: two cleaners that both find `dirty_rooms` at 0 post 2N admissions
each. The invariant `IInv` follows the cycle:

- `Opening`: an admission is at the semaphore, with a guest at the desk, or counted in `occupancies`:
  the three sum up to 2N. The stays of the rooms (`Stays`) are as many as `occupancies`, so that at the
  2N-th every room was used twice.
- `Cleaning`: nobody is admitted; `dirty_rooms` is never below what is left to clean and to count down
  (`DirtyRoomsSuffice`), though a lost update leaves it too high; nobody has booked since, and what was
  cleaned is free (`CleanedFree`). So a cleaner opens the hotel only when every room is clean.
- `Evicted`: a guest asleep since the hotel last opened has a token, was reached by a cleaner first, or is
  in a room the eviction has still to visit. It speaks of `bookedIn` because one passed over may sleep
  through the next closing.
- `Reopening`, `Over`: a single cleaner has not posted the admissions yet; nobody comes any more.

`GoodMallocProofs` proves `TypeCorrect`, `TilesCorrect` and `DisjointCorrect` for any number of threads
that free in any order, any sizes of lists and memory, and whatever becomes of a search. The invariant
`HeapInv` says that there is a set of headers, some of which an exact fit may have overwritten with 0:

- `HeadersLead`: each of them leads to the next one or is 0, and one in use is that of a list; while
  no hole was filled to its last word (`filled`), none is 0. This is what a walk relies on, and is not
  inductive alone.
- `ListsHeld`: each list has a header of its own and no other one before its end. A list whose header
  is lost is thus still not given to anybody else: a walk that gets there goes no further.

While no header is lost a walk meets all of them (`ChainIsAll`), the last one at the end of the memory, so
that every search ends (`SearchesEnd`).

`LifoCorrect` (`LifoClientsServed`) has the stronger invariant `lifo => StackInv`: the lists lie one
after another from address 0 and one free segment holds the rest, which is how clients that free in
reverse order leave the memory. What the walk over the headers meets is a recursive function: that it
exists (`WalkExists`) is shown by the least number of steps for which it would not, and `ChainIs` then
gives its value from any set of words that the headers lead through. The assumption
`NothingPastEnd` is that the word after the memory, which `freeElem` tests when a list ends there, does
not read as a free segment of some size; section 3 says why it holds in the program.

`MergeSortProofs` proves for lists of every length and any outcome of the comparisons:

- `ReachableCorrect`, with the invariant `IInv` of three parts: `CallsInv` (`main` is at the bottom of the
  stack of calls, and a call that waits is not a merge), `ScopesInv` (there are at least as many scopes as
  calls) and `PagesInv` (in every scope the name of the list leads to the struct of `main`, and only the
  top scope of a running merge has a temporary list). The last is stronger than what the
  program intends: the scopes left by the leaves hold a copy of the same pointer, which is why
  ending the wrong scope does no harm.
- `TypeCorrect` and `TilesCorrect`, with two more parts: `FramesInv` (each call keeps to its part of the
  list, the indices of a merge to their halves, which is more than `TypeOK` says of them) and
  `MemInv` (the list at address 0, the temporary list right behind it, the rest free). The headers are never overwritten by a value,
  since the words of an element are inside its list. `NothingPastEnd` is assumed as above.
- `SortCorrect` (`CallsSort`), with `SortInv`: a call works on exactly the part its caller waits for, and inside
  what any call below it waits for (`Nested`), so that the copy back of a merge leaves alone the first
  halves that callers keep (`HalfDone`). What a merge has taken is ordered and not greater than what it has not
  (`Took`), and of each value it has taken as many as there were in what it took them from; so a copy
  back orders the part and loses nothing (`CopiedBack`, by cardinalities and a bijection).

`SharedGraphProofs` proves for every number of consumers, rounds and productions:

- `SharesCorrect`, from what `Ceil` returns (`CeilBounds`) and the arithmetic of the
  bounds (`SharesMeet`). The assumption `NConsumers * (NConsumers - 1) <= InitialNodes` is needed: with 10
  consumers and, say, 21 nodes the last share would be negative. The graph only grows
  (`NodesGrowKept`); `main_process.cpp:12` starts with 4039 nodes and there are 10 consumers.
- `TypeCorrect` and `OneProduct` (`ReadsOneProduct`), with the invariant `GraphInv`: every complete segment
  holds a product, each an extension of those before (`Published`); of the one being filled the first
  words are there (`Filling`); and a consumer that was not `torn` has either a part of the edges of the
  segment it reads or all of those of the one it read last (`Undisturbed`). That products only grow
  is what lets a consumer add the new edges to those of an older segment.
- `PathsCorrect` (`PathsShortest`): the distances are the true ones and the parents lead along shortest
  paths, from scratch and with `-optimize`, for any number of nodes. The invariant `PathsInv` adds to
  `GraphInv`:
  - `GrownInv`: the nodes of every product are connected, also if only the first M of them are
    taken (`Grown`); a later product links no two nodes of an earlier one anew (`NoNewLinks`), as
    a production gives edges to new nodes only; and the nodes stay below `Infinity`. Without the second
    part what `optimised_dijkstra` keeps of the last round would be out of date.
  - `Computed`: what a consumer has computed is right for the product it holds, and while it reads the
    next one, right for that one as far as the old nodes go (`AttachComputes`).

The argument for the algorithms goes through `Solved`, a condition on single edges: the sources are at
distance 0, a parent is a neighbour one nearer, and neighbours are at most one apart. A solved graph has
as its k-th neighbourhood of the sources the nodes at distance at most k (`WithinIs`), so it is
`Correct` (`SolvedIsCorrect`). That each algorithm solves its graph is an invariant of its loop:

- `SearchSolves`: the queue of the breadth-first search is ordered by distances that are at most one
  apart, and the nodes that left it have no neighbour further away than one edge (`Searched`).
- `DijkstraSolves`: the nodes taken out of the set are the nearest ones, and their neighbours are known
  (`Settled`). The first node is used twice, once while it is still in the set; the second time changes
  nothing (`Settled` with k = 0 and 1).
- `JoinAllSolves`: after a node has joined, the graph up to it is solved (`JoinSolves`), if the source taken
  for it is a nearest one (`NearestIs`) and the stack leads to the node next to it (`TowardsIs`). A node whose
  way over the new node is not longer than its old one takes that way; its parent on it does the same
  or is the new node, so a parent stays one nearer than its node.

The loops are recursive functions, which exist and have values in the set they keep to (`Iterates`);
that every node is reached at the end follows from `Connected`.

`HistoryProofs` proves for any number of shells and lines:

- `TypeCorrect` and `CursorCorrect`; the cursor is inside or just past an empty history.
- `RecallCorrect` and `FileCorrect`, for as long as no shell emptied the file while another was saving
  to it or loading it (`~overlapped`), whatever a read returns. In the invariant (`Orderly`) a history
  is the latest lines its shell has seen; the lines of the file are the first of the last history
  that was saved; what a saving shell has still to write is the rest of it; and what a loading shell
  has read is the beginning of the file as it is now (`Loads`), which only grows meanwhile. Killed while it saves, a shell leaves a shorter
  file with whole lines, which the next shell reads back as they were (`LinesAppend`, `FileFits`).

The assumptions are those named in the modules: a graph whose adjacency vectors have no
duplicates, disjoint non-empty pools of threads of which the pushers are finitely many, `R <= N`, the one on
shares above, lists that are smaller than the memory, and for the merge sort a memory that holds the list and the
temporary list. Only `PathsCorrect` uses `InputAssumption`: the graph
of the input file is connected and stays smaller than `Infinity`. The file is not in the repository;
the code reads it as connected, since for a node without a path to a source it follows the parent -1
(consumer.cpp:170, consumer.cpp:269). Two more are hypotheses of the theorems that need them, `Regular` and
`NothingPastEnd`.

**Only model-checked.** Liveness (`EveryActionRead`, `SoleWaitEnds`, `ZombiesReaped`, `Finishes`), which
is beyond the prover. Every other property of the passing runs is a theorem; those of the violated
runs are false.

Induction over a number is done by its least counterexample (`LeastNatural`), which needs no
theorem with an operator for a parameter. A recursive function can be used only where
its existence is shown in the same way. Some operators are written so that the provers can use them:
`InOrder` gives the members of a set by their ranks and `Lines` uses it, `Taken` is the number of
words of the lists, `FreeNamed` is called once for each name; `Adjacent`, `Visit`, `Update` and `Join`
say which nodes change instead of folding over the edges.

## 5. Not modelled

Log and terminal wording, action kinds and ids, durations, the loading of the graph of sns, the
character-level parsing of the shell and its wildcards, the `/proc` walks of delep and squashbug, shell
scripts, the echo loop of `problem2.c`. They keep no state, or only what the operating system gives them.

The threads of `problem3.c` are left out although they are concurrent: all four use `aindex`, `A` and `B`
outside any lock, and the lab test states nothing that would hold.

The race of two pushers of sns that write the same common-neighbour count is left out: both write the same
value. In `Jobs`: file descriptors and redirection (but for its failure), stops by SIGTTIN, signals
from other terminals, a fork of delep that fails (delep.cpp:157; the shell then waits for any child), `C_handler` and `Z_handler` (the flag of the first decides only whether
the end of input ends the shell, nothing reads that of the second). In `SharedGraph`: the files the
consumers write, and failures of `shmget` for want of memory. In `MergeSort`: the mutex of the
allocator, as the program has one thread.

## 6. Plan

What would come next, in this order:

1. `Jobs` - an abstract table of jobs that `Jobs` refines for jobs started alone.
2. `Hotel` - what still holds of the later cycles with two cleaners.
