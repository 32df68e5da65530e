------------------------------- MODULE Hotel -------------------------------
(***************************************************************************)
(* The hotel of Assignment 5: guest_thread (guestthread.cpp) and           *)
(* cleaner_thread (cleanerthread.cpp), with the semaphores, counters and   *)
(* rooms that mainthread.cpp sets up.                                      *)
(*                                                                         *)
(* roomAllocationSemaphore is a variable: the steps of its sections are    *)
(* interleaved with those of the cleaners, which do not take it.  The      *)
(* sections of roomCleanSemaphore and printSemaphore are one step each.    *)
(* The durations (sleep_time, stay_time, clean_time, occupied_time) are    *)
(* left out: a thread that sleeps may wake at any moment.                  *)
(***************************************************************************)
EXTENDS Integers, FiniteSets

CONSTANTS
  N,                \* rooms
  Guests, Cleaners,
  priority,         \* [Guests -> Nat \ {0}], drawn by main
  Nobody,           \* the guest_id -1
  MaxCleanings,     \* bound: guests stop arriving after so many closings
  SpuriousWakeups   \* whether pthread_cond_wait may return unsignalled

Rooms == 1..N

ASSUME HotelAssumption ==
  /\ N \in Nat \ {0}
  /\ IsFiniteSet(Guests) /\ IsFiniteSet(Cleaners) /\ Guests \cap Cleaners = {}
  /\ priority \in [Guests -> Nat \ {0}]
  /\ Nobody \notin Guests
  /\ MaxCleanings \in Nat
  /\ SpuriousWakeups \in BOOLEAN

VARIABLES
  availability, prevOccupancy, guestOf,    \* the fields of each room
  currGuests, occupancies, dirtyRooms, beingCleaned,
  roomAvailability, roomAllocation,        \* two semaphores
  sleepSemaphore,                          \* one per guest
  guestPc, roomOf,                         \* a guest: label, roomno
  evicting,                                \* the next room the closing guest visits
  loadedGuests,                            \* curr_guests as the guest that leaves read it
  cleanerPc, loaded,                       \* a cleaner: label, dirty_rooms as it read it
  closings, bookedIn                       \* history: how often the hotel was closed,
                                           \* and how often when a guest booked its room

rooms == <<availability, prevOccupancy, guestOf>>
counters == <<currGuests, occupancies, dirtyRooms, beingCleaned>>
semaphores == <<roomAvailability, roomAllocation, sleepSemaphore>>
guestVars == <<guestPc, roomOf, evicting, loadedGuests, closings, bookedIn>>
cleanerVars == <<cleanerPc, loaded>>
vars == <<rooms, counters, semaphores, guestVars, cleanerVars>>

GuestLabels == {"arrive", "request", "close", "evict", "post", "stay", "timeout",
                "vacate", "load", "store"}
CleanerLabels == {"check", "block", "wait", "dirty", "pick", "load", "store",
                  "last", "zero_guests", "not_cleaned", "reopen"}

Init ==
  /\ availability = [i \in Rooms |-> TRUE]
  /\ prevOccupancy = [i \in Rooms |-> 0]
  /\ guestOf = [i \in Rooms |-> Nobody]
  /\ currGuests = 0 /\ occupancies = 0 /\ dirtyRooms = 0 /\ beingCleaned = FALSE
  /\ roomAvailability = 2 * N /\ roomAllocation = 1
  /\ sleepSemaphore = [g \in Guests |-> 0]
  /\ guestPc = [g \in Guests |-> "arrive"] /\ roomOf = [g \in Guests |-> 1]
  /\ evicting = 1 /\ loadedGuests = 0
  /\ cleanerPc = [c \in Cleaners |-> "check"] /\ loaded = [c \in Cleaners |-> 0]
  /\ closings = 0 /\ bookedIn = [g \in Guests |-> 0]

-----------------------------------------------------------------------------
(* allotroom *)

Least(S) == CHOOSE i \in S : \A j \in S : i <= j
Greatest(S) == CHOOSE i \in S : \A j \in S : j <= i

\* Mutant: a free room is taken however often it was occupied.
FreeRoomUnlimited ==
  LET free == {i \in Rooms : availability[i]} IN
  IF free # {} THEN {Greatest(free)} ELSE {}

\* The scan stops at the first free room that is fresh; without one it ends on
\* the last free room that was occupied once.
FreeRoom ==
  LET fresh == {i \in Rooms : availability[i] /\ prevOccupancy[i] = 0}
      once == {i \in Rooms : availability[i] /\ prevOccupancy[i] = 1}
  IN IF fresh # {} THEN {Least(fresh)}
     ELSE IF once # {} THEN {Greatest(once)} ELSE {}

\* Mutant: the room is taken although it was occupied twice.
RoomToVacateUnlimited(g) ==
  LET lower == {i \in Rooms : guestOf[i] # Nobody /\ priority[guestOf[i]] < priority[g]}
  IN IF lower = {} THEN {} ELSE {Least(lower)}

\* The first room, occupied once, whose guest has the highest of the priorities
\* below that of g.  For a free room the code reads priority[-1], in glibc the
\* upper half of the size word of the block: 0, never above max_lesser_priority.
RoomToVacate(g) ==
  LET lower == {i \in Rooms : /\ prevOccupancy[i] = 1 /\ guestOf[i] # Nobody
                              /\ priority[guestOf[i]] < priority[g]}
      best == {i \in lower : \A j \in lower :
                 priority[guestOf[j]] <= priority[guestOf[i]]}
  IN IF best = {} THEN {} ELSE {Least(best)}

Allotted(g) == IF currGuests < N THEN FreeRoom
               ELSE IF currGuests = N THEN RoomToVacate(g) ELSE {}

-----------------------------------------------------------------------------
(* guest_thread *)

GuestGoto(g, from, to) == guestPc[g] = from /\ guestPc' = [guestPc EXCEPT ![g] = to]

\* One of the 2N admissions since the last cleaning, then some sleep.
GuestArrive(g) ==
  /\ GuestGoto(g, "arrive", "request")
  /\ closings < MaxCleanings
  /\ roomAvailability > 0
  /\ roomAvailability' = roomAvailability - 1
  /\ UNCHANGED <<rooms, counters, roomAllocation, sleepSemaphore, roomOf,
                 evicting, loadedGuests, closings, bookedIn, cleanerVars>>

\* The guest that holds room i gets a token to leave.
PostSleep(i) == [sleepSemaphore EXCEPT ![guestOf[i]] = @ + 1]

\* A room is found: book it.  The guest of a room taken by priority gets a token
\* to leave.  The guest of the 2N-th occupancy keeps roomAllocation and closes.
GuestAllotted(g) ==
  /\ guestPc[g] = "request" /\ roomAllocation = 1
  /\ \E i \in Allotted(g) :
       /\ sleepSemaphore' = IF currGuests = N THEN PostSleep(i) ELSE sleepSemaphore
       /\ currGuests' = IF currGuests = N THEN currGuests ELSE currGuests + 1
       /\ availability' = [availability EXCEPT ![i] = FALSE]
       /\ prevOccupancy' = [prevOccupancy EXCEPT ![i] = @ + 1]
       /\ guestOf' = [guestOf EXCEPT ![i] = g]
       /\ roomOf' = [roomOf EXCEPT ![g] = i]
  /\ bookedIn' = [bookedIn EXCEPT ![g] = closings]
  /\ occupancies' = occupancies + 1
  /\ IF occupancies' = 2 * N
     THEN guestPc' = [guestPc EXCEPT ![g] = "close"] /\ roomAllocation' = 0
     ELSE guestPc' = [guestPc EXCEPT ![g] = "stay"] /\ roomAllocation' = 1
  /\ UNCHANGED <<dirtyRooms, beingCleaned, roomAvailability, evicting, loadedGuests,
                 closings, cleanerVars>>

\* No room: give the admission back.
GuestTurnedAway(g) ==
  /\ GuestGoto(g, "request", "arrive") /\ roomAllocation = 1
  /\ Allotted(g) = {}
  /\ roomAvailability' = roomAvailability + 1
  /\ UNCHANGED <<rooms, counters, roomAllocation, sleepSemaphore, roomOf,
                 evicting, loadedGuests, closings, bookedIn, cleanerVars>>

\* Mutant: the eviction starts at the second room.
GuestCloseFromSecond(g) ==
  /\ GuestGoto(g, "close", "evict")
  /\ dirtyRooms' = N /\ beingCleaned' = TRUE /\ occupancies' = 0
  /\ evicting' = 2 /\ closings' = closings + 1
  /\ UNCHANGED <<rooms, currGuests, semaphores, roomOf, loadedGuests, bookedIn,
                 cleanerVars>>

GuestClose(g) ==
  /\ GuestGoto(g, "close", "evict")
  /\ dirtyRooms' = N /\ beingCleaned' = TRUE /\ occupancies' = 0
  /\ evicting' = 1 /\ closings' = closings + 1
  /\ UNCHANGED <<rooms, currGuests, semaphores, roomOf, loadedGuests, bookedIn,
                 cleanerVars>>

\* One room of the eviction loop: the test of its availability.
GuestEvict(g) ==
  /\ guestPc[g] = "evict" /\ evicting \in Rooms
  /\ IF availability[evicting]
     THEN evicting' = evicting + 1 /\ UNCHANGED guestPc
     ELSE GuestGoto(g, "evict", "post") /\ UNCHANGED evicting
  /\ UNCHANGED <<rooms, counters, semaphores, roomOf, loadedGuests, closings,
                 bookedIn, cleanerVars>>

\* The guest_id of the room is read only now: a cleaner may have set it to -1.
\* sleepSemaphore[-1] is outside the vector, with glibc's layout in the last
\* cleanerMutex, behind the word of its lock: a token that no guest gets.
\* Also the closing guest gets a token.
GuestPost(g) ==
  /\ GuestGoto(g, "post", "evict")
  /\ sleepSemaphore' = IF guestOf[evicting] = Nobody THEN sleepSemaphore
                                                     ELSE PostSleep(evicting)
  /\ evicting' = evicting + 1
  /\ UNCHANGED <<rooms, counters, roomAvailability, roomAllocation, roomOf,
                 loadedGuests, closings, bookedIn, cleanerVars>>

\* pthread_cond_broadcast, without any cleanerMutex; the guest leaves without
\* waiting on its sleepSemaphore.
GuestBroadcast(g) ==
  /\ GuestGoto(g, "evict", "arrive") /\ evicting \notin Rooms
  /\ cleanerPc' = [c \in Cleaners |->
                     IF cleanerPc[c] = "wait" THEN "check" ELSE cleanerPc[c]]
  /\ roomAllocation' = 1
  /\ UNCHANGED <<rooms, counters, roomAvailability, sleepSemaphore, roomOf,
                 evicting, loadedGuests, closings, bookedIn, loaded>>

\* sem_timedwait: a token ends the stay at once, whoever it was meant for.
GuestEvicted(g) ==
  /\ GuestGoto(g, "stay", "arrive") /\ sleepSemaphore[g] > 0
  /\ sleepSemaphore' = [sleepSemaphore EXCEPT ![g] = @ - 1]
  /\ UNCHANGED <<rooms, counters, roomAvailability, roomAllocation, roomOf,
                 evicting, loadedGuests, closings, bookedIn, cleanerVars>>

GuestTimeout(g) ==
  /\ GuestGoto(g, "stay", "timeout") /\ sleepSemaphore[g] = 0
  /\ UNCHANGED <<rooms, counters, semaphores, roomOf, evicting, loadedGuests,
                 closings, bookedIn, cleanerVars>>

HasRoom(g) == ~availability[roomOf[g]] /\ guestOf[roomOf[g]] = g

\* After a timeout: free the room if it is still this guest's.
GuestLeave(g) ==
  /\ guestPc[g] = "timeout" /\ roomAllocation = 1
  /\ IF HasRoom(g)
     THEN /\ availability' = [availability EXCEPT ![roomOf[g]] = TRUE]
          /\ guestOf' = [guestOf EXCEPT ![roomOf[g]] = Nobody]
          /\ guestPc' = [guestPc EXCEPT ![g] = "vacate"] /\ roomAllocation' = 0
     ELSE /\ guestPc' = [guestPc EXCEPT ![g] = "arrive"]
          /\ UNCHANGED <<availability, guestOf, roomAllocation>>
  /\ UNCHANGED <<prevOccupancy, counters, roomAvailability, sleepSemaphore,
                 roomOf, evicting, loadedGuests, closings, bookedIn, cleanerVars>>

\* being_cleaned is read with the room freed already.
GuestVacate(g) ==
  /\ \/ GuestGoto(g, "vacate", "load") /\ ~beingCleaned /\ UNCHANGED roomAllocation
     \/ GuestGoto(g, "vacate", "arrive") /\ beingCleaned /\ roomAllocation' = 1
  /\ UNCHANGED <<rooms, counters, roomAvailability, sleepSemaphore, roomOf,
                 evicting, loadedGuests, closings, bookedIn, cleanerVars>>

\* curr_guests-- is a load and a store: the lock keeps other guests out, but not
\* the cleaner that sets curr_guests to 0.
GuestLoad(g) ==
  /\ GuestGoto(g, "load", "store")
  /\ loadedGuests' = currGuests
  /\ UNCHANGED <<rooms, counters, semaphores, roomOf, evicting, closings, bookedIn,
                 cleanerVars>>

\* Mutant: a guest that leaves gives its admission back.
GuestStoreReturns(g) ==
  /\ GuestGoto(g, "store", "arrive")
  /\ currGuests' = loadedGuests - 1
  /\ roomAllocation' = 1 /\ roomAvailability' = roomAvailability + 1
  /\ UNCHANGED <<rooms, occupancies, dirtyRooms, beingCleaned, sleepSemaphore,
                 roomOf, evicting, loadedGuests, closings, bookedIn, cleanerVars>>

GuestStore(g) ==
  /\ GuestGoto(g, "store", "arrive")
  /\ currGuests' = loadedGuests - 1
  /\ roomAllocation' = 1
  /\ UNCHANGED <<rooms, occupancies, dirtyRooms, beingCleaned, roomAvailability,
                 sleepSemaphore, roomOf, evicting, loadedGuests, closings, bookedIn,
                 cleanerVars>>

GuestThread(g) ==
  \/ GuestArrive(g) \/ GuestAllotted(g) \/ GuestTurnedAway(g) \/ GuestClose(g)
  \/ GuestEvict(g) \/ GuestPost(g) \/ GuestBroadcast(g) \/ GuestEvicted(g)
  \/ GuestTimeout(g) \/ GuestLeave(g) \/ GuestVacate(g) \/ GuestLoad(g) \/ GuestStore(g)

-----------------------------------------------------------------------------
(* cleaner_thread *)

CleanerGoto(c, from, to) ==
  cleanerPc[c] = from /\ cleanerPc' = [cleanerPc EXCEPT ![c] = to]

\* The while loop around pthread_cond_wait reads being_cleaned: the mutex of
\* the cleaner keeps nobody else out.
CleanerCheck(c) ==
  /\ \/ CleanerGoto(c, "check", "dirty") /\ beingCleaned
     \/ CleanerGoto(c, "check", "block") /\ ~beingCleaned
  /\ UNCHANGED <<rooms, counters, semaphores, guestVars, loaded>>

CleanerBlock(c) ==
  /\ CleanerGoto(c, "block", "wait")
  /\ UNCHANGED <<rooms, counters, semaphores, guestVars, loaded>>

CleanerDirty(c) ==
  /\ \/ CleanerGoto(c, "dirty", "check") /\ dirtyRooms = 0
     \/ CleanerGoto(c, "dirty", "pick") /\ dirtyRooms # 0
  /\ UNCHANGED <<rooms, counters, semaphores, guestVars, loaded>>

Unclean == {i \in Rooms : prevOccupancy[i] = 2}

\* The first room occupied twice, marked clean before the cleaner sleeps.
CleanerPick(c) ==
  /\ CleanerGoto(c, "pick", "load") /\ Unclean # {}
  /\ LET i == Least(Unclean) IN
       /\ availability' = [availability EXCEPT ![i] = TRUE]
       /\ prevOccupancy' = [prevOccupancy EXCEPT ![i] = 0]
       /\ guestOf' = [guestOf EXCEPT ![i] = Nobody]
  /\ UNCHANGED <<counters, semaphores, guestVars, loaded>>

CleanerNoRoom(c) ==
  /\ CleanerGoto(c, "pick", "check") /\ Unclean = {}
  /\ UNCHANGED <<rooms, counters, semaphores, guestVars, loaded>>

\* dirty_rooms-- is a load and a store: no lock protects it.
CleanerLoad(c) ==
  /\ CleanerGoto(c, "load", "store")
  /\ loaded' = [loaded EXCEPT ![c] = dirtyRooms]
  /\ UNCHANGED <<rooms, counters, semaphores, guestVars>>

CleanerStore(c) ==
  /\ CleanerGoto(c, "store", "last")
  /\ dirtyRooms' = loaded[c] - 1
  /\ UNCHANGED <<rooms, currGuests, occupancies, beingCleaned, semaphores,
                 guestVars, loaded>>

\* Mutant: the cleaner that finishes any room opens the hotel.
CleanerLastUnchecked(c) ==
  /\ \/ CleanerGoto(c, "last", "zero_guests") /\ beingCleaned
     \/ CleanerGoto(c, "last", "check") /\ ~beingCleaned
  /\ UNCHANGED <<rooms, counters, semaphores, guestVars, loaded>>

CleanerLast(c) ==
  /\ \/ CleanerGoto(c, "last", "zero_guests") /\ beingCleaned /\ dirtyRooms = 0
     \/ CleanerGoto(c, "last", "check") /\ ~(beingCleaned /\ dirtyRooms = 0)
  /\ UNCHANGED <<rooms, counters, semaphores, guestVars, loaded>>

CleanerZeroGuests(c) ==
  /\ CleanerGoto(c, "zero_guests", "not_cleaned")
  /\ currGuests' = 0
  /\ UNCHANGED <<rooms, occupancies, dirtyRooms, beingCleaned, semaphores,
                 guestVars, loaded>>

CleanerNotCleaned(c) ==
  /\ CleanerGoto(c, "not_cleaned", "reopen")
  /\ beingCleaned' = FALSE
  /\ UNCHANGED <<rooms, currGuests, occupancies, dirtyRooms, semaphores,
                 guestVars, loaded>>

\* 2N posts under roomAllocationSemaphore.
CleanerReopen(c) ==
  /\ CleanerGoto(c, "reopen", "check") /\ roomAllocation = 1
  /\ roomAvailability' = roomAvailability + 2 * N
  /\ UNCHANGED <<rooms, counters, roomAllocation, sleepSemaphore, guestVars, loaded>>

CleanerThread(c) ==
  \/ CleanerCheck(c) \/ CleanerBlock(c) \/ CleanerDirty(c) \/ CleanerPick(c)
  \/ CleanerNoRoom(c) \/ CleanerLoad(c) \/ CleanerStore(c) \/ CleanerLast(c)
  \/ CleanerZeroGuests(c) \/ CleanerNotCleaned(c) \/ CleanerReopen(c)

\* pthread_cond_wait may return although nobody signalled.
CleanerWake(c) ==
  /\ SpuriousWakeups
  /\ CleanerGoto(c, "wait", "check")
  /\ UNCHANGED <<rooms, counters, semaphores, guestVars, loaded>>

Next ==
  \/ \E g \in Guests : GuestThread(g)
  \/ \E c \in Cleaners : CleanerThread(c) \/ CleanerWake(c)

Spec == Init /\ [][Next]_vars

\* Every thread that can run is scheduled.  A guest whose stay is over times out
\* or finds a token; nothing is assumed of spurious wakeups.
FairSpec ==
  /\ Spec
  /\ \A g \in Guests : WF_vars(GuestThread(g))
  /\ \A c \in Cleaners : WF_vars(CleanerThread(c))

-----------------------------------------------------------------------------
(* Properties *)

\* The values every variable ranges over.
TypeOK ==
  /\ availability \in [Rooms -> BOOLEAN]
  /\ prevOccupancy \in [Rooms -> 0..2]
  /\ guestOf \in [Rooms -> Guests \cup {Nobody}]
  /\ currGuests \in Int /\ occupancies \in 0..(2 * N)
  /\ dirtyRooms \in Int /\ beingCleaned \in BOOLEAN
  /\ roomAvailability \in Nat /\ roomAllocation \in {0, 1}
  /\ sleepSemaphore \in [Guests -> Nat]
  /\ guestPc \in [Guests -> GuestLabels] /\ roomOf \in [Guests -> Rooms]
  /\ evicting \in 1..(N + 1)
  /\ cleanerPc \in [Cleaners -> CleanerLabels] /\ loaded \in [Cleaners -> Int]
  /\ loadedGuests \in Int
  /\ closings \in Nat /\ bookedIn \in [Guests -> Nat]

\* When the hotel closes, every room was occupied twice since it was last
\* cleaned: occupancies, which counts for the whole hotel (guestthread.cpp:102),
\* and the prev_occupancy of the rooms agree at that moment.
TwiceBeforeCleaning ==
  [][~beingCleaned /\ beingCleaned' => \A i \in Rooms : prevOccupancy[i] = 2]_vars

\* When the hotel opens again, every room is marked clean, free and nobody's:
\* dirty_rooms, decremented without a lock (cleanerthread.cpp:62), reaches 0 only
\* after the last room, and no guest that wakes late books or keeps one.
OpensClean ==
  [][beingCleaned /\ ~beingCleaned' =>
       \A i \in Rooms : availability[i] /\ prevOccupancy[i] = 0 /\ guestOf[i] = Nobody]_vars

\* While the hotel is cleaned no guest is being admitted: the 2N admissions are
\* all used when occupancies reaches 2N, so guests wait at roomAvailability.
NobodyAdmittedWhileCleaning ==
  beingCleaned => \A g \in Guests : guestPc[g] # "request"

\* The guests still asleep in the stay they began since the hotel last opened, when
\* the closing guest has gone through the rooms.
AsleepAtClosing ==
  {g \in Guests : /\ guestPc[g] = "stay" /\ bookedIn[g] = closings - 1
                  /\ evicting \notin Rooms /\ \E h \in Guests : guestPc[h] = "evict"}

\* The eviction (guestthread.cpp:107-111) passes over a guest only when a cleaner
\* was at its room first: every other guest asleep has a token to leave, from the
\* loop or from the guest that took its room by priority (line 56).
EvictionMissesOnlyCleaned ==
  \A g \in AsleepAtClosing : sleepSemaphore[g] > 0 \/ prevOccupancy[roomOf[g]] = 0

\* A guest "sleeps until the sleep is completed or some other thread evicts it"
\* (the design document): it is woken early only when its room was taken or the
\* hotel is closed.
WokenOnlyWhenEvicted ==
  [][\A g \in Guests :
       guestPc[g] = "stay" /\ guestPc'[g] = "arrive" => beingCleaned \/ ~HasRoom(g)]_vars

\* "If all rooms get cleaned then one of the cleaner threads marks all the rooms
\* as available" (the design document): a hotel that is closed opens again.
CleaningEnds == beingCleaned ~> ~beingCleaned
=============================================================================
