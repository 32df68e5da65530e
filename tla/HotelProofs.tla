----------------------------- MODULE HotelProofs -----------------------------
(***************************************************************************)
(* Types, the section of roomAllocationSemaphore, and one cycle of the      *)
(* hotel: from the first admission to the end of the cleaning.             *)
(*                                                                         *)
(* With two cleaners both may find dirty_rooms at 0 and post 2N admissions  *)
(* each, so that the cycles after the first are not regular.  What is said  *)
(* of a cycle here is said of the first one, and of all of them if there    *)
(* is one cleaner.                                                          *)
(***************************************************************************)
EXTENDS Hotel, FiniteSetTheorems, WellFoundedInduction, TLAPS

\* The sections of roomAllocationSemaphore that take several steps.
Locked(g) == guestPc[g] \in {"close", "evict", "post", "vacate", "load", "store"}

\* The semaphore is 0 while one guest is in such a section; the guest of the
\* 2N-th occupancy is in it until it resets the count, and posts for a room.
LockInv ==
  /\ roomAllocation = 0 <=> \E g \in Guests : Locked(g)
  /\ \A g, h \in Guests : Locked(g) /\ Locked(h) => g = h
  /\ \A g \in Guests : guestPc[g] = "close" => occupancies = 2 * N
  /\ occupancies = 2 * N => \E g \in Guests : guestPc[g] = "close"
  /\ \A g \in Guests : guestPc[g] = "post" => evicting \in Rooms

\* One cleaner, or one closing.  Two cleaners that both find dirty_rooms at 0 post
\* 2N admissions each, and the next cycle is not counted as this one is.
OneCleaner == \A c, d \in Cleaners : c = d
Regular == MaxCleanings <= 1 \/ OneCleaner

Requesting == {g \in Guests : guestPc[g] = "request"}

\* The occupancies of the rooms since they were cleaned: <<room, first or second>>.
Stays == {s \in Rooms \X {1, 2} : s[2] <= prevOccupancy[s[1]]}

NobodyArrives ==
  roomAvailability = 0 /\ Requesting = {} /\ \A g \in Guests : guestPc[g] # "close"

\* An admission is at the semaphore, with a guest, or counted in occupancies; what
\* occupancies counts, the rooms count too.
Opening ==
  /\ \A c \in Cleaners : cleanerPc[c] \in {"check", "block", "wait"}
  /\ roomAvailability + Cardinality(Requesting) + occupancies = 2 * N
  /\ Cardinality(Stays) = occupancies
  /\ \A g \in Guests : bookedIn[g] <= closings
  /\ \A g \in Guests : guestPc[g] = "stay" /\ bookedIn[g] = closings =>
                        sleepSemaphore[g] > 0 \/ HasRoom(g)

\* What is left to subtract from dirty_rooms: the rooms that nobody has cleaned and
\* the cleaners that have not stored their subtraction.
CountedDown == {c \in Cleaners : cleanerPc[c] \in {"load", "store"}}
ToCount == Cardinality(Unclean) + Cardinality(CountedDown)

\* A lost update of dirty_rooms leaves it too high, never too low.
DirtyRoomsSuffice ==
  /\ dirtyRooms >= ToCount
  /\ \A c \in Cleaners :
       /\ cleanerPc[c] = "store" => loaded[c] >= ToCount
       /\ cleanerPc[c] \in {"zero_guests", "not_cleaned"} => Unclean = {}
       /\ cleanerPc[c] # "reopen"

\* Nobody booked a room since the closing.
NobodyBooked == \A g \in Guests : bookedIn[g] < closings

\* A guest asleep since the hotel last opened has a token, was reached by a cleaner
\* first, or is in a room that the eviction loop has still to visit.
Passed(g) ==
  \/ sleepSemaphore[g] > 0
  \/ prevOccupancy[roomOf[g]] = 0
  \/ HasRoom(g) /\ evicting <= roomOf[g]

Evicting(h) == guestPc[h] \in {"evict", "post"}
Evicted ==
  \A h \in Guests : Evicting(h) =>
    \A g \in Guests : guestPc[g] = "stay" /\ bookedIn[g] = closings - 1 => Passed(g)

\* A room that was cleaned is free.
CleanedFree ==
  \A i \in Rooms : prevOccupancy[i] = 0 => availability[i] /\ guestOf[i] = Nobody

Cleaning ==
  /\ closings >= 1 /\ occupancies = 0 /\ NobodyArrives
  /\ \A i \in Rooms : prevOccupancy[i] # 1
  /\ DirtyRoomsSuffice /\ NobodyBooked /\ CleanedFree

\* The only cleaner has opened the hotel and not yet posted the admissions.
Reopening ==
  /\ NobodyArrives /\ occupancies = 0 /\ Stays = {} /\ NobodyBooked
  /\ \A c \in Cleaners : cleanerPc[c] = "reopen"

\* After the last closing that the bound allows.
Over == closings >= 1 /\ Requesting = {} /\ \A g \in Guests : guestPc[g] # "close"

Phase == IF beingCleaned THEN Cleaning
         ELSE Opening \/ (OneCleaner /\ Reopening) \/ (MaxCleanings <= 1 /\ Over)

IInv == TypeOK /\ LockInv /\ Phase /\ Evicted

-----------------------------------------------------------------------------
(* The rooms that allotroom and the cleaners choose *)

\* A set of naturals has a least member.
LEMMA LeastNatural ==
  ASSUME NEW S, S \subseteq Nat, S # {}
  PROVE  \E x \in S : \A y \in S : x <= y
<1>1. IsWellFoundedOn(OpToRel(<, Nat), Nat)
  BY NatLessThanWellFounded
<1>2. PICK x \in S : \A y \in S : ~ (<<y, x>> \in OpToRel(<, Nat))
  BY <1>1, WFMin
<1>3. \A y \in S : ~ (y < x)
  BY <1>2 DEF OpToRel
<1> QED
  BY <1>3

\* The first room of a set of rooms, and the last.
LEMMA LeastRoom == ASSUME NEW S, S \subseteq Rooms, S # {} PROVE Least(S) \in S
<1>1. S \subseteq Nat
  BY DEF Rooms
<1>2. PICK x \in S : \A y \in S : x <= y
  BY <1>1, LeastNatural
<1> QED
  BY <1>2 DEF Least

LEMMA GreatestRoom == ASSUME NEW S, S \subseteq Rooms, S # {} PROVE Greatest(S) \in S
<1> DEFINE T == {i \in Rooms : N - i \in S}
           U == {N - i : i \in S}
<1>1. U \subseteq Nat /\ U # {}
  BY HotelAssumption DEF Rooms
<1>2. PICK x \in U : \A y \in U : x <= y
  BY <1>1, LeastNatural
<1>3. PICK i \in S : x = N - i
  OBVIOUS
<1>4. \A j \in S : j <= i
  BY <1>2, <1>3, HotelAssumption DEF Rooms
<1> QED
  BY <1>4 DEF Greatest

\* A room that is allotted was occupied at most once.
LEMMA AllottedRoom ==
  ASSUME TypeOK, NEW g \in Guests, NEW i \in Allotted(g)
  PROVE  i \in Rooms /\ prevOccupancy[i] \in {0, 1}
<1>1. CASE i \in FreeRoom
  <2> DEFINE fresh == {r \in Rooms : availability[r] /\ prevOccupancy[r] = 0}
             once == {r \in Rooms : availability[r] /\ prevOccupancy[r] = 1}
  <2>1. \/ fresh # {} /\ i = Least(fresh)
        \/ once # {} /\ i = Greatest(once)
    BY <1>1 DEF FreeRoom
  <2>2. i \in fresh \/ i \in once
    BY <2>1, LeastRoom, GreatestRoom
  <2> QED
    BY <2>2
<1>2. CASE i \in RoomToVacate(g)
  <2> DEFINE lower == {r \in Rooms : /\ prevOccupancy[r] = 1 /\ guestOf[r] # Nobody
                                     /\ priority[guestOf[r]] < priority[g]}
             best == {r \in lower : \A j \in lower :
                        priority[guestOf[j]] <= priority[guestOf[r]]}
  <2>1. best # {} /\ i = Least(best)
    BY <1>2 DEF RoomToVacate
  <2>2. i \in best
    BY <2>1, LeastRoom
  <2> QED
    BY <2>2
<1> QED
  BY <1>1, <1>2 DEF Allotted

\* The room a cleaner picks.
LEMMA PickedRoom == Unclean # {} => Least(Unclean) \in Unclean
BY LeastRoom DEF Unclean

-----------------------------------------------------------------------------
(* Types and the lock *)

\* A guest moves between labels outside the sections; the lock is not touched.
LEMMA OutsideSections ==
  ASSUME TypeOK, LockInv, NEW g \in Guests, NEW to \in GuestLabels, ~Locked(g),
         to \notin {"close", "evict", "post", "vacate", "load", "store"},
         guestPc' = [guestPc EXCEPT ![g] = to],
         UNCHANGED <<roomAllocation, occupancies, evicting>>
  PROVE  LockInv' /\ guestPc' \in [Guests -> GuestLabels]
<1>1. \A h \in Guests : Locked(h)' <=> Locked(h)
  BY DEF Locked, TypeOK
<1>2. \A h \in Guests : /\ guestPc'[h] = "close" <=> guestPc[h] = "close"
                        /\ guestPc'[h] = "post" => guestPc[h] = "post"
  BY DEF Locked, TypeOK
<1> QED
  BY <1>1, <1>2 DEF LockInv, TypeOK

\* A guest moves on in its section.
LEMMA InsideSection ==
  ASSUME TypeOK, LockInv, NEW g \in Guests, Locked(g), guestPc[g] # "close",
         NEW to \in {"evict", "post", "load", "store"}, to = "post" => evicting' \in Rooms,
         guestPc' = [guestPc EXCEPT ![g] = to],
         UNCHANGED <<roomAllocation, occupancies>>
  PROVE  LockInv' /\ guestPc' \in [Guests -> GuestLabels]
<1>1. \A h \in Guests : Locked(h)' <=> Locked(h)
  BY DEF Locked, TypeOK
<1>2. \A h \in Guests : /\ guestPc'[h] = "close" <=> guestPc[h] = "close"
                        /\ guestPc'[h] = "post" => h = g
  BY DEF Locked, TypeOK, LockInv
<1>3. \A h \in Guests : guestPc'[h] = "post" => to = "post"
  BY <1>2 DEF TypeOK
<1>4. guestPc' \in [Guests -> GuestLabels]
  BY DEF TypeOK, GuestLabels
<1> QED
  BY <1>1, <1>2, <1>3, <1>4 DEF LockInv

\* A guest leaves its section and gives the semaphore back.
LEMMA EndOfSection ==
  ASSUME TypeOK, LockInv, NEW g \in Guests, Locked(g), guestPc[g] # "close",
         guestPc' = [guestPc EXCEPT ![g] = "arrive"],
         roomAllocation' = 1, occupancies' = occupancies
  PROVE  LockInv' /\ guestPc' \in [Guests -> GuestLabels]
<1>1. \A h \in Guests : ~Locked(h)' /\ guestPc[h] # "close"
  BY DEF Locked, TypeOK, LockInv
<1>2. guestPc' \in [Guests -> GuestLabels]
  BY DEF TypeOK, GuestLabels
<1> QED
  BY <1>1, <1>2 DEF LockInv, TypeOK, Locked

\* The steps of a guest.
LEMMA GuestTypes ==
  ASSUME TypeOK, LockInv, NEW g \in Guests, GuestThread(g)
  PROVE  TypeOK' /\ LockInv'
<1> USE HotelAssumption
<1>1. CASE GuestArrive(g)
  <2>1. /\ guestPc[g] = "arrive" /\ guestPc' = [guestPc EXCEPT ![g] = "request"]
        /\ UNCHANGED <<roomAllocation, occupancies, evicting>>
    BY <1>1 DEF GuestArrive, GuestGoto, counters
  <2>2. LockInv' /\ guestPc' \in [Guests -> GuestLabels]
    BY <2>1, OutsideSections DEF GuestLabels, Locked
  <2> QED
    BY <1>1, <2>2 DEF GuestArrive, TypeOK, rooms, counters, cleanerVars
<1>2. CASE GuestTurnedAway(g)
  <2>1. /\ guestPc[g] = "request" /\ guestPc' = [guestPc EXCEPT ![g] = "arrive"]
        /\ UNCHANGED <<roomAllocation, occupancies, evicting>>
    BY <1>2 DEF GuestTurnedAway, GuestGoto, counters
  <2>2. LockInv' /\ guestPc' \in [Guests -> GuestLabels]
    BY <2>1, OutsideSections DEF GuestLabels, Locked
  <2> QED
    BY <1>2, <2>2 DEF GuestTurnedAway, TypeOK, rooms, counters, cleanerVars
<1>3. CASE GuestEvicted(g)
  <2>1. /\ guestPc[g] = "stay" /\ guestPc' = [guestPc EXCEPT ![g] = "arrive"]
        /\ UNCHANGED <<roomAllocation, occupancies, evicting>>
    BY <1>3 DEF GuestEvicted, GuestGoto, counters
  <2>2. LockInv' /\ guestPc' \in [Guests -> GuestLabels]
    BY <2>1, OutsideSections DEF GuestLabels, Locked
  <2> QED
    <3>1. sleepSemaphore[g] \in Nat /\ sleepSemaphore[g] > 0
      BY <1>3 DEF GuestEvicted, TypeOK
    <3>2. sleepSemaphore' \in [Guests -> Nat]
      BY <1>3, <3>1 DEF GuestEvicted, TypeOK
    <3> QED
      BY <1>3, <2>2, <3>2 DEF GuestEvicted, TypeOK, rooms, counters, cleanerVars
<1>4. CASE GuestTimeout(g)
  <2>1. /\ guestPc[g] = "stay" /\ guestPc' = [guestPc EXCEPT ![g] = "timeout"]
        /\ UNCHANGED <<roomAllocation, occupancies, evicting>>
    BY <1>4 DEF GuestTimeout, GuestGoto, counters, semaphores
  <2>2. LockInv' /\ guestPc' \in [Guests -> GuestLabels]
    BY <2>1, OutsideSections DEF GuestLabels, Locked
  <2> QED
    BY <1>4, <2>2 DEF GuestTimeout, TypeOK, rooms, counters, semaphores, cleanerVars
<1>5. CASE GuestVacate(g)
  <2>1. LockInv' /\ guestPc' \in [Guests -> GuestLabels] /\ roomAllocation' \in {0, 1}
    <3>1. CASE beingCleaned
      BY <1>5, <3>1, EndOfSection DEF GuestVacate, GuestGoto, Locked, counters
    <3>2. CASE ~beingCleaned
      BY <1>5, <3>2, InsideSection DEF GuestVacate, GuestGoto, Locked, counters, TypeOK
    <3> QED
      BY <3>1, <3>2
  <2> QED
    BY <1>5, <2>1 DEF GuestVacate, TypeOK, rooms, counters, cleanerVars
<1>11. CASE GuestLoad(g)
  <2>1. /\ guestPc[g] = "load" /\ guestPc' = [guestPc EXCEPT ![g] = "store"]
        /\ UNCHANGED <<roomAllocation, occupancies>>
    BY <1>11 DEF GuestLoad, GuestGoto, counters, semaphores
  <2>2. LockInv' /\ guestPc' \in [Guests -> GuestLabels]
    BY <2>1, InsideSection DEF Locked
  <2> QED
    BY <1>11, <2>2 DEF GuestLoad, TypeOK, rooms, counters, semaphores, cleanerVars
<1>12. CASE GuestStore(g)
  <2>1. LockInv' /\ guestPc' \in [Guests -> GuestLabels] /\ roomAllocation' = 1
    BY <1>12, EndOfSection DEF GuestStore, GuestGoto, Locked
  <2> QED
    BY <1>12, <2>1 DEF GuestStore, TypeOK, rooms, cleanerVars
<1>6. CASE GuestBroadcast(g)
  <2>1. LockInv' /\ guestPc' \in [Guests -> GuestLabels] /\ roomAllocation' = 1
    BY <1>6, EndOfSection DEF GuestBroadcast, GuestGoto, Locked, counters
  <2>2. cleanerPc' \in [Cleaners -> CleanerLabels]
    BY <1>6 DEF GuestBroadcast, TypeOK, CleanerLabels
  <2> QED
    BY <1>6, <2>1, <2>2 DEF GuestBroadcast, TypeOK, rooms, counters
<1>7. CASE GuestEvict(g)
  <2>1. LockInv' /\ guestPc' \in [Guests -> GuestLabels]
    <3>1. CASE availability[evicting]
      <4>1. guestPc[g] = "evict" /\ UNCHANGED <<guestPc, roomAllocation, occupancies>>
        BY <1>7, <3>1 DEF GuestEvict, counters, semaphores
      <4>2. \A h \in Guests : guestPc[h] # "post"
        BY <4>1 DEF LockInv, Locked
      <4> QED
        BY <4>1, <4>2 DEF LockInv, Locked, TypeOK
    <3>2. CASE ~availability[evicting]
      BY <1>7, <3>2, InsideSection DEF GuestEvict, GuestGoto, Locked, counters, semaphores
    <3> QED
      BY <3>1, <3>2
  <2>2. evicting' \in 1..(N + 1)
    BY <1>7 DEF GuestEvict, TypeOK, Rooms
  <2> QED
    BY <1>7, <2>1, <2>2 DEF GuestEvict, TypeOK, rooms, counters, semaphores, cleanerVars
<1>13. CASE GuestPost(g)
  <2>1. /\ guestPc[g] = "post" /\ guestPc' = [guestPc EXCEPT ![g] = "evict"]
        /\ UNCHANGED <<roomAllocation, occupancies>> /\ evicting \in Rooms
    BY <1>13 DEF GuestPost, GuestGoto, counters, LockInv
  <2>2. LockInv' /\ guestPc' \in [Guests -> GuestLabels]
    BY <2>1, InsideSection DEF Locked
  <2>3. evicting' \in 1..(N + 1)
    BY <1>13, <2>1 DEF GuestPost, TypeOK, Rooms
  <2>4. sleepSemaphore' \in [Guests -> Nat]
    BY <1>13, <2>1 DEF GuestPost, TypeOK, PostSleep
  <2> QED
    BY <1>13, <2>2, <2>3, <2>4 DEF GuestPost, TypeOK, rooms, counters, cleanerVars
<1>8. CASE GuestClose(g)
  <2>1. /\ guestPc[g] = "close" /\ guestPc' = [guestPc EXCEPT ![g] = "evict"]
        /\ occupancies' = 0 /\ roomAllocation' = roomAllocation
    BY <1>8 DEF GuestClose, GuestGoto, semaphores
  <2>2. \A h \in Guests : Locked(h)' <=> Locked(h)
    BY <2>1 DEF Locked, TypeOK
  <2>3. \A h \in Guests : guestPc'[h] # "close" /\ guestPc'[h] # "post"
    BY <2>1 DEF Locked, TypeOK, LockInv
  <2>4. LockInv'
    BY <2>1, <2>2, <2>3 DEF LockInv
  <2> QED
    BY <1>8, <2>1, <2>4
    DEF GuestClose, TypeOK, GuestLabels, rooms, semaphores, cleanerVars
<1>9. CASE GuestLeave(g)
  <2>1. CASE ~HasRoom(g)
    BY <1>9, <2>1, OutsideSections
    DEF GuestLeave, GuestLabels, TypeOK, Locked, counters, cleanerVars
  <2>2. CASE HasRoom(g)
    <3>1. /\ guestPc[g] = "timeout" /\ roomAllocation = 1 /\ roomAllocation' = 0
          /\ guestPc' = [guestPc EXCEPT ![g] = "vacate"] /\ occupancies' = occupancies
      BY <1>9, <2>2 DEF GuestLeave, counters
    <3>2. \A h \in Guests : ~Locked(h) /\ (Locked(h)' <=> h = g)
      BY <3>1 DEF Locked, TypeOK, LockInv
    <3>3. \A h \in Guests : /\ guestPc'[h] # "close" /\ guestPc[h] # "close"
                            /\ guestPc'[h] # "post"
      BY <3>1, <3>2 DEF Locked, TypeOK
    <3>4. LockInv'
      BY <3>1, <3>2, <3>3 DEF LockInv
    <3> QED
      BY <1>9, <2>2, <3>1, <3>4 DEF GuestLeave, TypeOK, GuestLabels, counters, cleanerVars
  <2> QED
    BY <2>1, <2>2
<1>10. CASE GuestAllotted(g)
  <2>1. PICK i \in Allotted(g) :
       /\ sleepSemaphore' = IF currGuests = N THEN PostSleep(i) ELSE sleepSemaphore
       /\ currGuests' = IF currGuests = N THEN currGuests ELSE currGuests + 1
       /\ availability' = [availability EXCEPT ![i] = FALSE]
       /\ prevOccupancy' = [prevOccupancy EXCEPT ![i] = @ + 1]
       /\ guestOf' = [guestOf EXCEPT ![i] = g]
       /\ roomOf' = [roomOf EXCEPT ![g] = i]
    BY <1>10 DEF GuestAllotted
  <2>2. i \in Rooms /\ prevOccupancy[i] \in {0, 1}
    BY AllottedRoom
  <2>3. /\ availability' \in [Rooms -> BOOLEAN] /\ prevOccupancy' \in [Rooms -> 0..2]
        /\ guestOf' \in [Rooms -> Guests \cup {Nobody}] /\ roomOf' \in [Guests -> Rooms]
        /\ currGuests' \in Int /\ sleepSemaphore' \in [Guests -> Nat]
    <3>1. availability' \in [Rooms -> BOOLEAN] /\ guestOf' \in [Rooms -> Guests \cup {Nobody}]
      BY <2>1, <2>2 DEF TypeOK
    <3>2. prevOccupancy' \in [Rooms -> 0..2]
      BY <2>1, <2>2 DEF TypeOK
    <3>3. roomOf' \in [Guests -> Rooms] /\ currGuests' \in Int
      BY <2>1, <2>2 DEF TypeOK
    <3>4. PostSleep(i) \in [Guests -> Nat]
      <4>1. CASE guestOf[i] \in Guests
        BY <4>1 DEF TypeOK, PostSleep
      <4>2. CASE guestOf[i] = Nobody
        BY <4>2 DEF TypeOK, PostSleep
      <4> QED
        BY <2>2, <4>1, <4>2 DEF TypeOK
    <3> QED
      BY <2>1, <3>1, <3>2, <3>3, <3>4 DEF TypeOK
  <2>4. /\ guestPc[g] = "request" /\ roomAllocation = 1 /\ occupancies' = occupancies + 1
        /\ IF occupancies' = 2 * N
           THEN guestPc' = [guestPc EXCEPT ![g] = "close"] /\ roomAllocation' = 0
           ELSE guestPc' = [guestPc EXCEPT ![g] = "stay"] /\ roomAllocation' = 1
    BY <1>10 DEF GuestAllotted
  <2>5. \A h \in Guests : ~Locked(h)
    BY <2>4 DEF LockInv
  <2>6. occupancies \in 0..(2 * N - 1)
    BY <2>5 DEF LockInv, TypeOK, Locked
  <2>7. \A h \in Guests : Locked(h)' <=> h = g /\ occupancies' = 2 * N
    BY <2>4, <2>5 DEF Locked, TypeOK
  <2>8. \A h \in Guests : guestPc'[h] = "close" <=> h = g /\ occupancies' = 2 * N
    BY <2>4, <2>5 DEF Locked, TypeOK
  <2>11. \A h \in Guests : guestPc'[h] # "post"
    BY <2>4, <2>5 DEF Locked, TypeOK
  <2>12. bookedIn' \in [Guests -> Nat]
    BY <1>10 DEF GuestAllotted, TypeOK
  <2>9. LockInv'
    BY <2>4, <2>7, <2>8, <2>11 DEF LockInv
  <2> QED
    BY <1>10, <2>3, <2>4, <2>6, <2>9, <2>12
    DEF GuestAllotted, TypeOK, GuestLabels, cleanerVars
<1> QED
  BY <1>1, <1>2, <1>3, <1>4, <1>5, <1>6, <1>7, <1>8, <1>9, <1>10, <1>11,
     <1>12, <1>13 DEF GuestThread

\* The steps of a cleaner do not touch the lock.
LEMMA CleanerTypes ==
  ASSUME TypeOK, LockInv, NEW c \in Cleaners, CleanerThread(c) \/ CleanerWake(c)
  PROVE  TypeOK' /\ LockInv'
<1> USE HotelAssumption
<1>1. LockInv'
  BY DEF CleanerThread, CleanerCheck, CleanerBlock, CleanerDirty, CleanerPick, CleanerNoRoom,
         CleanerLoad, CleanerStore, CleanerLast, CleanerZeroGuests, CleanerNotCleaned,
         CleanerReopen, CleanerWake, LockInv, Locked, counters, semaphores, guestVars
<1>2. cleanerPc' \in [Cleaners -> CleanerLabels]
  <2>1. PICK to \in CleanerLabels : cleanerPc' = [cleanerPc EXCEPT ![c] = to]
    BY DEF CleanerThread, CleanerCheck, CleanerBlock, CleanerDirty, CleanerPick, CleanerNoRoom,
           CleanerLoad, CleanerStore, CleanerLast, CleanerZeroGuests, CleanerNotCleaned,
           CleanerReopen, CleanerWake, CleanerGoto, CleanerLabels
  <2> QED
    BY <2>1 DEF TypeOK
<1>3. CASE CleanerPick(c)
  <2>1. /\ availability' \in [Rooms -> BOOLEAN] /\ prevOccupancy' \in [Rooms -> 0..2]
        /\ guestOf' \in [Rooms -> Guests \cup {Nobody}]
    <3> DEFINE i == Least(Unclean)
    <3>1. i \in Rooms
      BY <1>3, PickedRoom DEF CleanerPick, Unclean
    <3>2. /\ availability' = [availability EXCEPT ![i] = TRUE]
          /\ prevOccupancy' = [prevOccupancy EXCEPT ![i] = 0]
          /\ guestOf' = [guestOf EXCEPT ![i] = Nobody]
      BY <1>3 DEF CleanerPick
    <3> HIDE DEF i
    <3>3. availability' \in [Rooms -> BOOLEAN] /\ prevOccupancy' \in [Rooms -> 0..2]
      BY <3>1, <3>2 DEF TypeOK
    <3>4. guestOf' \in [Rooms -> Guests \cup {Nobody}]
      BY <3>1, <3>2 DEF TypeOK
    <3> QED
      BY <3>3, <3>4
  <2> QED
    BY <1>1, <1>2, <1>3, <2>1 DEF CleanerPick, TypeOK, counters, semaphores, guestVars
<1>4. CASE CleanerReopen(c)
  BY <1>1, <1>2, <1>4 DEF CleanerReopen, TypeOK, rooms, counters, guestVars
<1>5. CASE CleanerCheck(c) \/ CleanerBlock(c) \/ CleanerDirty(c) \/ CleanerNoRoom(c)
           \/ CleanerLast(c) \/ CleanerWake(c)
  <2>1. UNCHANGED <<rooms, counters, semaphores, guestVars, loaded>>
    BY <1>5 DEF CleanerCheck, CleanerBlock, CleanerDirty, CleanerNoRoom, CleanerLast, CleanerWake
  <2> QED
    BY <1>1, <1>2, <2>1 DEF TypeOK, rooms, counters, semaphores, guestVars
<1>6. CASE CleanerLoad(c) \/ CleanerStore(c)
  BY <1>1, <1>2, <1>6 DEF CleanerLoad, CleanerStore, TypeOK, rooms, counters, semaphores, guestVars
<1>7. CASE CleanerZeroGuests(c)
  BY <1>1, <1>2, <1>7 DEF CleanerZeroGuests, TypeOK, rooms, semaphores, guestVars
<1>8. CASE CleanerNotCleaned(c)
  <2>1. beingCleaned' \in BOOLEAN
    BY <1>8, Zenon DEF CleanerNotCleaned
  <2> QED
    BY <1>1, <1>2, <1>8, <2>1 DEF CleanerNotCleaned, TypeOK, rooms, semaphores, guestVars
<1> QED
  BY <1>1, <1>3, <1>4, <1>5, <1>6, <1>7, <1>8 DEF CleanerThread

\* The types and the lock are an inductive invariant.
LEMMA InitTypes == Init => TypeOK /\ LockInv
<1> SUFFICES ASSUME Init PROVE TypeOK /\ LockInv
  OBVIOUS
<1>1. N \in Nat \ {0} /\ 1 \in Rooms /\ 0 \in 0..(2 * N) /\ 1 \in 1..(N + 1)
  BY HotelAssumption DEF Rooms
<1>2. TypeOK
  <2>1. availability \in [Rooms -> BOOLEAN] /\ prevOccupancy \in [Rooms -> 0..2]
    BY <1>1 DEF Init
  <2>2. guestOf \in [Rooms -> Guests \cup {Nobody}] /\ sleepSemaphore \in [Guests -> Nat]
    BY DEF Init
  <2>3. guestPc \in [Guests -> GuestLabels] /\ roomOf \in [Guests -> Rooms]
    BY <1>1 DEF Init, GuestLabels
  <2>4. cleanerPc \in [Cleaners -> CleanerLabels] /\ loaded \in [Cleaners -> Int]
    BY DEF Init, CleanerLabels
  <2>5. roomAvailability \in Nat /\ occupancies \in 0..(2 * N) /\ evicting \in 1..(N + 1)
    BY <1>1 DEF Init
  <2>6. /\ currGuests \in Int /\ dirtyRooms \in Int /\ closings \in Nat
        /\ roomAllocation \in {0, 1} /\ loadedGuests \in Int
        /\ bookedIn \in [Guests -> Nat]
    BY DEF Init
  <2>7. beingCleaned \in BOOLEAN
    BY Zenon DEF Init
  <2> QED
    BY <2>1, <2>2, <2>3, <2>4, <2>5, <2>6, <2>7 DEF TypeOK
<1>3. \A g \in Guests : ~Locked(g) /\ guestPc[g] # "close" /\ guestPc[g] # "post"
  BY DEF Init, Locked
<1> QED
  BY <1>1, <1>2, <1>3 DEF Init, LockInv

LEMMA NextTypes == TypeOK /\ LockInv /\ [Next]_vars => TypeOK' /\ LockInv'
<1> SUFFICES ASSUME TypeOK, LockInv, [Next]_vars PROVE TypeOK' /\ LockInv'
  OBVIOUS
<1>1. CASE UNCHANGED vars
  <2>1. TypeOK'
    BY <1>1 DEF vars, rooms, counters, semaphores, guestVars, cleanerVars, TypeOK
  <2>2. LockInv'
    BY <1>1 DEF vars, counters, semaphores, guestVars, LockInv, Locked
  <2> QED
    BY <2>1, <2>2
<1>2. CASE Next
  BY <1>2, GuestTypes, CleanerTypes DEF Next
<1> QED
  BY <1>1, <1>2

\* Every variable keeps its type, for any number of rooms, guests, cleaners and
\* closings: no room is occupied a third time before it is cleaned, and
\* occupancies never passes 2N.
THEOREM TypeCorrect == Spec => []TypeOK
<1>1. TypeOK /\ LockInv /\ [Next]_vars => (TypeOK /\ LockInv)'
  BY NextTypes
<1> QED
  BY <1>1, InitTypes, PTL DEF Spec

-----------------------------------------------------------------------------
(* One cycle of the hotel *)

\* There are N rooms, and 2N stays between two cleanings.
LEMMA CountRooms ==
  /\ IsFiniteSet(Rooms) /\ Cardinality(Rooms) = N
  /\ IsFiniteSet(Rooms \X {1, 2}) /\ Cardinality(Rooms \X {1, 2}) = 2 * N
<1>1. IsFiniteSet(1..N) /\ Cardinality(1..N) = N
  BY FS_Interval, HotelAssumption
<1>2. IsFiniteSet({1, 2}) /\ Cardinality({1, 2}) = 2
  <2>1. {1, 2} = {1} \cup {2} /\ 2 \notin {1}
    OBVIOUS
  <2>2. IsFiniteSet({1}) /\ Cardinality({1}) = 1
    BY FS_Singleton, Zenon
  <2> DEFINE T == {1}
  <2>3. /\ IsFiniteSet(T \cup {2})
        /\ Cardinality(T \cup {2}) = IF 2 \in T THEN Cardinality(T) ELSE Cardinality(T) + 1
    <3> HIDE DEF T
    <3> QED
      BY <2>2, FS_AddElement DEF T
  <2> QED
    BY <2>1, <2>2, <2>3
<1>3. /\ IsFiniteSet(Rooms \X {1, 2})
      /\ Cardinality(Rooms \X {1, 2}) = Cardinality(Rooms) * Cardinality({1, 2})
  BY <1>1, <1>2, FS_Product DEF Rooms
<1> QED
  BY <1>1, <1>2, <1>3, HotelAssumption DEF Rooms

\* The sets that are counted are finite.
LEMMA Finite ==
  ASSUME TypeOK
  PROVE  /\ IsFiniteSet(Requesting) /\ Cardinality(Requesting) \in Nat
         /\ IsFiniteSet(Stays) /\ Cardinality(Stays) \in Nat
         /\ IsFiniteSet(Unclean) /\ Cardinality(Unclean) \in Nat
         /\ IsFiniteSet(CountedDown) /\ Cardinality(CountedDown) \in Nat
         /\ ToCount \in Nat
<1>1. /\ IsFiniteSet(Requesting) /\ IsFiniteSet(Stays) /\ IsFiniteSet(Unclean)
      /\ IsFiniteSet(CountedDown)
  BY CountRooms, FS_Subset, HotelAssumption DEF Requesting, Stays, Unclean, CountedDown
<1> QED
  BY <1>1, FS_CardinalityType DEF ToCount

\* When as many stays are counted as there can be, every room was occupied twice.
LEMMA AllTwice ==
  ASSUME TypeOK, Cardinality(Stays) = 2 * N
  PROVE  \A i \in Rooms : prevOccupancy[i] = 2
<1>3. Stays \subseteq Rooms \X {1, 2}
  BY DEF Stays
<1>4. Stays = Rooms \X {1, 2}
  BY <1>3, CountRooms, FS_Subset
<1>5. \A i \in Rooms : <<i, 2>> \in Stays
  BY <1>4
<1>6. \A i \in Rooms : 2 <= prevOccupancy[i]
  BY <1>5 DEF Stays
<1> QED
  BY <1>6 DEF TypeOK

\* The steps of a guest other than to arrive, to ask for a room and to close.
Quiet(g) ==
  \/ GuestEvict(g) \/ GuestPost(g) \/ GuestBroadcast(g) \/ GuestEvicted(g)
  \/ GuestTimeout(g) \/ GuestLeave(g) \/ GuestVacate(g) \/ GuestLoad(g) \/ GuestStore(g)

\* What they leave alone.
LEMMA QuietGuest ==
  ASSUME TypeOK, NEW g \in Guests, Quiet(g)
  PROVE  /\ UNCHANGED <<prevOccupancy, occupancies, dirtyRooms, beingCleaned, roomOf,
                         roomAvailability, closings, bookedIn, loaded>>
         /\ \A h \in Guests : /\ guestPc'[h] = "request" <=> guestPc[h] = "request"
                              /\ guestPc'[h] = "close" <=> guestPc[h] = "close"
                              /\ guestPc'[h] = "stay" => guestPc[h] = "stay"
                              /\ Evicting(h)' => Evicting(h)
         /\ \A c \in Cleaners :
              cleanerPc'[c] = cleanerPc[c] \/ (cleanerPc[c] = "wait" /\ cleanerPc'[c] = "check")
<1>1. UNCHANGED <<prevOccupancy, occupancies, dirtyRooms, beingCleaned, roomOf,
                  roomAvailability, closings, bookedIn, loaded>>
  BY DEF Quiet, GuestEvict, GuestPost, GuestBroadcast, GuestEvicted, GuestTimeout, GuestLeave,
         GuestVacate, GuestLoad, GuestStore,
         rooms, counters, semaphores, cleanerVars
<1>2. \/ guestPc' = guestPc
      \/ /\ guestPc[g] \in {"evict", "post"}
         /\ \E to \in {"evict", "post", "arrive"} : guestPc' = [guestPc EXCEPT ![g] = to]
      \/ /\ guestPc[g] \in {"stay", "timeout", "vacate", "load", "store"}
         /\ \E to \in {"arrive", "timeout", "vacate", "load", "store"} :
              guestPc' = [guestPc EXCEPT ![g] = to]
  BY DEF Quiet, GuestEvict, GuestPost, GuestBroadcast, GuestEvicted, GuestTimeout, GuestLeave,
         GuestVacate, GuestLoad, GuestStore,
         GuestGoto
<1>3. \A h \in Guests : /\ guestPc'[h] = "request" <=> guestPc[h] = "request"
                        /\ guestPc'[h] = "close" <=> guestPc[h] = "close"
                        /\ guestPc'[h] = "stay" => guestPc[h] = "stay"
                        /\ Evicting(h)' => Evicting(h)
  BY <1>2 DEF TypeOK, Evicting
<1>4. \A c \in Cleaners :
        cleanerPc'[c] = cleanerPc[c] \/ (cleanerPc[c] = "wait" /\ cleanerPc'[c] = "check")
  BY DEF Quiet, GuestEvict, GuestPost, GuestBroadcast, GuestEvicted, GuestTimeout, GuestLeave,
         GuestVacate, GuestLoad, GuestStore,
         cleanerVars
<1> QED
  BY <1>1, <1>3, <1>4

\* A guest that stays asleep keeps its token, and its room unless it leaves.
LEMMA QuietAsleep ==
  ASSUME TypeOK, NEW g \in Guests, Quiet(g), NEW h \in Guests, guestPc'[h] = "stay"
  PROVE  /\ guestPc[h] = "stay" /\ roomOf'[h] = roomOf[h] /\ bookedIn'[h] = bookedIn[h]
         /\ sleepSemaphore[h] > 0 => sleepSemaphore'[h] > 0
         /\ HasRoom(h) => HasRoom(h)'
<1>1. guestPc[h] = "stay" /\ roomOf'[h] = roomOf[h] /\ bookedIn'[h] = bookedIn[h]
  BY QuietGuest
<1>2. sleepSemaphore[h] > 0 => sleepSemaphore'[h] > 0
  <2>1. CASE GuestEvicted(g)
    <3>1. guestPc'[g] = "arrive"
      BY <2>1 DEF GuestEvicted, GuestGoto, TypeOK
    <3> QED
      BY <2>1, <3>1 DEF GuestEvicted, TypeOK
  <2>2. CASE GuestPost(g)
    <3>1. \/ sleepSemaphore' = sleepSemaphore
          \/ \E k : sleepSemaphore' = [sleepSemaphore EXCEPT ![k] = @ + 1]
      BY <2>2 DEF GuestPost, PostSleep
    <3>2. sleepSemaphore[h] \in Nat
      BY DEF TypeOK
    <3> QED
      BY <3>1, <3>2 DEF TypeOK
  <2> QED
    BY <2>1, <2>2
    DEF Quiet, GuestEvict, GuestBroadcast, GuestTimeout, GuestLeave, GuestVacate, GuestLoad,
        GuestStore, semaphores
<1>3. HasRoom(h) => HasRoom(h)'
  <2>1. CASE GuestLeave(g) /\ HasRoom(g)
    <3>1. /\ availability' = [availability EXCEPT ![roomOf[g]] = TRUE]
          /\ guestOf' = [guestOf EXCEPT ![roomOf[g]] = Nobody] /\ guestPc[g] = "timeout"
      BY <2>1 DEF GuestLeave
    <3>2. HasRoom(h) => roomOf[h] # roomOf[g]
      BY <1>1, <2>1, <3>1 DEF HasRoom
    <3> QED
      BY <1>1, <3>1, <3>2 DEF HasRoom, TypeOK
  <2>2. CASE UNCHANGED <<availability, guestOf>>
    BY <1>1, <2>2 DEF HasRoom
  <2> QED
    BY <2>1, <2>2
    DEF Quiet, GuestEvict, GuestPost, GuestBroadcast, GuestEvicted, GuestTimeout, GuestLeave,
         GuestVacate, GuestLoad, GuestStore,
        rooms
<1> QED
  BY <1>1, <1>2, <1>3

\* The same, said of the counted sets.
LEMMA QuietCounts ==
  ASSUME TypeOK, NEW g \in Guests, Quiet(g)
  PROVE  /\ Requesting' = Requesting /\ Stays' = Stays /\ Unclean' = Unclean
         /\ CountedDown' = CountedDown /\ ToCount' = ToCount
         /\ NobodyArrives => NobodyArrives'
<1>1. Requesting' = Requesting
  BY QuietGuest DEF Requesting
<1>2. Stays' = Stays /\ Unclean' = Unclean
  BY QuietGuest DEF Stays, Unclean
<1>3. CountedDown' = CountedDown
  BY QuietGuest DEF CountedDown
<1>4. NobodyArrives => NobodyArrives'
  BY <1>1, QuietGuest DEF NobodyArrives
<1> QED
  BY <1>1, <1>2, <1>3, <1>4 DEF ToCount

\* A room that a guest leaves is free and nobody's.
LEMMA QuietFree ==
  ASSUME TypeOK, CleanedFree, NEW g \in Guests, Quiet(g)
  PROVE  CleanedFree'
<1>1. CASE GuestLeave(g) /\ HasRoom(g)
  <2>1. /\ availability' = [availability EXCEPT ![roomOf[g]] = TRUE]
        /\ guestOf' = [guestOf EXCEPT ![roomOf[g]] = Nobody]
    BY <1>1 DEF GuestLeave
  <2> QED
    BY <2>1, QuietGuest DEF CleanedFree, TypeOK
<1>2. CASE UNCHANGED <<availability, guestOf>>
  BY <1>2, QuietGuest DEF CleanedFree
<1> QED
  BY <1>1, <1>2
  DEF Quiet, GuestEvict, GuestPost, GuestBroadcast, GuestEvicted, GuestTimeout, GuestLeave,
         GuestVacate, GuestLoad, GuestStore,
      rooms

\* A step of the eviction, or of a guest beside it, passes over nobody.
LEMMA QuietEvicted ==
  ASSUME TypeOK, LockInv, Evicted, NEW g \in Guests, Quiet(g)
  PROVE  Evicted'
<1> SUFFICES ASSUME NEW h \in Guests, Evicting(h)', NEW k \in Guests, guestPc'[k] = "stay",
                    bookedIn'[k] = closings' - 1
             PROVE  Passed(k)'
  BY DEF Evicted
<1>1. Passed(k) /\ Evicting(h)
  BY QuietGuest, QuietAsleep DEF Evicted
<1>2. CASE sleepSemaphore[k] > 0
  BY <1>2, QuietAsleep DEF Passed
<1>3. CASE prevOccupancy[roomOf[k]] = 0
  BY <1>3, QuietGuest DEF Passed
<1>4. CASE HasRoom(k) /\ evicting <= roomOf[k]
  <2>1. HasRoom(k)' /\ roomOf'[k] = roomOf[k] /\ roomOf[k] \in Int /\ evicting \in Int
    BY <1>4, QuietAsleep DEF TypeOK, Rooms
  <2>2. CASE GuestEvict(g)
    <3>1. \/ evicting' = evicting
          \/ availability[evicting] /\ evicting' = evicting + 1
      BY <2>2 DEF GuestEvict
    <3>2. availability[evicting] => roomOf[k] # evicting
      BY <1>4 DEF HasRoom
    <3> QED
      BY <1>4, <2>1, <3>1, <3>2 DEF Passed
  <2>3. CASE GuestPost(g)
    <3>1. CASE roomOf[k] = evicting
      <4>1. guestOf[evicting] = k /\ k # Nobody
        BY <1>4, <3>1, HotelAssumption DEF HasRoom
      <4>2. sleepSemaphore' = [sleepSemaphore EXCEPT ![k] = @ + 1]
        BY <2>3, <4>1 DEF GuestPost, PostSleep
      <4> QED
        BY <4>2 DEF Passed, TypeOK
    <3>2. CASE roomOf[k] # evicting
      BY <1>4, <2>1, <2>3, <3>2 DEF GuestPost, Passed
    <3> QED
      BY <3>1, <3>2
  <2>4. CASE evicting' = evicting
    BY <1>4, <2>1, <2>4 DEF Passed
  <2> QED
    BY <2>2, <2>3, <2>4
    DEF Quiet, GuestBroadcast, GuestEvicted, GuestTimeout, GuestLeave, GuestVacate, GuestLoad,
        GuestStore
<1> QED
  BY <1>1, <1>2, <1>3, <1>4 DEF Passed

\* A guest that arrives or asks for a room does so outside the eviction.
LEMMA AskingEvicted ==
  ASSUME TypeOK, LockInv, Evicted, NEW g \in Guests,
         GuestArrive(g) \/ GuestAllotted(g) \/ GuestTurnedAway(g)
  PROVE  Evicted'
<1>1. CASE GuestArrive(g)
  <2>1. /\ guestPc' = [guestPc EXCEPT ![g] = "request"]
        /\ UNCHANGED <<rooms, sleepSemaphore, roomOf, evicting, closings, bookedIn>>
    BY <1>1 DEF GuestArrive, GuestGoto
  <2>2. \A h \in Guests : /\ Evicting(h)' => Evicting(h)
                          /\ guestPc'[h] = "stay" => guestPc[h] = "stay"
    BY <2>1 DEF Evicting, TypeOK
  <2>3. \A k \in Guests : Passed(k) => Passed(k)'
    BY <2>1 DEF Passed, HasRoom, rooms
  <2> QED
    BY <2>1, <2>2, <2>3 DEF Evicted
<1>2. CASE GuestAllotted(g) \/ GuestTurnedAway(g)
  <2>1. /\ roomAllocation = 1
        /\ \E to \in {"close", "stay", "arrive"} : guestPc' = [guestPc EXCEPT ![g] = to]
    BY <1>2 DEF GuestAllotted, GuestTurnedAway, GuestGoto
  <2>2. \A h \in Guests : ~Evicting(h)
    BY <2>1 DEF LockInv, Locked, Evicting
  <2>3. \A h \in Guests : ~Evicting(h)'
    BY <2>1, <2>2 DEF Evicting, TypeOK
  <2> QED
    BY <2>3 DEF Evicted
<1> QED
  BY <1>1, <1>2

\* A cleaner takes a room from a guest only by cleaning it.
LEMMA CleanerEvicted ==
  ASSUME TypeOK, Evicted, NEW c \in Cleaners, CleanerThread(c) \/ CleanerWake(c)
  PROVE  Evicted'
<1>1. UNCHANGED <<guestPc, roomOf, evicting, closings, bookedIn, sleepSemaphore>>
  BY DEF CleanerThread, CleanerCheck, CleanerBlock, CleanerDirty, CleanerPick, CleanerNoRoom,
         CleanerLoad, CleanerStore, CleanerLast, CleanerZeroGuests, CleanerNotCleaned,
         CleanerReopen, CleanerWake, counters, semaphores, guestVars
<1>2. \A k \in Guests : Passed(k) => Passed(k)'
  <2>1. CASE CleanerPick(c)
    <3> DEFINE i == Least(Unclean)
    <3>1. /\ availability' = [availability EXCEPT ![i] = TRUE]
          /\ prevOccupancy' = [prevOccupancy EXCEPT ![i] = 0]
          /\ guestOf' = [guestOf EXCEPT ![i] = Nobody]
      BY <2>1 DEF CleanerPick
    <3> HIDE DEF i
    <3> SUFFICES ASSUME NEW k \in Guests, Passed(k) PROVE Passed(k)'
      OBVIOUS
    <3>2. roomOf[k] \in Rooms
      BY DEF TypeOK
    <3>3. CASE roomOf[k] = i
      BY <1>1, <3>1, <3>2, <3>3 DEF Passed, TypeOK
    <3>4. CASE roomOf[k] # i
      BY <1>1, <3>1, <3>2, <3>4 DEF Passed, HasRoom, TypeOK
    <3> QED
      BY <3>3, <3>4
  <2>2. CASE UNCHANGED rooms
    BY <1>1, <2>2 DEF Passed, HasRoom, rooms
  <2> QED
    BY <2>1, <2>2
    DEF CleanerThread, CleanerCheck, CleanerBlock, CleanerDirty, CleanerNoRoom, CleanerLoad,
        CleanerStore, CleanerLast, CleanerZeroGuests, CleanerNotCleaned, CleanerReopen,
        CleanerWake
<1> QED
  BY <1>1, <1>2 DEF Evicted, Evicting

\* The steps of a guest while the hotel is cleaned.
LEMMA GuestCleaning ==
  ASSUME TypeOK, beingCleaned, Cleaning, NEW g \in Guests, GuestThread(g)
  PROVE  beingCleaned' /\ Cleaning'
<1>1. ~GuestArrive(g) /\ ~GuestAllotted(g) /\ ~GuestTurnedAway(g) /\ ~GuestClose(g)
  <2>1. roomAvailability = 0 /\ guestPc[g] # "request" /\ guestPc[g] # "close"
    BY DEF Cleaning, NobodyArrives, Requesting
  <2>2. ~GuestArrive(g)
    BY <2>1 DEF GuestArrive
  <2>3. ~GuestAllotted(g)
    BY <2>1 DEF GuestAllotted
  <2>4. ~GuestTurnedAway(g) /\ ~GuestClose(g)
    BY <2>1 DEF GuestTurnedAway, GuestClose, GuestGoto
  <2> QED
    BY <2>2, <2>3, <2>4
<1>2. Quiet(g)
  BY <1>1 DEF GuestThread, Quiet
<1>3. NobodyArrives' /\ NobodyBooked' /\ CleanedFree' /\ beingCleaned'
  BY <1>2, QuietCounts, QuietFree, QuietGuest DEF Cleaning, NobodyBooked
<1>4. DirtyRoomsSuffice'
  <2>1. UNCHANGED <<dirtyRooms, loaded, Unclean, ToCount>>
    BY <1>2, QuietGuest, QuietCounts
  <2>2. \A c \in Cleaners : cleanerPc'[c] \in {"store", "zero_guests", "not_cleaned", "reopen"}
                             => cleanerPc[c] = cleanerPc'[c]
    BY <1>2, QuietGuest
  <2> QED
    BY <2>1, <2>2 DEF Cleaning, DirtyRoomsSuffice
<1> QED
  BY <1>2, <1>3, <1>4, QuietGuest DEF Cleaning

\* A cleaner starts with a room: one room less to clean, one subtraction more.
LEMMA PickCounts ==
  ASSUME TypeOK, NEW c \in Cleaners, CleanerPick(c)
  PROVE  /\ ToCount' = ToCount /\ Unclean # {}
         /\ \A i \in Rooms : prevOccupancy'[i] = prevOccupancy[i] \/ prevOccupancy'[i] = 0
<1> DEFINE i == Least(Unclean)
<1>1. i \in Unclean /\ i \in Rooms
  BY PickedRoom DEF CleanerPick, Unclean
<1>2. /\ prevOccupancy' = [prevOccupancy EXCEPT ![i] = 0]
      /\ cleanerPc[c] = "pick" /\ cleanerPc' = [cleanerPc EXCEPT ![c] = "load"]
  BY DEF CleanerPick, CleanerGoto
<1> HIDE DEF i
<1>3. Unclean' = Unclean \ {i}
  BY <1>1, <1>2 DEF Unclean, TypeOK
<1>4. c \notin CountedDown /\ CountedDown' = CountedDown \cup {c}
  BY <1>2 DEF CountedDown, TypeOK
<1>5. Cardinality(Unclean') = Cardinality(Unclean) - 1
  BY <1>1, <1>3, Finite, FS_RemoveElement
<1>6. Cardinality(CountedDown') = Cardinality(CountedDown) + 1
  BY <1>4, Finite, FS_AddElement
<1>7. ToCount' = ToCount
  BY <1>5, <1>6, Finite DEF ToCount
<1> QED
  BY <1>1, <1>2, <1>7 DEF TypeOK

\* A cleaner stores its subtraction.
LEMMA StoreCounts ==
  ASSUME TypeOK, NEW c \in Cleaners, CleanerStore(c)
  PROVE  ToCount' = ToCount - 1 /\ Unclean' = Unclean
<1>1. Unclean' = Unclean
  BY DEF CleanerStore, Unclean, rooms
<1>2. c \in CountedDown /\ CountedDown' = CountedDown \ {c}
  BY DEF CleanerStore, CleanerGoto, CountedDown, TypeOK
<1>3. Cardinality(CountedDown') = Cardinality(CountedDown) - 1
  BY <1>2, Finite, FS_RemoveElement
<1> QED
  BY <1>1, <1>3, Finite DEF ToCount

\* The other steps of a cleaner do not change the count.
LEMMA OtherCounts ==
  ASSUME TypeOK, NEW c \in Cleaners, CleanerThread(c) \/ CleanerWake(c),
         ~CleanerPick(c), ~CleanerStore(c)
  PROVE  ToCount' = ToCount /\ Unclean' = Unclean /\ dirtyRooms' = dirtyRooms
         /\ UNCHANGED rooms
<1>1. UNCHANGED <<rooms, dirtyRooms>>
  BY DEF CleanerThread, CleanerCheck, CleanerBlock, CleanerDirty, CleanerNoRoom, CleanerLoad,
         CleanerLast, CleanerZeroGuests, CleanerNotCleaned, CleanerReopen, CleanerWake, rooms,
         counters
<1>2. Unclean' = Unclean
  BY <1>1 DEF Unclean, rooms
<1>3. CountedDown' = CountedDown
  <2>1. PICK from \in CleanerLabels, to \in CleanerLabels :
          /\ CleanerGoto(c, from, to)
          /\ from \in {"load", "store"} <=> to \in {"load", "store"}
    BY DEF CleanerThread, CleanerCheck, CleanerBlock, CleanerDirty, CleanerNoRoom, CleanerLoad,
           CleanerLast, CleanerZeroGuests, CleanerNotCleaned, CleanerReopen, CleanerWake,
           CleanerLabels
  <2>2. \A d \in Cleaners : cleanerPc'[d] \in {"load", "store"}
                             <=> cleanerPc[d] \in {"load", "store"}
    <3>1. /\ cleanerPc[c] = from /\ cleanerPc' = [cleanerPc EXCEPT ![c] = to]
          /\ cleanerPc \in [Cleaners -> CleanerLabels]
      BY <2>1 DEF CleanerGoto, TypeOK
    <3>2. \A d \in Cleaners : cleanerPc'[d] = IF d = c THEN to ELSE cleanerPc[d]
      BY <3>1
    <3> QED
      BY <2>1, <3>1, <3>2
  <2> QED
    BY <2>2 DEF CountedDown
<1> QED
  BY <1>1, <1>2, <1>3 DEF ToCount

\* What a cleaner never touches.
LEMMA CleanerFrame ==
  ASSUME TypeOK, NEW c \in Cleaners, CleanerThread(c) \/ CleanerWake(c)
  PROVE  /\ UNCHANGED <<guestPc, roomOf, evicting, closings, bookedIn, occupancies,
                         sleepSemaphore, Requesting>>
         /\ ~CleanerReopen(c) => UNCHANGED roomAvailability
         /\ ~CleanerNotCleaned(c) => UNCHANGED beingCleaned
         /\ \A d \in Cleaners \ {c} : cleanerPc'[d] = cleanerPc[d] /\ loaded'[d] = loaded[d]
<1>1. UNCHANGED <<guestPc, roomOf, evicting, closings, bookedIn, occupancies, sleepSemaphore>>
  BY DEF CleanerThread, CleanerCheck, CleanerBlock, CleanerDirty, CleanerPick, CleanerNoRoom,
         CleanerLoad, CleanerStore, CleanerLast, CleanerZeroGuests, CleanerNotCleaned,
         CleanerReopen, CleanerWake, counters, semaphores, guestVars
<1>2. /\ ~CleanerReopen(c) => UNCHANGED roomAvailability
      /\ ~CleanerNotCleaned(c) => UNCHANGED beingCleaned
  BY DEF CleanerThread, CleanerCheck, CleanerBlock, CleanerDirty, CleanerPick, CleanerNoRoom,
         CleanerLoad, CleanerStore, CleanerLast, CleanerZeroGuests, CleanerNotCleaned,
         CleanerReopen, CleanerWake, counters, semaphores
<1>3. \A d \in Cleaners \ {c} : cleanerPc'[d] = cleanerPc[d] /\ loaded'[d] = loaded[d]
  BY DEF CleanerThread, CleanerCheck, CleanerBlock, CleanerDirty, CleanerPick, CleanerNoRoom,
         CleanerLoad, CleanerStore, CleanerLast, CleanerZeroGuests, CleanerNotCleaned,
         CleanerReopen, CleanerWake, CleanerGoto, TypeOK
<1> QED
  BY <1>1, <1>2, <1>3 DEF Requesting

\* The steps of a cleaner while the hotel is cleaned; the last one opens it.
LEMMA CleanerCleaning ==
  ASSUME TypeOK, beingCleaned, Cleaning, NEW c \in Cleaners, CleanerThread(c) \/ CleanerWake(c)
  PROVE  /\ ~CleanerNotCleaned(c) => beingCleaned' /\ Cleaning'
         /\ CleanerNotCleaned(c) => Unclean = {}
<1>1. CleanerNotCleaned(c) => Unclean = {}
  BY DEF Cleaning, DirtyRoomsSuffice, CleanerNotCleaned, CleanerGoto
<1> SUFFICES ASSUME ~CleanerNotCleaned(c) PROVE beingCleaned' /\ Cleaning'
  BY <1>1
<1>2. ~CleanerReopen(c)
  BY DEF Cleaning, DirtyRoomsSuffice, CleanerReopen, CleanerGoto
<1>3. /\ beingCleaned' /\ NobodyArrives' /\ closings' >= 1 /\ occupancies' = 0
  BY <1>2, CleanerFrame DEF Cleaning, NobodyArrives
<1>4. \A i \in Rooms : prevOccupancy'[i] # 1
  <2>1. CASE CleanerPick(c)
    BY <2>1, PickCounts DEF Cleaning
  <2>2. CASE CleanerStore(c)
    BY <2>2 DEF CleanerStore, Cleaning, rooms
  <2> QED
    BY <2>1, <2>2, OtherCounts DEF Cleaning, rooms
<1>5. NobodyBooked' /\ CleanedFree'
  <2>1. CASE CleanerPick(c)
    <3> DEFINE k == Least(Unclean)
    <3>1. /\ availability' = [availability EXCEPT ![k] = TRUE]
          /\ prevOccupancy' = [prevOccupancy EXCEPT ![k] = 0]
          /\ guestOf' = [guestOf EXCEPT ![k] = Nobody]
      BY <2>1 DEF CleanerPick
    <3> HIDE DEF k
    <3>2. CleanedFree'
      BY <3>1 DEF CleanedFree, Cleaning, TypeOK
    <3> QED
      BY <3>2, CleanerFrame DEF NobodyBooked, Cleaning
  <2>2. CASE UNCHANGED rooms
    BY <2>2, CleanerFrame DEF CleanedFree, NobodyBooked, Cleaning, rooms
  <2> QED
    BY <2>1, <2>2, OtherCounts DEF CleanerStore
<1>6. DirtyRoomsSuffice'
  <2>1. CASE CleanerPick(c)
    <3>1. dirtyRooms' = dirtyRooms /\ loaded' = loaded /\ ToCount' = ToCount /\ Unclean # {}
          /\ cleanerPc' = [cleanerPc EXCEPT ![c] = "load"]
      BY <2>1, PickCounts DEF CleanerPick, CleanerGoto, counters
    <3> QED
      BY <3>1 DEF Cleaning, DirtyRoomsSuffice, TypeOK
  <2>2. CASE CleanerStore(c)
    <3>1. /\ ToCount' = ToCount - 1 /\ Unclean' = Unclean /\ loaded' = loaded
          /\ dirtyRooms' = loaded[c] - 1 /\ loaded[c] >= ToCount
          /\ cleanerPc' = [cleanerPc EXCEPT ![c] = "last"]
      BY <2>2, StoreCounts
      DEF CleanerStore, CleanerGoto, Cleaning, DirtyRoomsSuffice
    <3>2. ToCount \in Nat /\ \A d \in Cleaners : loaded[d] \in Int
      BY Finite DEF TypeOK
    <3>3. dirtyRooms' >= ToCount'
      BY <3>1, <3>2
    <3>4. \A d \in Cleaners :
            /\ cleanerPc'[d] = "store" => loaded'[d] >= ToCount'
            /\ cleanerPc'[d] \in {"zero_guests", "not_cleaned"} => Unclean' = {}
            /\ cleanerPc'[d] # "reopen"
      BY <3>1, <3>2 DEF Cleaning, DirtyRoomsSuffice, TypeOK
    <3> QED
      BY <3>3, <3>4 DEF DirtyRoomsSuffice
  <2>3. CASE ~CleanerPick(c) /\ ~CleanerStore(c)
    <3>1. ToCount' = ToCount /\ Unclean' = Unclean /\ dirtyRooms' = dirtyRooms
      BY <2>3, OtherCounts
    <3>2. /\ cleanerPc'[c] = "store" => loaded'[c] = dirtyRooms
          /\ cleanerPc'[c] = "zero_guests" => dirtyRooms = 0
          /\ cleanerPc'[c] = "not_cleaned" => cleanerPc[c] = "zero_guests"
          /\ cleanerPc'[c] # "reopen"
      BY <1>2, <2>3
      DEF CleanerThread, CleanerCheck, CleanerBlock, CleanerDirty, CleanerNoRoom, CleanerLoad,
          CleanerLast, CleanerZeroGuests, CleanerWake, CleanerGoto, TypeOK
    <3>3. dirtyRooms = 0 => Unclean = {}
      <4>1. ASSUME dirtyRooms = 0 PROVE Cardinality(Unclean) = 0
        BY <4>1, Finite DEF Cleaning, DirtyRoomsSuffice, ToCount
      <4> QED
        BY <4>1, Finite, FS_EmptySet
    <3>4. /\ cleanerPc'[c] = "store" => loaded'[c] >= ToCount'
          /\ cleanerPc'[c] \in {"zero_guests", "not_cleaned"} => Unclean' = {}
      BY <3>1, <3>2, <3>3 DEF Cleaning, DirtyRoomsSuffice
    <3>5. \A d \in Cleaners \ {c} : cleanerPc'[d] = cleanerPc[d] /\ loaded'[d] = loaded[d]
      BY CleanerFrame
    <3>6. \A d \in Cleaners :
            /\ cleanerPc'[d] = "store" => loaded'[d] >= ToCount'
            /\ cleanerPc'[d] \in {"zero_guests", "not_cleaned"} => Unclean' = {}
            /\ cleanerPc'[d] # "reopen"
      BY <3>1, <3>2, <3>4, <3>5 DEF Cleaning, DirtyRoomsSuffice
    <3> QED
      BY <3>1, <3>6 DEF Cleaning, DirtyRoomsSuffice
  <2> QED
    BY <2>1, <2>2, <2>3
<1> QED
  BY <1>3, <1>4, <1>5, <1>6 DEF Cleaning

\* The hotel is opened.
LEMMA OpensHotel ==
  ASSUME TypeOK, Regular, beingCleaned, Cleaning, NEW c \in Cleaners, CleanerNotCleaned(c)
  PROVE  Phase'
<1>1. /\ ~beingCleaned' /\ cleanerPc' = [cleanerPc EXCEPT ![c] = "reopen"]
      /\ cleanerPc[c] = "not_cleaned" /\ prevOccupancy' = prevOccupancy
  BY DEF CleanerNotCleaned, CleanerGoto, rooms
<1>2. NobodyArrives' /\ occupancies' = 0 /\ closings' >= 1 /\ NobodyBooked'
  BY DEF CleanerNotCleaned, Cleaning, NobodyArrives, NobodyBooked, Requesting, semaphores,
         guestVars
<1>3. CASE OneCleaner
  <2>1. \A d \in Cleaners : cleanerPc'[d] = "reopen"
    BY <1>1, <1>3 DEF OneCleaner, TypeOK
  <2>2. \A i \in Rooms : prevOccupancy[i] = 0
    BY <1>1 DEF Cleaning, DirtyRoomsSuffice, Unclean, TypeOK
  <2>3. Stays' = {}
    BY <1>1, <2>2 DEF Stays
  <2> QED
    BY <1>1, <1>2, <1>3, <2>1, <2>3 DEF Phase, Reopening
<1>4. CASE MaxCleanings <= 1
  BY <1>1, <1>2, <1>4 DEF Phase, Over, NobodyArrives
<1> QED
  BY <1>3, <1>4 DEF Regular

\* While the hotel is open an admission goes from the semaphore to a guest.
LEMMA ArriveOpening ==
  ASSUME TypeOK, Opening, NEW g \in Guests, GuestArrive(g)
  PROVE  Opening' /\ beingCleaned' = beingCleaned
<1>1. /\ guestPc[g] = "arrive" /\ guestPc' = [guestPc EXCEPT ![g] = "request"]
      /\ roomAvailability' = roomAvailability - 1
      /\ UNCHANGED <<rooms, prevOccupancy, occupancies, beingCleaned, cleanerPc,
                     sleepSemaphore, roomOf, closings, bookedIn>>
  BY DEF GuestArrive, GuestGoto, rooms, counters, cleanerVars
<1>2. g \notin Requesting /\ Requesting' = Requesting \cup {g}
  BY <1>1 DEF Requesting, TypeOK
<1>3. Cardinality(Requesting') = Cardinality(Requesting) + 1
  BY <1>2, Finite, FS_AddElement
<1>4. Stays' = Stays
  BY <1>1 DEF Stays
<1>5. \A h \in Guests : guestPc'[h] = "stay" /\ bookedIn'[h] = closings' =>
                        sleepSemaphore'[h] > 0 \/ HasRoom(h)'
  BY <1>1 DEF Opening, HasRoom, rooms, TypeOK
<1> QED
  BY <1>1, <1>3, <1>4, <1>5, Finite DEF Opening, TypeOK

\* The guest gives it back.
LEMMA TurnedAwayOpening ==
  ASSUME TypeOK, Opening, NEW g \in Guests, GuestTurnedAway(g)
  PROVE  Opening' /\ beingCleaned' = beingCleaned
<1>1. /\ guestPc[g] = "request" /\ guestPc' = [guestPc EXCEPT ![g] = "arrive"]
      /\ roomAvailability' = roomAvailability + 1
      /\ UNCHANGED <<rooms, prevOccupancy, occupancies, beingCleaned, cleanerPc,
                     sleepSemaphore, roomOf, closings, bookedIn>>
  BY DEF GuestTurnedAway, GuestGoto, rooms, counters, cleanerVars
<1>2. g \in Requesting /\ Requesting' = Requesting \ {g}
  BY <1>1 DEF Requesting, TypeOK
<1>3. Cardinality(Requesting') = Cardinality(Requesting) - 1
  BY <1>2, Finite, FS_RemoveElement
<1>4. Stays' = Stays
  BY <1>1 DEF Stays
<1>5. \A h \in Guests : guestPc'[h] = "stay" /\ bookedIn'[h] = closings' =>
                        sleepSemaphore'[h] > 0 \/ HasRoom(h)'
  BY <1>1 DEF Opening, HasRoom, rooms, TypeOK
<1> QED
  BY <1>1, <1>3, <1>4, <1>5, Finite DEF Opening, TypeOK

\* A guest that loses its room to another one gets a token.
LEMMA AllottedAsleep ==
  ASSUME TypeOK, Opening, NEW g \in Guests, GuestAllotted(g), NEW h \in Guests,
         guestPc'[h] = "stay", bookedIn'[h] = closings'
  PROVE  sleepSemaphore'[h] > 0 \/ HasRoom(h)'
<1>1. PICK i \in Allotted(g) :
       /\ sleepSemaphore' = IF currGuests = N THEN PostSleep(i) ELSE sleepSemaphore
       /\ availability' = [availability EXCEPT ![i] = FALSE]
       /\ guestOf' = [guestOf EXCEPT ![i] = g]
       /\ roomOf' = [roomOf EXCEPT ![g] = i]
  BY DEF GuestAllotted
<1>2. i \in Rooms /\ roomOf[h] \in Rooms
  BY AllottedRoom DEF TypeOK
<1>3. CASE h = g
  BY <1>1, <1>2, <1>3 DEF HasRoom, TypeOK
<1>4. CASE h # g
  <2>1. guestPc[h] = "stay" /\ bookedIn[h] = closings /\ roomOf'[h] = roomOf[h]
    BY <1>1, <1>4 DEF GuestAllotted, TypeOK
  <2>2. CASE sleepSemaphore[h] > 0
    <3>1. \/ sleepSemaphore' = sleepSemaphore
          \/ \E k : sleepSemaphore' = [sleepSemaphore EXCEPT ![k] = @ + 1]
      BY <1>1 DEF PostSleep
    <3>2. sleepSemaphore[h] \in Nat
      BY DEF TypeOK
    <3> QED
      BY <2>2, <3>1, <3>2 DEF TypeOK
  <2>3. CASE HasRoom(h) /\ roomOf[h] # i
    BY <1>1, <1>2, <2>1, <2>3 DEF HasRoom, TypeOK
  <2>4. CASE HasRoom(h) /\ roomOf[h] = i
    <3>1. guestOf[i] = h /\ ~availability[i]
      BY <2>4 DEF HasRoom
    <3>2. CASE currGuests < N
      <4> DEFINE fresh == {r \in Rooms : availability[r] /\ prevOccupancy[r] = 0}
                 once == {r \in Rooms : availability[r] /\ prevOccupancy[r] = 1}
      <4>1. \/ fresh # {} /\ i = Least(fresh)
            \/ once # {} /\ i = Greatest(once)
        BY <3>2 DEF Allotted, FreeRoom
      <4>2. i \in fresh \/ i \in once
        BY <4>1, LeastRoom, GreatestRoom
      <4> QED
        BY <3>1, <4>2
    <3>3. CASE currGuests = N
      <4>1. sleepSemaphore' = [sleepSemaphore EXCEPT ![h] = @ + 1]
        BY <1>1, <3>1, <3>3 DEF PostSleep
      <4> QED
        BY <4>1 DEF TypeOK
    <3> QED
      BY <3>2, <3>3 DEF Allotted
  <2> QED
    BY <2>1, <2>2, <2>3, <2>4 DEF Opening
<1> QED
  BY <1>3, <1>4

\* Or it becomes an occupancy of the hotel and of a room.
LEMMA AllottedOpening ==
  ASSUME TypeOK, Opening, NEW g \in Guests, GuestAllotted(g)
  PROVE  Opening' /\ beingCleaned' = beingCleaned
<1>1. PICK i \in Allotted(g) : prevOccupancy' = [prevOccupancy EXCEPT ![i] = @ + 1]
  BY DEF GuestAllotted
<1>2. i \in Rooms /\ prevOccupancy[i] \in {0, 1}
  BY AllottedRoom
<1>3. /\ guestPc[g] = "request" /\ occupancies' = occupancies + 1
      /\ \E to \in {"close", "stay"} : guestPc' = [guestPc EXCEPT ![g] = to]
      /\ UNCHANGED <<roomAvailability, beingCleaned, cleanerPc, closings>>
      /\ bookedIn' = [bookedIn EXCEPT ![g] = closings]
  BY DEF GuestAllotted, cleanerVars
<1>4. g \in Requesting /\ Requesting' = Requesting \ {g}
  BY <1>3 DEF Requesting, TypeOK
<1>5. Cardinality(Requesting') = Cardinality(Requesting) - 1
  BY <1>4, Finite, FS_RemoveElement
<1> DEFINE s == <<i, prevOccupancy[i] + 1>>
<1>6. s \notin Stays /\ Stays' = Stays \cup {s}
  <2>1. s \in Rooms \X {1, 2} /\ s \notin Stays
    BY <1>2 DEF Stays
  <2>2. \A k \in Rooms, n \in {1, 2} :
          n <= prevOccupancy'[k] <=> n <= prevOccupancy[k] \/ <<k, n>> = s
    BY <1>1, <1>2 DEF TypeOK
  <2>3. \A t \in Rooms \X {1, 2} : t \in Stays' <=> t \in Stays \/ t = s
    BY <2>2 DEF Stays
  <2>4. Stays \subseteq Rooms \X {1, 2} /\ Stays' \subseteq Rooms \X {1, 2}
    BY DEF Stays
  <2> QED
    BY <2>1, <2>3, <2>4
<1> HIDE DEF s
<1>7. Cardinality(Stays') = Cardinality(Stays) + 1
  BY <1>6, Finite, FS_AddElement
<1>8. \A h \in Guests : bookedIn'[h] <= closings'
  BY <1>3 DEF Opening, TypeOK
<1> QED
  BY <1>3, <1>5, <1>7, <1>8, AllottedAsleep, Finite DEF Opening, TypeOK

\* At the last occupancy every admission is used and every room was occupied twice.
LEMMA CloseOpening ==
  ASSUME TypeOK, LockInv, Opening, NEW g \in Guests, GuestClose(g)
  PROVE  /\ beingCleaned' /\ Cleaning' /\ Evicted'
         /\ \A i \in Rooms : prevOccupancy[i] = 2
<1>1. /\ guestPc[g] = "close" /\ guestPc' = [guestPc EXCEPT ![g] = "evict"]
      /\ dirtyRooms' = N /\ beingCleaned' /\ occupancies' = 0 /\ evicting' = 1
      /\ closings' = closings + 1
      /\ UNCHANGED <<rooms, prevOccupancy, roomAvailability, sleepSemaphore, roomOf,
                     bookedIn, cleanerPc, loaded>>
  BY DEF GuestClose, GuestGoto, rooms, semaphores, cleanerVars
<1>2. occupancies = 2 * N
  BY <1>1 DEF LockInv
<1>3. roomAvailability = 0 /\ Cardinality(Requesting) = 0 /\ Cardinality(Stays) = 2 * N
  BY <1>2, Finite, HotelAssumption DEF Opening, TypeOK
<1>4. Requesting = {}
  BY <1>3, Finite, FS_EmptySet
<1>5. \A i \in Rooms : prevOccupancy[i] = 2
  BY <1>3, AllTwice
<1>6. NobodyArrives'
  <2>1. \A h \in Guests : guestPc'[h] # "request" /\ guestPc'[h] # "close"
    BY <1>1, <1>4 DEF Requesting, TypeOK, LockInv, Locked
  <2> QED
    BY <1>1, <1>3, <2>1 DEF NobodyArrives, Requesting
<1>7. ToCount' = N
  <2>1. Unclean' = Rooms
    BY <1>1, <1>5 DEF Unclean
  <2>2. CountedDown' = {}
    BY <1>1 DEF Opening, CountedDown
  <2>3. Cardinality(Unclean') = N /\ Cardinality(CountedDown') = 0
    BY <2>1, <2>2, CountRooms, FS_EmptySet
  <2> QED
    BY <2>3, HotelAssumption DEF ToCount
<1>8. DirtyRoomsSuffice'
  BY <1>1, <1>7, HotelAssumption DEF DirtyRoomsSuffice, Opening
<1>9. NobodyBooked' /\ CleanedFree'
  BY <1>1, <1>5 DEF NobodyBooked, CleanedFree, Opening, TypeOK
<1>11. Evicted'
  <2> SUFFICES ASSUME NEW h \in Guests, guestPc'[h] = "stay", bookedIn'[h] = closings' - 1
               PROVE  Passed(h)'
    BY DEF Evicted
  <2>1. guestPc[h] = "stay" /\ bookedIn[h] = closings
    BY <1>1 DEF TypeOK
  <2>2. sleepSemaphore[h] > 0 \/ HasRoom(h)
    BY <2>1 DEF Opening
  <2>3. roomOf'[h] \in 1..N
    BY <1>1 DEF TypeOK, Rooms
  <2> QED
    BY <1>1, <2>2, <2>3, HotelAssumption DEF Passed, HasRoom, rooms
<1>10. closings' >= 1 /\ \A i \in Rooms : prevOccupancy'[i] # 1
  BY <1>1, <1>5 DEF TypeOK
<1> QED
  BY <1>1, <1>5, <1>6, <1>8, <1>9, <1>10, <1>11 DEF Cleaning

\* The other steps of a guest stay in the phase.
LEMMA QuietPhase ==
  ASSUME TypeOK, ~beingCleaned, Phase, NEW g \in Guests, Quiet(g)
  PROVE  Phase'
<1>1. ~beingCleaned'
  BY QuietGuest
<1>2. ASSUME Opening PROVE Opening'
  <2>1. \A c \in Cleaners : cleanerPc'[c] \in {"check", "block", "wait"}
    BY <1>2, QuietGuest DEF Opening
  <2>2. UNCHANGED <<roomAvailability, occupancies, Requesting, Stays>>
    BY QuietGuest, QuietCounts
  <2>3. \A h \in Guests : guestPc'[h] = "stay" /\ bookedIn'[h] = closings' =>
                          sleepSemaphore'[h] > 0 \/ HasRoom(h)'
    BY <1>2, QuietGuest, QuietAsleep DEF Opening
  <2>4. \A h \in Guests : bookedIn'[h] <= closings'
    BY <1>2, QuietGuest DEF Opening
  <2> QED
    BY <1>2, <2>1, <2>2, <2>3, <2>4 DEF Opening
<1>3. ASSUME Reopening PROVE Reopening'
  <2>1. \A c \in Cleaners : cleanerPc'[c] = "reopen"
    BY <1>3, QuietGuest DEF Reopening
  <2>2. NobodyArrives' /\ NobodyBooked' /\ UNCHANGED <<occupancies, Stays>>
    BY <1>3, QuietGuest, QuietCounts DEF Reopening, NobodyBooked
  <2> QED
    BY <1>3, <2>1, <2>2 DEF Reopening
<1>4. ASSUME Over PROVE Over'
  <2>1. UNCHANGED <<closings, Requesting>>
    BY QuietGuest, QuietCounts
  <2> QED
    BY <1>4, <2>1, QuietGuest DEF Over
<1> QED
  BY <1>1, <1>2, <1>3, <1>4 DEF Phase

\* A cleaner while the hotel is open or about to be opened.
LEMMA CleanerPhase ==
  ASSUME TypeOK, ~beingCleaned, Phase, NEW c \in Cleaners, CleanerThread(c) \/ CleanerWake(c)
  PROVE  Phase'
<1>1. ~beingCleaned'
  BY CleanerFrame DEF CleanerNotCleaned
<1>2. ASSUME Opening PROVE Opening'
  <2>1. cleanerPc[c] \in {"check", "block", "wait"}
    BY <1>2 DEF Opening
  <2>2. CleanerCheck(c) \/ CleanerBlock(c) \/ CleanerWake(c)
    BY <2>1 DEF CleanerThread, CleanerDirty, CleanerPick, CleanerNoRoom, CleanerLoad,
                CleanerStore, CleanerLast, CleanerZeroGuests, CleanerNotCleaned, CleanerReopen,
                CleanerGoto
  <2>3. UNCHANGED <<rooms, roomAvailability, occupancies, guestPc, sleepSemaphore, roomOf,
                    closings, bookedIn>>
    BY <2>2 DEF CleanerCheck, CleanerBlock, CleanerWake, semaphores, counters, guestVars
  <2>4. \E to \in {"check", "block", "wait"} : cleanerPc' = [cleanerPc EXCEPT ![c] = to]
    BY <2>2 DEF CleanerCheck, CleanerBlock, CleanerWake, CleanerGoto
  <2>5. \A d \in Cleaners : cleanerPc'[d] \in {"check", "block", "wait"}
    BY <1>2, <2>4 DEF Opening, TypeOK
  <2>6. Requesting' = Requesting /\ Stays' = Stays
    BY <2>3 DEF Requesting, Stays, rooms
  <2>7. \A g \in Guests : HasRoom(g) => HasRoom(g)'
    BY <2>3 DEF HasRoom, rooms
  <2> QED
    BY <1>2, <2>3, <2>5, <2>6, <2>7 DEF Opening
<1>3. ASSUME OneCleaner, Reopening PROVE Opening'
  <2>1. cleanerPc[c] = "reopen"
    BY <1>3 DEF Reopening
  <2>2. CleanerReopen(c)
    BY <2>1
    DEF CleanerThread, CleanerCheck, CleanerBlock, CleanerDirty, CleanerPick, CleanerNoRoom,
        CleanerLoad, CleanerStore, CleanerLast, CleanerZeroGuests, CleanerNotCleaned,
        CleanerWake, CleanerGoto
  <2>3. \A d \in Cleaners : cleanerPc'[d] = "check"
    BY <1>3, <2>2 DEF CleanerReopen, CleanerGoto, OneCleaner, TypeOK
  <2>4. roomAvailability' = 2 * N /\ occupancies' = 0 /\ Requesting' = {} /\ Stays' = {}
    BY <1>3, <2>2, HotelAssumption
    DEF CleanerReopen, Reopening, NobodyArrives, Requesting, Stays, rooms, counters, guestVars
  <2>5. Cardinality(Requesting') = 0 /\ Cardinality(Stays') = 0
    BY <2>4, FS_EmptySet
  <2>6. \A g \in Guests : bookedIn'[g] <= closings' /\ bookedIn'[g] # closings'
    BY <1>3, CleanerFrame DEF Reopening, NobodyBooked, TypeOK
  <2> QED
    BY <2>3, <2>4, <2>5, <2>6, HotelAssumption DEF Opening
<1>4. ASSUME Over PROVE Over'
  BY <1>4, CleanerFrame DEF Over
<1> QED
  BY <1>1, <1>2, <1>3, <1>4 DEF Phase

\* An open hotel is closed by the guest of the 2N-th occupancy, and only then.
LEMMA ClosingStep ==
  ASSUME TypeOK, LockInv, Phase, ~beingCleaned, NEW g \in Guests, GuestClose(g)
  PROVE  Phase' /\ Evicted' /\ \A i \in Rooms : prevOccupancy[i] = 2
<1>1. Opening
  BY DEF Phase, Reopening, Over, NobodyArrives, GuestClose, GuestGoto
<1> QED
  BY <1>1, CloseOpening DEF Phase

\* The steps of a guest while the hotel is open or about to be opened.
LEMMA GuestPhase ==
  ASSUME TypeOK, LockInv, Phase, ~beingCleaned, NEW g \in Guests, GuestThread(g)
  PROVE  Phase'
<1>1. CASE GuestClose(g)
  BY <1>1, ClosingStep
<1>2. CASE GuestArrive(g)
  <2>1. CASE Opening
    BY <1>2, <2>1, ArriveOpening DEF Phase
  <2>2. ~Reopening /\ ~(MaxCleanings <= 1 /\ Over)
    BY <1>2, HotelAssumption DEF GuestArrive, Reopening, NobodyArrives, Over, TypeOK
  <2> QED
    BY <2>1, <2>2 DEF Phase
<1>3. CASE GuestAllotted(g) \/ GuestTurnedAway(g)
  <2>1. guestPc[g] = "request"
    BY <1>3 DEF GuestAllotted, GuestTurnedAway, GuestGoto
  <2>2. Opening
    BY <2>1 DEF Phase, Reopening, Over, NobodyArrives, Requesting
  <2> QED
    BY <1>3, <2>2, AllottedOpening, TurnedAwayOpening DEF Phase
<1> QED
  BY <1>1, <1>2, <1>3, QuietPhase DEF GuestThread, Quiet

\* The phase, the lock and the types are an inductive invariant.
LEMMA InitPhase == Init => Phase /\ Evicted
<1> SUFFICES ASSUME Init PROVE Phase /\ Evicted
  OBVIOUS
<1>1. Requesting = {} /\ Stays = {}
  BY DEF Init, Requesting, Stays
<1>2. Cardinality(Requesting) = 0 /\ Cardinality(Stays) = 0
  BY <1>1, FS_EmptySet
<1>3. Opening
  BY <1>2, HotelAssumption DEF Init, Opening
<1>4. Evicted
  BY DEF Init, Evicted, Evicting
<1> QED
  BY <1>3, <1>4 DEF Init, Phase

LEMMA NextPhase ==
  ASSUME Regular, IInv, [Next]_vars
  PROVE  IInv'
<1>1. TypeOK' /\ LockInv'
  BY NextTypes DEF IInv
<1>2. Phase'
  <2>1. CASE UNCHANGED vars
    <3>1. UNCHANGED <<Requesting, Stays, Unclean, CountedDown>>
      BY <2>1 DEF vars, rooms, guestVars, cleanerVars, Requesting, Stays, Unclean, CountedDown
    <3>2. UNCHANGED <<Opening, NobodyArrives, NobodyBooked, Over>>
      BY <2>1, <3>1 DEF vars, rooms, counters, semaphores, guestVars, cleanerVars, Opening,
                        HasRoom, NobodyArrives, NobodyBooked, Over
    <3>3. UNCHANGED <<ToCount, CleanedFree>>
      BY <2>1, <3>1 DEF vars, rooms, ToCount, CleanedFree
    <3>4. UNCHANGED DirtyRoomsSuffice
      BY <2>1, <3>1, <3>3 DEF vars, counters, cleanerVars, DirtyRoomsSuffice
    <3>5. UNCHANGED <<Cleaning, Reopening, beingCleaned>>
      BY <2>1, <3>1, <3>2, <3>3, <3>4
      DEF vars, rooms, counters, guestVars, cleanerVars, Cleaning, Reopening
    <3> QED
      BY <3>2, <3>5 DEF IInv, Phase
  <2>2. ASSUME NEW g \in Guests, GuestThread(g) PROVE Phase'
    BY <2>2, GuestCleaning, GuestPhase DEF IInv, Phase
  <2>3. ASSUME NEW c \in Cleaners, CleanerThread(c) \/ CleanerWake(c) PROVE Phase'
    BY <2>3, CleanerCleaning, OpensHotel, CleanerPhase DEF IInv, Phase
  <2> QED
    BY <2>1, <2>2, <2>3 DEF Next
<1>3. Evicted'
  <2>1. CASE UNCHANGED vars
    BY <2>1 DEF vars, rooms, semaphores, guestVars, IInv, Evicted, Evicting, Passed, HasRoom
  <2>2. ASSUME NEW g \in Guests, GuestThread(g) PROVE Evicted'
    <3>1. CASE GuestClose(g)
      <4>1. ~beingCleaned
        BY <3>1 DEF GuestClose, GuestGoto, IInv, Phase, Cleaning, NobodyArrives
      <4> QED
        BY <3>1, <4>1, ClosingStep DEF IInv
    <3> QED
      BY <2>2, <3>1, QuietEvicted, AskingEvicted DEF GuestThread, Quiet, IInv
  <2>3. ASSUME NEW c \in Cleaners, CleanerThread(c) \/ CleanerWake(c) PROVE Evicted'
    BY <2>3, CleanerEvicted DEF IInv
  <2> QED
    BY <2>1, <2>2, <2>3 DEF Next
<1> QED
  BY <1>1, <1>2, <1>3 DEF IInv

LEMMA SpecPhase == ASSUME Regular PROVE Spec => []IInv
<1>1. Init => IInv
  BY InitTypes, InitPhase DEF IInv
<1>2. IInv /\ [Next]_vars => IInv'
  BY NextPhase
<1> QED
  BY <1>1, <1>2, PTL DEF Spec

-----------------------------------------------------------------------------
(* What is said of a cycle *)

\* While the hotel is cleaned no guest is being admitted: the last occupancy comes
\* with the last admission, so no guest that found one is left (guestthread.cpp:57).
THEOREM Admissions == ASSUME Regular PROVE Spec => []NobodyAdmittedWhileCleaning
<1>1. IInv => NobodyAdmittedWhileCleaning
  BY DEF IInv, Phase, Cleaning, NobodyArrives, Requesting, NobodyAdmittedWhileCleaning
<1> QED
  BY <1>1, SpecPhase, PTL

\* When the closing guest has gone through the rooms, a guest still asleep has a token
\* or was taken out of its room by a cleaner (guestthread.cpp:107-111).
THEOREM Eviction == ASSUME Regular PROVE Spec => []EvictionMissesOnlyCleaned
<1>1. IInv => EvictionMissesOnlyCleaned
  <2> SUFFICES ASSUME IInv, NEW g \in AsleepAtClosing
               PROVE  sleepSemaphore[g] > 0 \/ prevOccupancy[roomOf[g]] = 0
    BY DEF EvictionMissesOnlyCleaned
  <2>1. Passed(g)
    BY DEF AsleepAtClosing, IInv, Evicted, Evicting
  <2>2. roomOf[g] \in Rooms /\ ~(evicting <= roomOf[g])
    BY HotelAssumption DEF AsleepAtClosing, IInv, TypeOK, Rooms
  <2> QED
    BY <2>1, <2>2 DEF Passed
<1> QED
  BY <1>1, SpecPhase, PTL

\* The hotel closes when every room was occupied twice: occupancies counts for the
\* hotel what prev_occupancy counts for each room.
THEOREM Closing == ASSUME Regular PROVE Spec => TwiceBeforeCleaning
<1>1. ASSUME IInv, [Next]_vars, ~beingCleaned, beingCleaned'
      PROVE  \A i \in Rooms : prevOccupancy[i] = 2
  <2>1. PICK g \in Guests : GuestClose(g)
    <3>1. Next
      BY <1>1 DEF vars, counters
    <3>2. \A c \in Cleaners : ~(CleanerThread(c) \/ CleanerWake(c))
      BY <1>1, CleanerFrame DEF CleanerNotCleaned, IInv
    <3>3. PICK g \in Guests : GuestThread(g)
      BY <3>1, <3>2 DEF Next
    <3>4. ~GuestArrive(g) /\ ~GuestTurnedAway(g) /\ ~GuestAllotted(g)
      BY <1>1 DEF GuestArrive, GuestTurnedAway, GuestAllotted, counters
    <3> QED
      BY <1>1, <3>3, <3>4, QuietGuest DEF GuestThread, Quiet, IInv
  <2> QED
    BY <1>1, <2>1, ClosingStep DEF IInv
<1> QED
  BY <1>1, SpecPhase, PTL DEF Spec, TwiceBeforeCleaning

\* The hotel opens when every room is marked clean, free and nobody's, whatever
\* decrements of dirty_rooms were lost (cleanerthread.cpp:62).
THEOREM Opens == ASSUME Regular PROVE Spec => OpensClean
<1>1. ASSUME IInv, [Next]_vars, beingCleaned, ~beingCleaned'
      PROVE  \A i \in Rooms : availability[i] /\ prevOccupancy[i] = 0 /\ guestOf[i] = Nobody
  <2>1. Cleaning /\ TypeOK
    BY <1>1 DEF IInv, Phase
  <2>2. Next
    BY <1>1 DEF vars, counters
  <2>3. PICK c \in Cleaners : CleanerThread(c) \/ CleanerWake(c)
    BY <1>1, <2>1, <2>2, GuestCleaning DEF Next
  <2>4. Unclean = {}
    BY <1>1, <2>1, <2>3, CleanerCleaning
  <2>5. \A i \in Rooms : prevOccupancy[i] = 0
    BY <2>1, <2>4 DEF Cleaning, Unclean, TypeOK
  <2> QED
    BY <2>1, <2>5 DEF Cleaning, CleanedFree
<1> QED
  BY <1>1, SpecPhase, PTL DEF Spec, OpensClean
=============================================================================
