------------------------------ MODULE Delivery ------------------------------
(***************************************************************************)
(* What the social network of Assignment 4 promises its users, without     *)
(* threads, queues or locks: a user posts, the post is announced, and it   *)
(* gets once into the feed of each neighbour, who reads it once.           *)
(***************************************************************************)
EXTENDS Naturals, Sequences

CONSTANTS
  Nodes,           \* the users
  Friends          \* [Nodes -> SUBSET Nodes]: who gets what a user posts

VARIABLES
  posts,           \* who posted, in order: a post is its index
  announced,       \* the posts whose creation is in the log
  inbox,           \* per user: the posts that wait to be read
  seen             \* per user: the posts read

vars == <<posts, announced, inbox, seen>>

Init ==
  /\ posts = <<>> /\ announced = {}
  /\ inbox = [n \in Nodes |-> {}] /\ seen = [n \in Nodes |-> {}]

Post(u) ==
  /\ posts' = Append(posts, u)
  /\ UNCHANGED <<announced, inbox, seen>>

Announce(a) ==
  /\ announced' = announced \cup {a}
  /\ UNCHANGED <<posts, inbox, seen>>

\* A post reaches a neighbour of its user who never had it.
Deliver(a, n) ==
  /\ n \in Friends[posts[a]] /\ a \notin inbox[n] \cup seen[n]
  /\ inbox' = [inbox EXCEPT ![n] = @ \cup {a}]
  /\ UNCHANGED <<posts, announced, seen>>

\* A user reads one announced post, and has it no longer to read.
Read(a, n) ==
  /\ a \in inbox[n] \cap announced
  /\ inbox' = [inbox EXCEPT ![n] = @ \ {a}]
  /\ seen' = [seen EXCEPT ![n] = @ \cup {a}]
  /\ UNCHANGED <<posts, announced>>

Next ==
  \/ \E u \in Nodes : Post(u)
  \/ \E a \in DOMAIN posts :
       Announce(a) \/ \E n \in Nodes : Deliver(a, n) \/ Read(a, n)

Spec == Init /\ [][Next]_vars
=============================================================================
