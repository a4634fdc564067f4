----------------------------- MODULE LossyQueue -----------------------------
(***************************************************************************)
(* What a span collector promises, without its threads: a queue that holds *)
(* at most Bound items and is full rather than slow.  Items come in once   *)
(* and in order; a full queue pushes out its oldest item; deliveries are   *)
(* in order of arrival and never repeat an item; the queue gives up its    *)
(* oldest items only for a newer one or for a delivery of as many.         *)
(*                                                                         *)
(* It does not promise that the items given up for a delivery are those    *)
(* delivered.  They are if nothing was pushed out in the meantime.         *)
(***************************************************************************)
EXTENDS Naturals, Sequences

CONSTANTS
  Items,
  Bound   \* how many items are held

VARIABLES
  open,       \* items are still taken
  arrived,    \* the items that came in, in order
  queue,      \* the items held, oldest first
  delivered,  \* the set of items delivered
  owed        \* how many of its oldest items the queue has yet to give up
              \* for the last delivery

queueVars == <<open, arrived, queue, delivered, owed>>

QueueInit ==
  /\ open = TRUE
  /\ arrived = << >>
  /\ queue = << >>
  /\ delivered = {}
  /\ owed = 0

\* The item comes in; if there is no room the oldest goes.
Put(item) ==
  /\ open
  /\ \A i \in 1 .. Len(arrived) : arrived[i] # item
  /\ arrived' = Append(arrived, item)
  /\ queue' = IF Len(queue) < Bound THEN Append(queue, item) ELSE Tail(Append(queue, item))
  /\ UNCHANGED <<open, delivered, owed>>

\* The n items after the first k are delivered: all delivered so far are
\* among those k, and whatever the queue no longer holds is no newer.
Deliver(k, n) ==
  /\ owed = 0
  /\ n > 0 /\ n <= Len(queue)
  /\ k + Len(queue) <= Len(arrived)
  /\ \A item \in delivered : \E i \in 1 .. k : item = arrived[i]
  /\ delivered' = delivered \cup {arrived[k + i] : i \in 1 .. n}
  /\ owed' = n
  /\ UNCHANGED <<open, arrived, queue>>

GiveUp ==
  /\ owed > 0
  /\ queue' = SubSeq(queue, owed + 1, Len(queue))
  /\ owed' = 0
  /\ UNCHANGED <<open, arrived, delivered>>

Shut ==
  /\ open' = FALSE
  /\ UNCHANGED <<arrived, queue, delivered, owed>>

QueueNext ==
  \/ \E item \in Items : Put(item)
  \/ \E k \in 0 .. Len(arrived), n \in 1 .. Len(queue) : Deliver(k, n)
  \/ GiveUp
  \/ Shut

QueueSpec == QueueInit /\ [][QueueNext]_queueVars
=============================================================================
