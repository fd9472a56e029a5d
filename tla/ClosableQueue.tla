--------------------------- MODULE ClosableQueue ---------------------------
(***************************************************************************)
(* What the bounded log queue of a sink promises, with enqueue as one      *)
(* atomic step: a record offered before the queue is closed is queued, or  *)
(* dropped by the overflow policy; a record offered once closing has begun *)
(* may be refused; after the close has returned every record is refused.   *)
(* SinkQueue implements this contract with atomics; SlsSink builds the     *)
(* delivery pipeline on it.                                                *)
(***************************************************************************)
EXTENDS Naturals, Sequences

CONSTANTS Record,      \* the records the application may log
          Capacity,    \* queue_capacity, after SlsConfig::normalized
          DropOldest   \* overflow_policy: TRUE is DropOldest, FALSE DropNewest

ASSUME QueueAssumption ==
  /\ Capacity \in Nat \ {0}
  /\ DropOldest \in BOOLEAN

VARIABLES ring,    \* SinkQueue::ring, head first
          phase,   \* "open", "closing" (close is running), "closed" (it returned)
          fate     \* where the queue has put each record so far

queueVars == <<ring, phase, fate>>

QueueFate == {"fresh", "queued", "taken", "queue_full", "worker_closed"}

QueueTypeOK ==
  /\ ring \in Seq(Record)
  /\ phase \in {"open", "closing", "closed"}
  /\ fate \in [Record -> QueueFate]

QueueInit ==
  /\ ring = <<>>
  /\ phase = "open"
  /\ fate = [r \in Record |-> "fresh"]

Full == Len(ring) = Capacity

(* The record an enqueue of r costs, if any: r itself or the oldest one.   *)
Victim(r) == IF DropOldest THEN Head(ring) ELSE r

Offer(r) ==
  /\ phase # "closed"
  /\ fate[r] = "fresh"
  /\ IF Full
     THEN /\ ring' = IF DropOldest THEN Append(Tail(ring), r) ELSE ring
          /\ fate' = [fate EXCEPT ![r] = "queued", ![Victim(r)] = "queue_full"]
     ELSE /\ ring' = Append(ring, r)
          /\ fate' = [fate EXCEPT ![r] = "queued"]
  /\ UNCHANGED phase

Refuse(r) ==
  /\ phase # "open"
  /\ fate[r] = "fresh"
  /\ fate' = [fate EXCEPT ![r] = "worker_closed"]
  /\ UNCHANGED <<ring, phase>>

Take ==
  /\ ring # <<>>
  /\ ring' = Tail(ring)
  /\ fate' = [fate EXCEPT ![Head(ring)] = "taken"]
  /\ UNCHANGED phase

BeginClose == phase = "open" /\ phase' = "closing" /\ UNCHANGED <<ring, fate>>

EndClose == phase = "closing" /\ phase' = "closed" /\ UNCHANGED <<ring, fate>>

QueueNext ==
  \/ \E r \in Record : Offer(r) \/ Refuse(r)
  \/ Take \/ BeginClose \/ EndClose

QueueSpec == QueueInit /\ [][QueueNext]_queueVars
=============================================================================
