------------------------------- MODULE JobQueue -------------------------------
(***************************************************************************)
(* What internal/job/queue.go promises: a bag of waiting jobs from which   *)
(* Pop takes one of the highest priority, the earliest pushed among those  *)
(* ("Higher Priority value = processed first. FIFO within the same         *)
(* priority").  The slice that keeps this promise is module JobHeap.       *)
(*                                                                         *)
(* Push, Pop and Len each hold Queue.mu from start to end, so each is one  *)
(* step whichever goroutine calls it.                                      *)
(***************************************************************************)
EXTENDS Integers, JobOrder

CONSTANTS Priorities,   \* the values a job's Priority takes
          MaxPushes     \* bound: pushes in one behaviour

VARIABLES entries,   \* the waiting entries
          seq,       \* Queue.seq, the number of pushes so far
          popped     \* what the last call returned: an entry, or Nothing

vars == <<entries, seq, popped>>

Nothing == [prio |-> 0, seq |-> 0]

Init ==
    /\ entries = {}
    /\ seq = 0
    /\ popped = Nothing

Push(p) ==
    /\ seq < MaxPushes
    /\ seq' = seq + 1
    /\ entries' = entries \cup {[prio |-> p, seq |-> seq']}
    /\ popped' = Nothing

\* Pop on an empty queue returns nil and changes nothing.
Pop ==
    \/ /\ entries = {}
       /\ popped' = Nothing
       /\ UNCHANGED <<entries, seq>>
    \/ \E e \in entries :
          /\ IsFirst(e, entries)
          /\ entries' = entries \ {e}
          /\ popped' = e
          /\ UNCHANGED seq

Next == Pop \/ \E p \in Priorities : Push(p)

Spec == Init /\ [][Next]_vars
===============================================================================
