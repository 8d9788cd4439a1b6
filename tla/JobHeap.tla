------------------------------- MODULE JobHeap --------------------------------
(***************************************************************************)
(* internal/job/queue.go as it is written: a slice of entries kept in heap *)
(* order by container/heap, which calls Less, Swap, Push and Pop of        *)
(* jobHeap.  The slice is a sequence here: Go's index i is index i + 1.    *)
(* Checked to implement JobQueue.                                          *)
(***************************************************************************)
EXTENDS Integers, Sequences, SequencesExt

CONSTANTS Priorities,   \* the values a job's Priority takes
          MaxPushes     \* bound: pushes in one behaviour

ASSUME QueueAssumption == Priorities \subseteq Int /\ MaxPushes \in Nat

VARIABLES heap,     \* Queue.heap
          seq,      \* Queue.seq
          popped    \* what the last call returned

vars == <<heap, seq, popped>>

Nothing == [prio |-> 0, seq |-> 0]

\* A plausible slip in Less: equal priorities compare by the later push.
LessLifo(h, i, j) ==
    IF h[i].prio # h[j].prio THEN h[i].prio > h[j].prio ELSE h[i].seq > h[j].seq

Less(h, i, j) ==
    IF h[i].prio # h[j].prio THEN h[i].prio > h[j].prio ELSE h[i].seq < h[j].seq

Swapped(h, i, j) == [h EXCEPT ![i] = h[j], ![j] = h[i]]

\* container/heap's up: the element at j climbs while it is less than its parent.
\* climb[j] is what becomes of a slice.
Up(h0, j0) ==
    LET climb[j \in DOMAIN h0] ==
            [h \in [DOMAIN h0 -> Range(h0)] |->
                LET i == j \div 2
                IN IF i = 0 \/ ~Less(h, j, i) THEN h ELSE climb[i][Swapped(h, i, j)]]
    IN climb[j0][h0]

\* container/heap's down over the first n elements: the element at i sinks
\* below the lesser of its children.
Down(h0, i0, n) ==
    LET sink[i \in DOMAIN h0] ==
            [h \in [DOMAIN h0 -> Range(h0)] |->
                LET left  == 2 * i
                    right == left + 1
                    least == IF right <= n /\ Less(h, right, left) THEN right ELSE left
                IN IF left > n \/ ~Less(h, least, i) THEN h ELSE sink[least][Swapped(h, i, least)]]
    IN sink[i0][h0]

Init ==
    /\ heap = <<>>
    /\ seq = 0
    /\ popped = Nothing

\* A plausible slip in Push: the element is appended and never sifted up.
PushNoUp(p) ==
    /\ seq < MaxPushes
    /\ seq' = seq + 1
    /\ heap' = Append(heap, [prio |-> p, seq |-> seq'])
    /\ popped' = Nothing

\* A plausible slip in Push: the entry is numbered and seq is not advanced.
PushSameSeq(p) ==
    /\ seq < MaxPushes
    /\ heap' = Up(Append(heap, [prio |-> p, seq |-> seq + 1]), Len(heap) + 1)
    /\ popped' = Nothing
    /\ UNCHANGED seq

Push(p) ==
    /\ seq < MaxPushes
    /\ seq' = seq + 1
    /\ heap' = Up(Append(heap, [prio |-> p, seq |-> seq']), Len(heap) + 1)
    /\ popped' = Nothing

\* heap.Pop: the root swaps with the last element, the new root sinks over the
\* rest, and jobHeap.Pop cuts the last element off.
Pop ==
    IF heap = <<>>
    THEN popped' = Nothing /\ UNCHANGED <<heap, seq>>
    ELSE LET n == Len(heap) - 1
             sifted == IF n = 0 THEN heap ELSE Down(Swapped(heap, 1, n + 1), 1, n)
         IN /\ popped' = Last(sifted)
            /\ heap' = Front(sifted)
            /\ UNCHANGED seq

Next == Pop \/ \E p \in Priorities : Push(p)

Spec == Init /\ [][Next]_vars

(***************************************************************************)
(* The slice holds entries that were pushed, each under a number of its    *)
(* own: the tie-breaker of Less never ties (queue.go:26, 63-64).           *)
(***************************************************************************)
TypeOK ==
    /\ heap \in Seq([prio : Priorities, seq : 1..MaxPushes])
    /\ seq \in 0..MaxPushes
    /\ \A i \in DOMAIN heap : heap[i].seq <= seq
    /\ \A i, k \in DOMAIN heap : heap[i].seq = heap[k].seq => i = k

(***************************************************************************)
(* The shape container/heap relies on between calls: no element is less    *)
(* than its parent (queue.go:58-65 under heap.Push and heap.Pop).          *)
(***************************************************************************)
HeapOrdered == \A j \in 2..Len(heap) : ~Less(heap, j, j \div 2)

(***************************************************************************)
(* The slice implements the promise: every Pop returns the entry of        *)
(* highest priority pushed first, whatever pushes and pops came before     *)
(* (queue.go:9, 22-40).                                                    *)
(***************************************************************************)
Abstract == INSTANCE JobQueue WITH entries <- Range(heap)
ImplementsQueue == Abstract!Spec
===============================================================================
