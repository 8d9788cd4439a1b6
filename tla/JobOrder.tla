------------------------------- MODULE JobOrder -------------------------------
(***************************************************************************)
(* The order of internal/job/queue.go on waiting entries, shared by the    *)
(* specifications of the queue and of the agents that use it.  An entry e  *)
(* has its job's priority e.prio and the number of its push, e.seq.        *)
(***************************************************************************)
EXTENDS Integers

\* A higher priority first, then an earlier push.
Before(e, f) ==
    \/ e.prio > f.prio
    \/ e.prio = f.prio /\ e.seq < f.seq

\* e is the entry Pop must return.
IsFirst(e, S) == e \in S /\ \A f \in S \ {e} : Before(e, f)
===============================================================================
