------------------------------ MODULE PrintOnce -------------------------------
(***************************************************************************)
(* What the agents promise for each job, however many they are and however *)
(* the job reaches them (README.md:55-60): one agent takes it, once; only  *)
(* while it has it does paper come out, at most MaxCopies times; and when  *)
(* it lets go, whether the job was printed, failed, or was lost with its   *)
(* process, no agent takes it again.                                       *)
(*                                                                         *)
(* Jobs are independent.  A step may move several of them, each by a step  *)
(* of its own: an agent that is killed lets go of all it has.              *)
(***************************************************************************)
EXTENDS Integers

CONSTANTS Agents, Jobs, NoAgent,
          MaxCopies     \* the attempts a job gets

VARIABLES phase,    \* of each job: "open", "taken", or "over"
          by,       \* the agent that took it
          copies    \* paper copies so far

vars == <<phase, by, copies>>

Init ==
    /\ phase = [j \in Jobs |-> "open"]
    /\ by = [j \in Jobs |-> NoAgent]
    /\ copies = [j \in Jobs |-> 0]

Take(j) ==
    /\ phase[j] = "open" /\ phase'[j] = "taken"
    /\ by'[j] \in Agents
    /\ copies'[j] = copies[j]

\* The claim is granted to an agent that never hears of it.
Strand(j) ==
    /\ phase[j] = "open" /\ phase'[j] = "over"
    /\ by'[j] \in Agents
    /\ copies'[j] = copies[j]

Copy(j) ==
    /\ phase[j] = "taken" /\ phase'[j] = "taken"
    /\ copies[j] < MaxCopies /\ copies'[j] = copies[j] + 1
    /\ by'[j] = by[j]

\* The agent lets go; killed while the printer was at work, it leaves a last copy.
Release(j) ==
    /\ phase[j] = "taken" /\ phase'[j] = "over"
    /\ copies'[j] \in {copies[j], copies[j] + 1} /\ copies'[j] <= MaxCopies
    /\ by'[j] = by[j]

Same(j) == phase'[j] = phase[j] /\ by'[j] = by[j] /\ copies'[j] = copies[j]

Next == \A j \in Jobs : Take(j) \/ Strand(j) \/ Copy(j) \/ Release(j) \/ Same(j)

Spec == Init /\ [][Next]_vars
===============================================================================
