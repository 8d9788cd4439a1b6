----------------------------- MODULE MCPrintFleet -----------------------------
(***************************************************************************)
(* Instances of PrintFleet for TLC.                                        *)
(***************************************************************************)
EXTENDS PrintFleet, TLC

CONSTANTS a1, a2, j1, j2, r1, r2

\* Nothing depends on which of its names a reader has.
ReaderSymmetry == Permutations(Readers)

OneType == [j \in Jobs |-> "KITCHEN"]
\* j1's priority is the backend's, j2's the local priority_map's.
TwoTypes == [j \in Jobs |-> IF j = j1 THEN "CUSTOMER" ELSE "KITCHEN"]
EnvelopePriority == [j \in Jobs |-> 1]
LocalPriority == [a \in Agents |-> [ty \in {"KITCHEN"} |-> 2]]

AllTypes == [a \in Agents |-> Types]
\* a1 is the kitchen's; a2 also prints for customers.
Stations == [a \in Agents |-> IF a = a1 THEN {"KITCHEN"} ELSE Types]
===============================================================================
