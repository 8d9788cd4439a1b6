---------------------------- MODULE MCSettingsPage ----------------------------
(***************************************************************************)
(* Instance of SettingsPage for TLC.                                       *)
(***************************************************************************)
EXTENDS SettingsPage, TLC

CONSTANTS p1, p2

PageSymmetry == Permutations(Pages)

\* INVOICE's template comes and goes, KITCHEN's stays.
Sets == {{"KITCHEN"}, Types}
Priorities == [t \in {"KITCHEN"} |-> 2]
===============================================================================
