------------------------ MODULE MCServiceGenerations ------------------------
(***************************************************************************)
(* Two chats: alone serves one of them, both serves all, later does so too *)
(* on another schedule, other serves the second chat only and wants no     *)
(* startup digests.                                                        *)
(***************************************************************************)
EXTENDS ServiceGenerations, TLC

CONSTANTS a, b, alone, both, later, other

RecipientsOf ==
    [s \in Snapshots |-> CASE s = alone -> {a} [] s = other -> {b} [] OTHER -> Chats]

StartupOf == [s \in Snapshots |-> s # other]

TaskSymmetry == Permutations(Tasks)
=============================================================================
