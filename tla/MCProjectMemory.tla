--------------------------- MODULE MCProjectMemory ---------------------------
(***************************************************************************)
(* Instances of ProjectMemory for TLC: a human decision and an agent's     *)
(* checkpoint, their two authors, and two processes on one state file.     *)
(***************************************************************************)
EXTENDS ProjectMemory, TLC

CONSTANTS p1, p2

Authors == {"human", "coding_agent"}
TwoKeys == {<<"decision", "d">>, <<"checkpoint", "c">>}
DecisionOnly == {<<"decision", "d">>}
(* The processes are interchangeable: nothing names one of them. *)
ProcessSymmetry == Permutations({p1, p2})
TwoClassifications == {"HUMAN_APPROVED", "UNVERIFIED"}
=============================================================================
