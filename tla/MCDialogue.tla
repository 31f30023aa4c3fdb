------------------------------ MODULE MCDialogue ------------------------------
(***************************************************************************)
(* One device with two connections, a member and guests.                   *)
(***************************************************************************)
EXTENDS DialogueWrites, TLC

\* the connections of a device are alike
Symmetry == Permutations(Connections)
=============================================================================
