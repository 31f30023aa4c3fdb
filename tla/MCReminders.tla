---------------------------- MODULE MCReminders ----------------------------
(* Reminders for TLC; the configurations give its constants as model values. *)
EXTENDS Reminders, TLC

\* no connection of the device is special before it connects
Symmetry == Permutations(Pages)

=============================================================================
