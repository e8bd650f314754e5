---------------------------- MODULE MCReminders -----------------------------
(* Instances of Reminders for TLC. *)
EXTENDS Reminders, TLC

Interchangeable ==
  Permutations(Runner) \cup Permutations(Request) \cup Permutations(Action)
=============================================================================
