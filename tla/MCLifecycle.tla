---------------------------- MODULE MCLifecycle ----------------------------
(* Instance of Lifecycle for TLC: the tasks are interchangeable, and so are *)
(* the listeners.                                                           *)
EXTENDS Lifecycle, TLC

Symmetry == Permutations(Tasks) \cup Permutations(Listeners)
=============================================================================
