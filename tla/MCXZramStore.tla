---------------------------- MODULE MCXZramStore ----------------------------
(* Small instances of XZramStore for TLC. *)
EXTENDS XZramStore, TLC

\* Runs of the same kind are interchangeable, and so are values.
Symmetry == Permutations(Pkexec) \cup Permutations(Launched) \cup Permutations(Values)

=============================================================================
