--------------------------- MODULE MCXZramPending ---------------------------
(* A small instance of XZramPending for TLC. *)
EXTENDS XZramPending

=============================================================================
