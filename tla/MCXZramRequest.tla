--------------------------- MODULE MCXZramRequest ---------------------------
(* A small instance of XZramRequest by itself, for TLC. *)
EXTENDS XZramRequest

=============================================================================
